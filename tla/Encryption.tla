----------------------------- MODULE Encryption -----------------------------
(***************************************************************************)
(* Encryption of liboul/cipher.c: DES and Triple-DES by blocks, alone and  *)
(* chained, and the RC4 stream.                                            *)
(*                                                                         *)
(* One block through DES is a constant permutation for each key.  Blocks   *)
(* have BlockSize bytes (8 in the code), RC4 has StreamSize bytes of state *)
(* (256).  What RC4 puts out is kept as the bytes the data are combined    *)
(* with.                                                                   *)
(***************************************************************************)
EXTENDS Naturals, SequencesExt

CONSTANTS
    BlockSize,          \* bytes of a block
    Encipher(_, _),     \* des_ecb_crypt with the encryption subkeys of a key
    Decipher(_, _),     \* with the decryption subkeys
    DesKey,             \* sequences of one key (DES) or three (Triple-DES)
    Iv,                 \* initialisation vectors
    Data,               \* what is encrypted
    StreamSize,         \* bytes of the RC4 state
    StreamKey,          \* keys of RC4
    MaxStream           \* bound on the bytes of one stream

CipherBlock == [1..BlockSize -> {0, 1}]

ASSUME EncryptionAssumption ==
    /\ BlockSize \in Nat \ {0} /\ StreamSize \in Nat \ {0} /\ MaxStream \in Nat
    /\ \A keys \in DesKey : keys \in Seq(ToSet(keys)) /\ Len(keys) \in {1, 3}
    /\ \A keys \in DesKey : \A i \in DOMAIN keys : \A b \in CipherBlock :
        /\ Encipher(keys[i], b) \in CipherBlock /\ Decipher(keys[i], Encipher(keys[i], b)) = b
        /\ Decipher(keys[i], b) \in CipherBlock /\ Encipher(keys[i], Decipher(keys[i], b)) = b
    /\ Iv \subseteq CipherBlock /\ Data \subseteq Seq({0, 1})
    /\ \A k \in StreamKey : k # <<>> /\ k \in Seq(Nat)

VARIABLES
    des3,           \* the context: mode, iv and keys; one key for DES
    crypt,          \* the last encryption, with the context it was made in
    rc4,            \* RC4Context and its key
    stream          \* the bytes it gave since the key was set

encryptionVars == <<des3, crypt, rc4, stream>>

NoCrypt == [data |-> <<>>, output |-> <<>>, outlen |-> 0, context |-> <<>>]

Xor(a, b) == [i \in DOMAIN a |-> (a[i] + b[i]) % 2]
ZeroBlock == [i \in 1..BlockSize |-> 0]
Blocks(data) == Len(data) \div BlockSize
BlockOf(data, i) == SubSeq(data, (i - 1) * BlockSize + 1, i * BlockSize)

\* The bytes behind the last whole block, in a buffer of zeros.
Rest(data) == LET n == Blocks(data) * BlockSize
              IN [i \in 1..BlockSize |-> IF n + i <= Len(data) THEN data[n + i] ELSE 0]
Partial(data) == Len(data) % BlockSize # 0
\* The blocks that are worked on, the partial one last.
ToCrypt(data) == [i \in 1..(Blocks(data) + (IF Partial(data) THEN 1 ELSE 0)) |->
                    IF i <= Blocks(data) THEN BlockOf(data, i) ELSE Rest(data)]

\* Blocks written one behind the other.
Joined(blocks) == [i \in 1..(BlockSize * Len(blocks)) |->
                    blocks[((i - 1) \div BlockSize) + 1][((i - 1) % BlockSize) + 1]]

\* Triple-DES encrypts with the first key, decrypts with the second, encrypts with
\* the third; DES has one.
EncryptBlock(c, b) == IF Len(c.keys) = 1 THEN Encipher(c.keys[1], b)
                      ELSE Encipher(c.keys[3], Decipher(c.keys[2], Encipher(c.keys[1], b)))

\* Mutant: the keys are not applied in reverse.
DecryptBlock_Forward(c, b) ==
    IF Len(c.keys) = 1 THEN Decipher(c.keys[1], b)
    ELSE Decipher(c.keys[3], Encipher(c.keys[2], Decipher(c.keys[1], b)))

DecryptBlock(c, b) == IF Len(c.keys) = 1 THEN Decipher(c.keys[1], b)
                      ELSE Decipher(c.keys[1], Encipher(c.keys[2], Decipher(c.keys[3], b)))

\* des_encrypt and des3_ecb_encrypt
EcbEncrypt(c, blocks) == [i \in DOMAIN blocks |-> EncryptBlock(c, blocks[i])]
\* des_decrypt and des3_ecb_decrypt
EcbDecrypt(c, blocks) == [i \in DOMAIN blocks |-> DecryptBlock(c, blocks[i])]

\* des3_cbc_encrypt: what is encrypted is combined with the block before it; in a
\* partial block the bytes that are missing leave it as it is.
CbcEncrypt(c, blocks) ==
    LET out[i \in 0..Len(blocks)] ==
            IF i = 0 THEN c.iv ELSE EncryptBlock(c, Xor(out[i - 1], blocks[i]))
    IN [i \in DOMAIN blocks |-> out[i]]
\* des3_cbc_decrypt
CbcDecrypt(c, blocks) ==
    [i \in DOMAIN blocks |-> Xor(DecryptBlock(c, blocks[i]),
                                 IF i = 1 THEN c.iv ELSE blocks[i - 1])]

\* des3_encrypt and des3_decrypt
Encrypted(c, data) == IF c.mode = "ecb" THEN EcbEncrypt(c, ToCrypt(data))
                                        ELSE CbcEncrypt(c, ToCrypt(data))
Decrypted(c, data) == IF c.mode = "ecb" THEN EcbDecrypt(c, ToCrypt(data))
                                        ELSE CbcDecrypt(c, ToCrypt(data))

\* *outlen: the length, and that of the partial block once more.
OutLen(data) == Len(data) + (Len(data) % BlockSize)

-----------------------------------------------------------------------------
(* RC4 *)

Swap(s, x, y) == [s EXCEPT ![x] = s[y], ![y] = s[x]]
\* rc4_reset
FreshStream == [state |-> [i \in 0..(StreamSize - 1) |-> i], x |-> 0, y |-> 0, key |-> <<>>]

\* rc4_set_key on a context that was reset, its key_len that of the key.
Keyed(k) ==
    LET mix[i \in 0..StreamSize] ==
            IF i = 0 THEN [state |-> FreshStream.state, y |-> 0]
            ELSE LET m == mix[i - 1]
                     y == (k[((i - 1) % Len(k)) + 1] + m.state[i - 1] + m.y) % StreamSize
                 IN [state |-> Swap(m.state, i - 1, y), y |-> y]
    IN [state |-> mix[StreamSize].state, x |-> 0, y |-> 0, key |-> k]

\* The next byte of rc4_encrypt.
NextByte(r) ==
    LET x == (r.x + 1) % StreamSize
        y == (r.state[x] + r.y) % StreamSize
        s == Swap(r.state, x, y)
    IN [context |-> [state |-> s, x |-> x, y |-> y, key |-> r.key],
        byte |-> s[(s[x] + s[y]) % StreamSize]]

\* n bytes of the stream from context r.
Taken(r, n) ==
    LET go[i \in 0..n] ==
            IF i = 0 THEN [context |-> r, bytes |-> <<>>]
            ELSE LET b == NextByte(go[i - 1].context)
                 IN [context |-> b.context, bytes |-> Append(go[i - 1].bytes, b.byte)]
    IN go[n]

-----------------------------------------------------------------------------
\* des_set_key, des3_set_key
SetDesKey(keys) == des3' = [des3 EXCEPT !.keys = keys] /\ UNCHANGED <<crypt, rc4, stream>>
\* des3_set_iv
SetIv(iv) == des3' = [des3 EXCEPT !.iv = iv] /\ UNCHANGED <<crypt, rc4, stream>>
\* des3_set_batch
SetMode(m) == /\ m = "cbc" => Len(des3.keys) = 3
              /\ des3' = [des3 EXCEPT !.mode = m] /\ UNCHANGED <<crypt, rc4, stream>>

Encrypt(data) ==
    /\ des3.mode = "cbc" => Len(des3.keys) = 3
    /\ crypt' = [data |-> data, output |-> Joined(Encrypted(des3, data)),
                 outlen |-> OutLen(data), context |-> des3]
    /\ UNCHANGED <<des3, rc4, stream>>

\* rc4_reset and rc4_set_key
SetStreamKey(k) == /\ rc4' = Keyed(k) /\ stream' = <<>>
                   /\ UNCHANGED <<des3, crypt>>

\* rc4_encrypt of n bytes
EncryptStream(n) ==
    /\ rc4.key # <<>> /\ Len(stream) + n <= MaxStream
    /\ LET t == Taken(rc4, n)
       IN rc4' = t.context /\ stream' = stream \o t.bytes
    /\ UNCHANGED <<des3, crypt>>

EncryptionInit ==
    /\ \E keys \in DesKey : des3 = [mode |-> "ecb", iv |-> ZeroBlock, keys |-> keys]
    /\ crypt = NoCrypt /\ rc4 = FreshStream /\ stream = <<>>

EncryptionNext ==
    \/ \E keys \in DesKey : SetDesKey(keys)
    \/ \E iv \in Iv : SetIv(iv)
    \/ \E m \in {"ecb", "cbc"} : SetMode(m)
    \/ \E data \in Data : Encrypt(data)
    \/ \E k \in StreamKey : SetStreamKey(k)
    \/ \E n \in 1..MaxStream : EncryptStream(n)

EncryptionSpec == EncryptionInit /\ [][EncryptionNext]_encryptionVars

-----------------------------------------------------------------------------
(* Decrypting all that was written in the context it was encrypted in gives  *)
(* the data back, with zeros up to a whole block, in both modes and for any   *)
(* keys; the stream of RC4 depends on the key alone, not on the calls it was   *)
(* taken in, so that encrypting once more decrypts.                            *)
PlainComesBack ==
    /\ crypt # NoCrypt =>
        Decrypted(crypt.context, crypt.output) = ToCrypt(crypt.data)
    /\ rc4.key # <<>> => stream = Taken(Keyed(rc4.key), Len(stream)).bytes
=============================================================================
