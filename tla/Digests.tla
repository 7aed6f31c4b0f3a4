------------------------------ MODULE Digests ------------------------------
(***************************************************************************)
(* Message digests of liboul/cipher.c: how MD5, MD4 and SHA-1 cut a        *)
(* message that arrives in pieces into blocks, count it and pad it, and    *)
(* HMAC on top of any of them.                                             *)
(*                                                                         *)
(* The compression function is kept as the list of blocks it was given.    *)
(* Sizes are constants: a block of Block bytes, the last two of which hold *)
(* the length in two words of Word values, a byte counting for Bits (the   *)
(* code: 64 bytes, 2^32, 8).  A byte of a message is its place in the      *)
(* message.  An MD5 or MD4 context has to be reset after a digest before   *)
(* it is used again; SHA-1 does so itself.  Nobody appends more at a time  *)
(* than a word counts, for which md5_append would lose the carry.          *)
(***************************************************************************)
EXTENDS Naturals, SequencesExt

CONSTANTS
    Block,          \* block size
    Word,           \* values of a length word
    Bits,           \* what one byte adds to the length
    DigestSize,     \* bytes of a digest
    KeyLens,        \* lengths of keys
    MaxBytes        \* bound on the bytes of one message

ASSUME DigestsAssumption ==
    /\ Block \in Nat /\ Block > 2 /\ DigestSize \in 1..Block
    /\ Bits \in Nat \ {0} /\ Word \in Nat \ {0} /\ Word % Bits = 0 /\ (Word \div Bits) % Block = 0
    /\ KeyLens \subseteq 1..Word /\ MaxBytes \in Nat

VARIABLES
    hash,           \* the state of the hash: MD5Context, MD4_Context, SHA1Context
    opad,           \* HMAC_Context.opad, or NoKey for a plain hash
    key,            \* the key that was set, or NoKey
    fed,            \* bytes appended since the context was made ready
    ready,          \* the context may be appended to
    made            \* the last digest, with what it is the digest of

digestVars == <<hash, opad, key, fed, ready, made>>

NoKey == <<>>
NoDigest == [kind |-> "none"]
Byte(i) == <<"m", i>>
Zero == <<"zero">>
Mark == <<"0x80">>
Zeros(n) == [i \in 1..n |-> Zero]
Fed(from, n) == [i \in 1..n |-> Byte(from + i)]

\* memcpy into a buffer behind its first at bytes.
Blit(buf, at, data) ==
    [i \in DOMAIN buf |-> IF i \in (at + 1)..(at + Len(data)) THEN data[i - at] ELSE buf[i]]

Pieces(data) == Len(data) \div Block
Piece(data, i) == SubSeq(data, (i - 1) * Block + 1, i * Block)
Whole(data) == [i \in 1..Pieces(data) |-> Piece(data, i)]
Left(data) == SubSeq(data, Pieces(data) * Block + 1, Len(data))

-----------------------------------------------------------------------------
(* The three hashes.  iv: the state it started from; chain: the blocks that *)
(* went through the compression function; n: bytes in the block (SHA-1) or  *)
(* in all (MD4); lo and hi: the words that count (bytes in MD5, bits in     *)
(* SHA-1).                                                                  *)

\* md5_reset, md4_reset, sha1_reset.  MD4 leaves its block as it is.
Reset(h) == [h EXCEPT !.iv = "iv", !.chain = <<>>, !.n = 0, !.lo = 0, !.hi = 0,
                      !.buf = IF h.kind = "md4" THEN h.buf ELSE Zeros(Block)]
\* md5_init, md4_init, sha1_init
Started(kind) == Reset([kind |-> kind, iv |-> "iv", chain |-> <<>>, buf |-> Zeros(Block),
                        n |-> 0, lo |-> 0, hi |-> 0])
\* md5_process, md4_transform, sha1_hash_block
Process(h, blocks) == [h EXCEPT !.chain = @ \o blocks]

\* Mutant: a piece that just fills the block is kept instead of being processed.
Md5Append_Late(h, data) ==
    LET left == h.lo % Block
        fill == Block - left
        lo == (h.lo + Len(data)) % Word
        counted == [h EXCEPT !.lo = lo, !.hi = IF lo < Len(data) THEN (@ + 1) % Word ELSE @]
    IN IF left > 0 /\ Len(data) > fill
       THEN LET rest == SubSeq(data, fill + 1, Len(data))
            IN [Process(counted, <<Blit(h.buf, left, SubSeq(data, 1, fill))>> \o Whole(rest))
                    EXCEPT !.buf = Blit(Blit(h.buf, left, SubSeq(data, 1, fill)), 0, Left(rest))]
       ELSE [Process(counted, Whole(data)) EXCEPT !.buf =
                Blit(@, IF Pieces(data) > 0 THEN 0 ELSE left, Left(data))]

\* md5_append.  What does not fill a block stays in the buffer, behind what is
\* left of the bytes before.
Md5Append(h, data) ==
    LET left == h.lo % Block
        fill == Block - left
        lo == (h.lo + Len(data)) % Word
        counted == [h EXCEPT !.lo = lo, !.hi = IF lo < Len(data) THEN (@ + 1) % Word ELSE @]
    IN IF left > 0 /\ Len(data) >= fill
       THEN LET full == Blit(h.buf, left, SubSeq(data, 1, fill))
                rest == SubSeq(data, fill + 1, Len(data))
            IN [Process(counted, <<full>> \o Whole(rest)) EXCEPT !.buf = Blit(full, 0, Left(rest))]
       ELSE [Process(counted, Whole(data)) EXCEPT !.buf =
                Blit(@, left, Left(data))]

\* md4_append: the block is the buffer of every piece.
Md4Append(h, data) ==
    LET at == h.n % Block
        avail == Block - at
        counted == [h EXCEPT !.n = @ + Len(data)]
    IN IF avail > Len(data) THEN [counted EXCEPT !.buf = Blit(@, at, data)]
       ELSE LET full == Blit(h.buf, at, SubSeq(data, 1, avail))
                rest == SubSeq(data, avail + 1, Len(data))
                blocks == <<full>> \o Whole(rest)
            IN [Process(counted, blocks) EXCEPT !.buf = Blit(blocks[Len(blocks)], 0, Left(rest))]

\* One byte of sha1_append.
Sha1Byte(h, b) ==
    LET full == Blit(h.buf, h.n, <<b>>)
        lo == (h.lo + Bits) % Word
        counted == [h EXCEPT !.lo = lo, !.hi = IF lo < Bits THEN (@ + 1) % Word ELSE @]
    IN IF h.n + 1 = Block THEN [Process(counted, <<full>>) EXCEPT !.buf = full, !.n = 0]
       ELSE [counted EXCEPT !.buf = full, !.n = @ + 1]

\* sha1_append takes one byte after the other.
Sha1Append(h, data) ==
    LET upTo[k \in 0..Len(data)] == IF k = 0 THEN h ELSE Sha1Byte(upTo[k - 1], data[k])
    IN upTo[Len(data)]

AppendTo(h, data) == IF h.kind = "md5" THEN Md5Append(h, data)
                     ELSE IF h.kind = "md4" THEN Md4Append(h, data)
                     ELSE Sha1Append(h, data)

LowHigh(lo, hi) == << <<"lo", lo>>, <<"hi", hi>> >>
HighLow(lo, hi) == << <<"hi", hi>>, <<"lo", lo>> >>
Result(h) == [iv |-> h.iv, chain |-> h.chain]

\* md5_digest: pads up to the length words, in the next block when they do not fit.
Md5Digest(h) ==
    LET last == h.lo % Block
        room == Block - 2
        pad == IF last < room THEN room - last ELSE Block + room - last
        low == (h.lo * Bits) % Word
        high == ((h.lo * Bits) \div Word + h.hi * Bits) % Word
        done == Md5Append(Md5Append(h, <<Mark>> \o Zeros(pad - 1)), LowHigh(low, high))
    IN [digest |-> Result(done), context |-> done]

\* md4_digest, which clears the context.
Md4Digest(h) ==
    LET at == h.n % Block
        room == Block - 2
        marked == Blit(h.buf, at, <<Mark>>)
        fits == room >= at + 1
        first == Blit(marked, at + 1, Zeros(Block))
        last == Blit(IF fits THEN Blit(marked, at + 1, Zeros(room - (at + 1)))
                             ELSE Blit(first, 0, Zeros(room)),
                     room, LowHigh((h.n * Bits) % Word, (h.n * Bits) \div Word % Word))
    IN [digest |-> Result(Process(h, IF fits THEN <<last>> ELSE <<first, last>>)),
        context |-> [h EXCEPT !.iv = "zero", !.chain = <<>>, !.buf = Zeros(Block), !.n = 0]]

\* sha1_digest, which resets the context.
Sha1Digest(h) ==
    LET marked == Sha1Append(h, <<Mark>>)
        pad == (2 * Block - 2 - marked.n) % Block
        done == Sha1Append(Sha1Append(marked, Zeros(pad)), HighLow(h.lo, h.hi))
    IN [digest |-> Result(done), context |-> Reset(done)]

DigestOf(h) == IF h.kind = "md5" THEN Md5Digest(h)
               ELSE IF h.kind = "md4" THEN Md4Digest(h)
               ELSE Sha1Digest(h)

-----------------------------------------------------------------------------
(* HMAC *)

Kinds == {"md5", "md4", "sha1"}
KeyBytes(n) == [i \in 1..n |-> <<"k", i>>]
DigestBytes(d) == [i \in 1..DigestSize |-> <<"d", d, i>>]
Xored(pad, bytes) == [i \in DOMAIN bytes |-> <<pad, bytes[i]>>]
Filled(k) == k \o Zeros(Block - Len(k))

\* The key of hmac_set_key_with_len: hashed when it is longer than a block, then
\* filled up with zeros.
FullKey(h, k) ==
    IF Len(k) > Block THEN Filled(DigestBytes(DigestOf(AppendTo(Reset(h), k)).digest))
    ELSE Filled(k)

\* hmac_digest: the outer hash of the inner one.
HmacDigest(h, o) ==
    LET inner == DigestOf(h)
    IN DigestOf(AppendTo(AppendTo(Reset(inner.context), o), DigestBytes(inner.digest)))

-----------------------------------------------------------------------------
\* oul_cipher_context_new with its init, and for HMAC hmac_set_opt.
NewContext(kind) ==
    /\ made = NoDigest /\ fed = 0
    /\ hash' = Started(kind) /\ ready' = TRUE
    /\ opad' = NoKey /\ key' = NoKey
    /\ UNCHANGED <<fed, made>>

\* hmac_set_key_with_len
SetKey(n) ==
    /\ LET full == FullKey(hash, KeyBytes(n))
       IN /\ opad' = Xored("opad", full)
          /\ hash' = AppendTo(Reset(hash), Xored("ipad", full))
    /\ key' = KeyBytes(n) /\ fed' = 0 /\ ready' = TRUE
    /\ UNCHANGED made

\* oul_cipher_context_reset of a plain hash
ResetContext ==
    /\ key = NoKey
    /\ hash' = Reset(hash) /\ fed' = 0 /\ ready' = TRUE
    /\ UNCHANGED <<opad, key, made>>

\* oul_cipher_context_append with the next n bytes, hmac_append
AppendBytes(n) ==
    /\ ready /\ fed + n <= MaxBytes
    /\ hash' = AppendTo(hash, Fed(fed, n)) /\ fed' = fed + n
    /\ UNCHANGED <<opad, key, ready, made>>

\* oul_cipher_context_digest
Digest ==
    /\ ready
    /\ LET r == IF key = NoKey THEN DigestOf(hash) ELSE HmacDigest(hash, opad)
       IN /\ made' = [kind |-> hash.kind, digest |-> r.digest, key |-> key, length |-> fed]
          /\ hash' = r.context
    /\ ready' = (hash.kind = "sha1" /\ key = NoKey) /\ fed' = 0
    /\ UNCHANGED <<opad, key>>

DigestsInit ==
    /\ hash = Started("md5") /\ opad = NoKey /\ key = NoKey
    /\ fed = 0 /\ ready = TRUE /\ made = NoDigest

DigestsNext ==
    \/ \E k \in Kinds : NewContext(k)
    \/ \E n \in KeyLens : SetKey(n)
    \/ \E n \in 0..Word : AppendBytes(n)
    \/ ResetContext \/ Digest

DigestsSpec == DigestsInit /\ [][DigestsNext]_digestVars

-----------------------------------------------------------------------------
\* The digest of a whole message: padded with a mark, zeros and its length in
\* bits, in one go.
Reference(kind, msg) ==
    LET bits == Bits * Len(msg)
        zeros == (2 * Block - 3 - (Len(msg) % Block)) % Block
        words == IF kind = "sha1" THEN HighLow(bits % Word, (bits \div Word) % Word)
                                  ELSE LowHigh(bits % Word, (bits \div Word) % Word)
    IN [iv |-> "iv", chain |-> Whole(msg \o <<Mark>> \o Zeros(zeros) \o words)]

\* RFC 2104 over that digest.
ReferenceHmac(kind, k, msg) ==
    LET full == Filled(IF Len(k) > Block THEN DigestBytes(Reference(kind, k)) ELSE k)
    IN Reference(kind, Xored("opad", full) \o
            DigestBytes(Reference(kind, Xored("ipad", full) \o msg)))

(* A digest is that of the whole message whatever the pieces it came in, the *)
(* messages before it and the place where the block, the padding and the      *)
(* length words end (md5_append, md4_append, sha1_append and the digests).    *)
DigestOfMessage ==
    made # NoDigest /\ made.key = NoKey =>
        made.digest = Reference(made.kind, Fed(0, made.length))

(* The same for HMAC, with keys shorter than, as long as and longer than a   *)
(* block (hmac_set_key_with_len, hmac_digest).                                *)
HmacOfMessage ==
    made # NoDigest /\ made.key # NoKey =>
        made.digest = ReferenceHmac(made.kind, made.key, Fed(0, made.length))

\* Plain and keyed digests are those of the whole message.
DigestsAreRight == DigestOfMessage /\ HmacOfMessage
=============================================================================
