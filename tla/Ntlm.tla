-------------------------------- MODULE Ntlm --------------------------------
(***************************************************************************)
(* The messages of NTLM authentication: liboul/ntlm.c.  A message is a     *)
(* header, which announces the offset and the length of every field, and   *)
(* the fields written one behind the other.                                *)
(*                                                                         *)
(* Strings are ASCII, as the lengths of the code take them to be.  The     *)
(* header counts Header bytes, a byte of a field is its field and place,   *)
(* and a DES key is the seven bytes it is spread from.                     *)
(***************************************************************************)
EXTENDS Naturals, SequencesExt

CONSTANTS
    Header,         \* sizeof(struct type3_message)
    Lens,           \* lengths of names
    PasswordLens,   \* lengths of passwords
    Nonce           \* nonces servers send

ASSUME NtlmAssumption ==
    Header \in Nat /\ Lens \subseteq Nat /\ PasswordLens \subseteq Nat

VARIABLES
    nonce,          \* the static nonce of oul_ntlm_parse_type2
    sent            \* the last message made, with what it was made from

ntlmVars == <<nonce, sent>>

NoNonce == "none"
NoMessage == [type |-> 0]
Key == 7            \* bytes a DES key is made from
Response == 24      \* 0x18
Session == 16       \* 0x10
LmPassword == 14    \* what LanManager takes of a password

Padding == <<"zero">>
Unwritten == <<"unwritten">>
Chars(field, n) == [i \in 1..n |-> <<field, i>>]
Wide(field, n) == Chars(field, 2 * n)
Padded(bytes, n) == [i \in 1..n |-> IF i <= Len(bytes) THEN bytes[i] ELSE Padding]
Slice(bytes, i) == SubSeq(bytes, (i - 1) * Key + 1, i * Key)

\* des_ecb_encrypt with the key of setup_des_key: eight bytes.
DesOf(key, text) == [i \in 1..8 |-> <<"des", key, text, i>>]
\* calc_resp: three keys from 21 bytes.
CalcResp(keys, text) == DesOf(Slice(keys, 1), text) \o DesOf(Slice(keys, 2), text) \o DesOf(Slice(keys, 3), text)

\* lm_hpw: the first 14 characters in upper case, as two keys.
LmHash(n) ==
    LET pw == Padded(Chars("upper", IF n > LmPassword THEN LmPassword ELSE n), LmPassword)
    IN Padded(DesOf(Slice(pw, 1), "magic") \o DesOf(Slice(pw, 2), "magic"), 3 * Key)
\* nt_hpw: MD4 of the password, all n characters of it.
NtHash(n) == Padded([i \in 1..16 |-> <<"md4", n, i>>], 3 * Key)

\* memcpy into the message behind its first at bytes.
Copied(body, at, bytes) ==
    [i \in DOMAIN body |-> IF i \in (at + 1)..(at + Len(bytes)) THEN bytes[i - at] ELSE body[i]]

\* Mutant: the next field begins in the last byte of the one before.
FieldWritten_Overlaps(acc, f) ==
    IF f.converts THEN [body |-> Copied(acc.body, acc.at, f.bytes), at |-> acc.at + Len(f.bytes) - 1]
    ELSE acc

\* One field of gen_type3 goes behind the one before; one that cannot be converted is
\* left out and its place is not.
FieldWritten(acc, f) ==
    IF f.converts THEN [body |-> Copied(acc.body, acc.at, f.bytes), at |-> acc.at + Len(f.bytes)]
    ELSE acc

\* The fields one after the other.
FieldsWritten(body, fields) ==
    LET upTo[k \in 0..Len(fields)] == IF k = 0 THEN [body |-> body, at |-> 0]
                                      ELSE FieldWritten(upTo[k - 1], fields[k])
    IN upTo[Len(fields)].body

Announced(off, n) == [off |-> off, len |-> n]

\* oul_ntlm_gen_type1
Type1(host, domain) ==
    [type |-> 1,
     fields |-> [host |-> Announced(Header, host), domain |-> Announced(Header + host, domain)],
     body |-> Chars("host", host) \o Chars("domain", domain)]

\* oul_ntlm_gen_type3: domain, user and host have lengths; bad are those that cannot
\* be converted; lcs: the caller passes flags and gets a session key.  The message is kept
\* with what it was made from.
Type3(domain, user, host, password, server_nonce, lcs, bad) ==
    LET d == 2 * domain  u == 2 * user  h == 2 * host
        tail == Header + d + u + h
        size == d + u + h + 2 * Response + (IF lcs THEN Session ELSE 0)
        field(name, bytes) == [bytes |-> bytes, converts |-> name \notin bad]
        fields == <<field("domain", Wide("domain", domain)), field("user", Wide("user", user)),
                    field("host", Wide("host", host)),
                    field("lm", CalcResp(LmHash(password), server_nonce)),
                    field("nt", CalcResp(NtHash(password), server_nonce))>>
                  \o (IF lcs THEN <<field("session", Chars("rand", Session))>> ELSE <<>>)
        empty == [i \in 1..size |-> Unwritten]
    IN [type |-> 3,
        fields |-> [domain |-> Announced(Header, d), user |-> Announced(Header + d, u),
                    host |-> Announced(Header + d + u, h),
                    lm |-> Announced(tail, Response), nt |-> Announced(tail + Response, Response),
                    session |-> IF lcs THEN Announced(tail + 2 * Response, Session)
                                       ELSE Announced(0, 0)],
        body |-> FieldsWritten(empty, fields),
        from |-> [domain |-> Wide("domain", domain), user |-> Wide("user", user), host |-> Wide("host", host)],
        password |-> password, nonce |-> server_nonce, bad |-> bad]

\* The first message of an exchange.
Offer(host, domain) == sent.type # 1 /\ sent' = Type1(host, domain) /\ UNCHANGED nonce

\* oul_ntlm_parse_type2
ParseType2(n) == nonce' = n /\ UNCHANGED sent

\* The answer to a challenge.
AnswerChallenge(domain, user, host, password, lcs, bad) ==
    /\ nonce # NoNonce /\ sent.type = 1
    /\ sent' = Type3(domain, user, host, password, nonce, lcs, bad)
    /\ UNCHANGED nonce

NtlmInit == nonce = NoNonce /\ sent = NoMessage

NtlmNext ==
    \/ \E host, domain \in Lens : Offer(host, domain)
    \/ \E n \in Nonce : ParseType2(n)
    \/ \E domain, user, host \in Lens, password \in PasswordLens, lcs \in BOOLEAN,
          bad \in {{}, {"domain"}, {"user"}} :
            AnswerChallenge(domain, user, host, password, lcs, bad)

NtlmSpec == NtlmInit /\ [][NtlmNext]_ntlmVars

-----------------------------------------------------------------------------
FieldOf(m, f) == SubSeq(m.body, m.fields[f].off - Header + 1,
                         m.fields[f].off - Header + m.fields[f].len)
Announces(m) ==
    /\ \A i \in DOMAIN m.body : m.body[i] # Unwritten
    /\ \A f \in {"domain", "user", "host"} : FieldOf(m, f) = m.from[f]
    /\ \A f \in {"lm", "nt"} : \A i \in 1..Response : FieldOf(m, f)[i][3] = m.nonce
    /\ {FieldOf(m, "lm")[i][2] : i \in 1..Response} = {Slice(LmHash(m.password), k) : k \in 1..3}
    /\ {FieldOf(m, "nt")[i][2] : i \in 1..Response} = {Slice(NtHash(m.password), k) : k \in 1..3}

(* In an answer all of whose names could be converted every field stands at  *)
(* the offset the header announces and they fill the message (ntlm.c:266);    *)
(* the responses are to the nonce of the last challenge, and the password     *)
(* goes into them in three keys whatever its length.                          *)
FieldsAreWhereAnnounced == sent.type = 3 /\ sent.bad = {} => Announces(sent)
=============================================================================
