---------------------------- MODULE CipherSuite ----------------------------
(***************************************************************************)
(* Digests, block ciphers and the NTLM messages of liboul together.  They  *)
(* share no state: what is said of one context holds whatever the others   *)
(* do.                                                                     *)
(***************************************************************************)
EXTENDS Digests, Encryption, Ntlm

\* What is hashed, encrypted or sent to authenticate is what the other side computes: a
\* digest does not depend on how its data arrives (cipher.c), decryption gives the plain
\* text back, and the fields of a message of NTLM are where it says they are (ntlm.c).
CiphersAreRight == DigestsAreRight /\ PlainComesBack /\ FieldsAreWhereAnnounced
=============================================================================
