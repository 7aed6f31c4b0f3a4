-------------------------- MODULE MCPublicAddress --------------------------
(* Instances of PublicAddress for TLC. *)
EXTENDS PublicAddress
=============================================================================
