----------------------------- MODULE MCNotices -----------------------------
(* Instances of Notices for TLC. *)
EXTENDS Notices

\* Popups that are higher than wide, so that turning the stack moves them all.
Tall == {<<2, 5>>}
=============================================================================
