--------------------------- MODULE ConnectPromise ---------------------------
(***************************************************************************)
(* What proxy.h promises the originator of a connection attempt, without   *)
(* addresses, proxies or sockets: an attempt that was not refused is told  *)
(* one outcome, or cancelled before it is told, and nothing comes after.   *)
(***************************************************************************)
CONSTANT Attempts
VARIABLE outcome

Outcomes == {"idle", "refused", "pending", "connected", "failed", "cancelled"}

Init == outcome = [c \in Attempts |-> "idle"]

Answer(c) ==
    /\ outcome[c] = "idle"
    /\ \E o \in {"pending", "refused"} : outcome' = [outcome EXCEPT ![c] = o]

Tell(c) ==
    /\ outcome[c] = "pending"
    /\ \E o \in {"connected", "failed"} : outcome' = [outcome EXCEPT ![c] = o]

\* One call may cancel several attempts, never one that was told.
Cancel(S) ==
    /\ \A c \in S : outcome[c] = "pending"
    /\ outcome' = [c \in Attempts |-> IF c \in S THEN "cancelled" ELSE outcome[c]]

Next ==
    \/ \E c \in Attempts : Answer(c) \/ Tell(c)
    \/ \E S \in SUBSET Attempts : Cancel(S)

Spec == Init /\ [][Next]_outcome
=============================================================================
