---------------------------- MODULE MCHttpFetch ----------------------------
(* Instances of HttpFetch: servers small enough for every way to cut their *)
(* answers into reads.                                                     *)
EXTENDS HttpFetch

\* With and without an announced length, true or not, redirecting or not.
Servers ==
    { [hdr |-> h, body |-> b, announced |-> a, redirect |-> d, closes |-> TRUE] :
        h \in {2, 3}, b \in {0, 1, 4, 6}, a \in {0, 1, 4, 20}, d \in BOOLEAN }

PlainServers ==
    { s \in Servers : ~s.redirect /\ s.announced \in {0, 4} }
=============================================================================
