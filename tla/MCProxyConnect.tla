--------------------------- MODULE MCProxyConnect ---------------------------
(* Instances of ProxyConnect: the attempts are interchangeable.            *)
EXTENDS ProxyConnect, TLC

AttemptSymmetry == Permutations(Attempts)
=============================================================================
