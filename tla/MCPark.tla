------------------------------- MODULE MCPark -------------------------------
(* Values of the constants of Park for TLC: two targets that share their   *)
(* weights, hence their parked name, and a second digest a pull can bring. *)
EXTENDS Park, TLC

CONSTANTS m1, m2, d1, d2, a1, a2

TwoTargets == <<m1, m2>>
TwoDigests == {d1, d2}
OwnAliases == (d1 :> a1) @@ (d2 :> a2)
Shared == (m1 :> d1) @@ (m2 :> d1)
Distinct == (m1 :> d1) @@ (m2 :> d2)
=============================================================================
