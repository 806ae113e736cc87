--------------------------- MODULE MCGatewayLease ---------------------------
(* The symmetry of the TLC runs of GatewayLease; the sets are model values *)
(* given in the configurations.                                            *)
EXTENDS GatewayLease, TLC

Symmetry == Permutations(Models) \cup Permutations(Requests)
            \cup Permutations(Instances)
=============================================================================
