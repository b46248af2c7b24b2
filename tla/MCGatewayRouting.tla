--------------------------- MODULE MCGatewayRouting ---------------------------
(* An instance of the routing of payments for TLC. *)
EXTENDS GatewayRouting, TLC

CONSTANTS g1, g2, r1, r2, r3, f1, f2, a1

Costs   == [g \in {g1, g2} |-> IF g = g1 THEN 2 ELSE 3]
Weights == {defaultWeights, [defaultWeights EXCEPT !.success = 20, !.latency = 35]}

(* Requests, and flushes, are interchangeable. *)
Interchangeable == Permutations(Request) \cup Permutations(Flush)
==============================================================================
