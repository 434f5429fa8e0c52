---------------------------- MODULE MCTraceReplay ----------------------------
(* A line of places: a leg sweeps every place from its first, not counted, *)
(* to its last, and legs ride together when they keep their order.         *)
EXTENDS TraceReplay

MCHomes == [q \in 1..3 |-> q]
MCHits(legs, p) == \E l \in legs : (l[1] < p /\ p <= l[2]) \/ (l[2] <= p /\ p < l[1])
MCCompatible(a, b) == (a[1] < b[1] /\ a[2] < b[2]) \/ (a[1] > b[1] /\ a[2] > b[2])
MCPulses == {[pairs |-> {{1, 2}}, region |-> {1, 2, 3}]}
==============================================================================
