-------------------------- MODULE MCResidentPlacer --------------------------
(* A small machine: one row of storage below two rows of seats, the upper  *)
(* seats straight above the lower ones, so that a leg to the upper row     *)
(* sweeps over a resident of the lower one.                                *)
EXTENDS ResidentPlacer

MCStorage == {"s0", "s1", "s2", "s3"}
MCSeats == {"l1", "r1", "l2", "r2"}
MCPairs == {<<"l1", "r1">>, <<"l2", "r2">>}
MCColOf == [s \in MCStorage \cup MCSeats |->
              CASE s \in {"s0", "l1", "r1", "l2", "r2"} -> 0
                [] s = "s1" -> 1 [] s = "s2" -> 2 [] s = "s3" -> 3]
MCXOf == [s \in MCStorage \cup MCSeats |->
            CASE s \in {"s0", "l1", "l2"} -> 0 [] s \in {"s1", "r1", "r2"} -> 1
              [] s = "s2" -> 2 [] s = "s3" -> 3]
MCYOf == [s \in MCStorage \cup MCSeats |->
            CASE s \in MCStorage -> 0 [] s \in {"l1", "r1"} -> 2
              [] s \in {"l2", "r2"} -> 5]
MCHomes == [q \in 0..3 |-> CASE q = 0 -> "s0" [] q = 1 -> "s1" [] q = 2 -> "s2" [] q = 3 -> "s3"]

\* Three atoms in turns, with one that has no gate; two gates at once, then
\* one atom of each pair with one of the other; a pair that waits for another.
Turns == << <<<<0, 1>>>>, <<<<1, 2>>>>, <<<<0, 2>>>> >>
Crossed == << <<<<0, 1>>, <<2, 3>>>>, <<<<0, 2>>>>, <<<<1, 3>>>> >>
Apart == << <<<<0, 1>>>>, <<<<2, 3>>>>, <<<<0, 1>>>> >>
MCPrograms == {Turns, Crossed, Apart}
=============================================================================
