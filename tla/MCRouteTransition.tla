-------------------------- MODULE MCRouteTransition ---------------------------
(* Toy architectures and programs.  The seats are two pairs one above the  *)
(* other, the storage sites stand in two rows whose columns line up with   *)
(* the seats: jobs of one and of two rows, with and without a shared       *)
(* column, all occur.                                                      *)
EXTENDS RouteTransition

MCStorage == {"s0", "s1", "s2"}
MCSeats   == {"l1", "r1", "l2", "r2"}
MCPairs   == {<<"l1", "r1">>, <<"l2", "r2">>}

OneSeats  == {"l1", "r1"}
OnePair   == {<<"l1", "r1">>}

MCRowOf == [s \in {"s0", "s1", "s2", "s3"} \cup MCSeats |->
              CASE s \in {"s0", "s1"} -> 0 [] s \in {"s2", "s3"} -> 1
                [] s \in {"l1", "r1"} -> 2 [] s \in {"l2", "r2"} -> 3]
MCColOf == [s \in DOMAIN MCRowOf |-> IF s \in {"s0", "s2", "l1", "l2"} THEN 0 ELSE 1]

MCInitial == [q \in {0, 1, 2} |-> CASE q = 0 -> "s0" [] q = 1 -> "s1" [] q = 2 -> "s2"]

NoBlock    == {<<>>}
LeadBlock  == {<<0>>}

(* A gate with a block that names an atom twice, then one of its atoms with *)
(* a third while the other stays idle, then the idle one again.            *)
MCProgram == <<{[gates |-> <<<<0, 1>>>>, block |-> <<0, 0>>]},
               {[gates |-> <<<<1, 2>>>>, block |-> <<2>>]},
               {[gates |-> <<<<2, 0>>>>, block |-> <<>>]}>>

(* The atoms of the pair exchange their seats between the layers.          *)
TwoStorage  == {"s0", "s1"}
TwoInitial  == [q \in {0, 1} |-> IF q = 0 THEN "s0" ELSE "s1"]
SwapProgram == <<{[gates |-> <<<<0, 1>>>>, block |-> <<0, 0>>]},
                 {[gates |-> <<<<1, 0>>>>, block |-> <<1>>]}>>

(* Atom 0 may also be given another seat while it is idle in the zone.     *)
MCHomes == [q \in {0, 1, 2} |-> CASE q = 0 -> {"s0", "l2"} [] q = 1 -> {"s1"}
                                   [] q = 2 -> {}]
TwoHomes == [q \in {0, 1} |-> TwoStorage]

(* Two pairs are entangled, then the first of them again: nobody has to    *)
(* move in for the second layer.                                           *)
FourStorage   == {"s0", "s1", "s2", "s3"}
FourInitial   == [q \in {0, 1, 2, 3} |-> CASE q = 0 -> "s0" [] q = 1 -> "s1"
                                            [] q = 2 -> "s2" [] q = 3 -> "s3"]
SecondPairHomes == [q \in {0, 1, 2, 3} |-> IF q \in {2, 3} THEN {FourInitial[q]} ELSE {}]
RepeatProgram == <<{[gates |-> <<<<0, 1>>, <<2, 3>>>>, block |-> <<0>>]},
                   {[gates |-> <<<<0, 1>>>>, block |-> <<>>]}>>

(* A gate, then one of the same atoms on exchanged seats, or with a third  *)
(* atom on the only pair.                                                  *)
NextHomes == [q \in {0, 1, 2} |-> CASE q = 0 -> {"s0", "s1"} [] q = 1 -> {"s1"}
                                     [] q = 2 -> {}]
NextProgram == <<{[gates |-> <<<<0, 1>>>>, block |-> <<0, 0>>]},
                 {[gates |-> <<<<1, 0>>>>, block |-> <<>>],
                  [gates |-> <<<<1, 2>>>>, block |-> <<2>>]}>>
================================================================================
