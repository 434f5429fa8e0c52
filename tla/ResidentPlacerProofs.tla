------------------------- MODULE ResidentPlacerProofs -------------------------
(***************************************************************************)
(* Proofs about the resident placer, for every circuit, every geometry and *)
(* every set of sites: the registry is a partition of the atoms and, for   *)
(* the engines that keep it in step, follows the stream; no mapping of the *)
(* stream puts two atoms on one site; the legs that the ghost repair found *)
(* clean are the legs between the mappings of the stream; the rent counts  *)
(* idle pulses; the audited scheduler's audit never refuses a run; and the *)
(* capacity valve keeps room for the next gates.                           *)
(***************************************************************************)
EXTENDS ResidentPlacer, FiniteSetTheorems, TLAPS

(* Where everybody is before, between and after the two phases of a round. *)
At0 == [q \in Atoms |-> Pos(q)]
At1 == [q \in Atoms |-> T1(q)]
At2 == [q \in Atoms |-> T2(q)]

RegistryInv ==
  /\ program \in Programs /\ layer \in Int /\ layer >= -1 /\ layer < Rounds
  /\ zoneSeat \in [Atoms -> Seats \cup {Nowhere}]
  /\ storageSite \in [Atoms -> Storage \cup {Nowhere}]
  /\ LedgerIsPartition

StreamInv ==
  /\ mapping \in Seq([Atoms -> Sites]) /\ mapping # <<>>
  /\ layer = -1 /\ pc \notin {"done", "failed"} => Len(mapping) = 1

(* A decision names a site of the kind it is about; only a resident stays   *)
(* or is given another seat.                                                *)
DecisionOK(q, d) ==
  /\ d \in [kind : Kinds, loc : Sites \cup {Nowhere}]
  /\ d.kind \in {"RETURN", "PARK"} => d.loc \in Storage
  /\ d.kind = "RESEAT" => d.loc \in Seats /\ zoneSeat[q] # Nowhere
  /\ d.kind = "STAY" => d.loc = zoneSeat[q] /\ zoneSeat[q] # Nowhere

Deciding == pc \in {"repair", "commit"}

PlanInv ==
  /\ decision \in [Atoms -> [kind : Kinds, loc : Sites \cup {Nowhere}]]
  /\ Deciding => \A q \in Atoms : DecisionOK(q, decision[q])
  /\ pc \in {"decide", "repair", "commit"} =>
       seat \in [Atoms -> Seats \cup {Nowhere}] /\ \A q \in Players : seat[q] \in Seats

(* The registry is at the end of the stream; at the terminal boundary, where*)
(* it has moved first, it is where the decisions lead.                      *)
SyncInv ==
  /\ Injective(At0)
  /\ pc \in {"plan", "done"} => At0 = LastOf(mapping)
  /\ Deciding /\ layer + 1 < Rounds => At0 = LastOf(mapping)
  /\ Deciding /\ layer + 1 = Rounds =>
       /\ todo = {}
       /\ \A q \in Atoms : IF q \in Movers THEN decision[q].loc = Pos(q)
                           ELSE Pos(q) = LastOf(mapping)[q]
  /\ pc # "decide"

(* What is committed has been found clean by the repair or is the solver's. *)
CommitInv ==
  /\ pc = "commit" => Injective(At1) /\ Injective(At2)
  /\ pc = "commit" /\ ~native => CleanPhase(At0, At1) /\ CleanPhase(At1, At2)

IInv ==
  /\ RegistryInv /\ StreamInv /\ PlanInv
  /\ engine # "match" => SyncInv /\ CommitInv /\ EveryMappingInjective
  /\ ExecutedLegsClean

-----------------------------------------------------------------------------
(* Geometry: a leg sweeps over the place where it ends.                     *)
LEMMA ArrivalSweeps ==
  ASSUME NEW a \in Sites, NEW b \in Sites, a # b
  PROVE  Hits(a, b, b)
<1>1. XOf[a] \in Int /\ XOf[b] \in Int /\ YOf[a] \in Int /\ YOf[b] \in Int
  BY PlacerAssumption
<1>2. ASSUME NEW m \in Int, NEW n \in Int PROVE Between(m, n, n)
  BY DEF Between
<1>3. ASSUME NEW m \in Int, NEW n \in Int PROVE m * n = n * m
  OBVIOUS
<1>4. SameTime(XOf[a], XOf[b], XOf[b], YOf[a], YOf[b], YOf[b])
  <2>1. XOf[b] - XOf[a] \in Int /\ YOf[b] - YOf[a] \in Int  BY <1>1
  <2> QED BY <1>3, <2>1 DEF SameTime
<1>5. Sweeps({<<a, b>>}, b)  BY <1>1, <1>2, <1>4 DEF Sweeps
<1> QED BY <1>5 DEF Hits

(* So atoms that are apart before a clean phase are apart after it.         *)
LEMMA CleanKeepsApart ==
  ASSUME NEW before \in [Atoms -> Sites], NEW after \in [Atoms -> Sites],
         Injective(before), CleanPhase(before, after)
  PROVE  Injective(after)
<1> SUFFICES ASSUME NEW q \in Atoms, NEW a \in Atoms, after[q] = after[a], q # a
             PROVE  FALSE
  BY DEF Injective
<1>1. CASE before[q] # after[q]
  <2>1. Hits(before[q], after[q], after[q])  BY <1>1, ArrivalSweeps
  <2> QED BY <2>1 DEF CleanPhase
<1>2. CASE before[a] # after[a]
  <2>1. Hits(before[a], after[a], after[a])  BY <1>2, ArrivalSweeps
  <2> QED BY <2>1 DEF CleanPhase
<1>3. CASE before[q] = after[q] /\ before[a] = after[a]
  BY <1>3 DEF Injective
<1> QED BY <1>1, <1>2, <1>3

LEMMA PlayersAreAtoms ==
  ASSUME program \in Programs, layer \in Int
  PROVE  /\ \A i \in DOMAIN Target : Target[i] \in Atoms \X Atoms
         /\ Players \subseteq Atoms
         /\ \A q \in Players : \E i \in DOMAIN Target : q \in SeatsOf(Target[i])
         /\ \A i \in DOMAIN Target : SeatsOf(Target[i]) \subseteq Players
<1>1. program \in Seq(Seq(Atoms \X Atoms))  BY PlacerAssumption
<1>2. Target \in Seq(Atoms \X Atoms)
  BY <1>1 DEF Target, Gates, Rounds
<1>3. \A i \in DOMAIN Target : Target[i] \in Atoms \X Atoms  BY <1>2
<1>4. Players = UNION {SeatsOf(Target[i]) : i \in DOMAIN Target}
  BY DEF Players, Participants, Target, SeatsOf
<1> QED BY <1>3, <1>4 DEF SeatsOf

(* Everybody is somewhere.                                                  *)
LEMMA PositionsAreSites ==
  ASSUME RegistryInv
  PROVE  \A q \in Atoms : Pos(q) \in Sites
BY PlacerAssumption DEF RegistryInv, LedgerIsPartition, Pos, Sites

LEMMA PhasesAreSites ==
  ASSUME RegistryInv, PlanInv, Deciding
  PROVE  At0 \in [Atoms -> Sites] /\ At1 \in [Atoms -> Sites] /\ At2 \in [Atoms -> Sites]
<1>1. At0 \in [Atoms -> Sites]  BY PositionsAreSites DEF At0
<1>2. ASSUME NEW q \in Atoms PROVE T1(q) \in Sites
  <2>1. DecisionOK(q, decision[q])  BY DEF PlanInv
  <2>2. zoneSeat[q] # Nowhere => zoneSeat[q] \in Sites
    BY DEF RegistryInv, Sites
  <2>3. decision[q].kind \in Kinds  BY <2>1 DEF DecisionOK
  <2> QED BY <2>1, <2>2, <2>3, PositionsAreSites DEF DecisionOK, T1, Kinds, Moving, Sites
<1>3. ASSUME NEW q \in Atoms PROVE T2(q) \in Sites
  BY <1>2 DEF T2, PlanInv, Sites, Deciding
<1> QED BY <1>1, <1>2, <1>3 DEF At1, At2

(* When no leg is an issue both phases are clean.                           *)
LEMMA NoIssuesClean ==
  ASSUME RegistryInv, PlanInv, Deciding, Issues = {}
  PROVE  CleanPhase(At0, At1) /\ CleanPhase(At1, At2)
<1>1. ASSUME NEW q \in Atoms, NEW a \in Atoms, q # a
      PROVE  ~Hits(Pos(q), T1(q), Pos(a)) /\ ~Hits(Pos(q), T1(q), T1(a))
  <2>0. DecisionOK(q, decision[q])  BY DEF PlanInv
  <2>1. CASE q \in Movers
    <3>1. T1(q) = decision[q].loc  BY <2>1 DEF T1, Movers, Moving
    <3>2. <<"back", q, a>> \notin Issues  OBVIOUS
    <3>3. <<"back", q, a>> \in {"back"} \X Movers \X Atoms  BY <2>1
    <3> QED BY <1>1, <3>1, <3>2, <3>3 DEF Issues
  <2>2. CASE q \notin Movers
    <3>1. T1(q) = Pos(q)
      BY <2>0, <2>2 DEF T1, Pos, Movers, DecisionOK, Kinds
    <3> QED BY <3>1 DEF Hits
  <2> QED BY <2>1, <2>2
<1>2. ASSUME NEW q \in Atoms, NEW a \in Atoms, q # a
      PROVE  ~Hits(T1(q), T2(q), T1(a)) /\ ~Hits(T1(q), T2(q), T2(a))
  <2>1. CASE q \in Players
    <3>1. T2(q) = seat[q]  BY <2>1 DEF T2
    <3>2. <<"out", q, a>> \notin Issues  OBVIOUS
    <3>3. <<"out", q, a>> \in {"out"} \X Players \X Atoms  BY <2>1
    <3> QED BY <1>2, <3>1, <3>2, <3>3 DEF Issues
  <2>2. CASE q \notin Players
    BY <2>2 DEF T2, Hits
  <2> QED BY <2>1, <2>2
<1> QED BY <1>1, <1>2 DEF CleanPhase, At0, At1, At2

-----------------------------------------------------------------------------
(* What the actions choose from.                                            *)
LEMMA OrientedSeats ==
  ASSUME RegistryInv, NEW i \in DOMAIN Target, NEW p \in Pairs
  PROVE  \A k \in 1..2 : Oriented(Target[i], p)[k] \in Seats
<1>1. p \in Seats \X Seats  BY PlacerAssumption
<1> QED BY <1>1 DEF Oriented

LEMMA PlacementSeats ==
  ASSUME RegistryInv, NEW m \in Matchings
  PROVE  /\ Placement(m) \in [Atoms -> Seats \cup {Nowhere}]
         /\ \A q \in Players : Placement(m)[q] \in Seats
<1>1. ASSUME NEW q \in Players PROVE Placement(m)[q] \in Seats
  <2>1. PICK i \in DOMAIN Target : i = CHOOSE k \in DOMAIN Target : q \in SeatsOf(Target[k])
    BY PlayersAreAtoms DEF RegistryInv
  <2>2. q \in Atoms  BY PlayersAreAtoms DEF RegistryInv
  <2>3. m[i] \in Pairs  BY DEF Matchings
  <2>4. /\ Oriented(Target[i], m[i])[1] \in Seats
        /\ Oriented(Target[i], m[i])[2] \in Seats
    BY <2>3, OrientedSeats
  <2>5. Placement(m)[q] = IF q = Target[i][1] THEN Oriented(Target[i], m[i])[1]
                          ELSE Oriented(Target[i], m[i])[2]
    BY <2>1, <2>2 DEF Placement
  <2> QED BY <2>4, <2>5
<1>2. \A q \in Atoms : q \notin Players => Placement(m)[q] = Nowhere  BY DEF Placement
<1>3. DOMAIN Placement(m) = Atoms  BY DEF Placement
<1>4. Placement(m) = [q \in Atoms |-> Placement(m)[q]]  BY DEF Placement
<1> QED BY <1>1, <1>2, <1>4

(* Returners are residents, or none of the registry's concern; they are     *)
(* given free sites, no two the same.                                       *)
LEMMA ReturnAllKeeps ==
  ASSUME RegistryInv, Injective(At0), NEW R \in SUBSET Residents,
         NEW sites \in ReturnSites(R), ReturnAll(sites)
  PROVE  /\ Injective(At0')
         /\ \A q \in Atoms : Pos(q)' = IF q \in R THEN sites[q] ELSE Pos(q)
<1>1. sites \in [R -> Storage \ OccupiedStorage] /\ Injective(sites) /\ DOMAIN sites = R
  BY DEF ReturnSites
<1>2. \A q \in R : sites[q] \in Storage /\ sites[q] # Nowhere
        /\ \A p \in Atoms : sites[q] # storageSite[p]
  BY <1>1, PlacerAssumption DEF OccupiedStorage, Sites
<1>3. \A q \in Atoms : Pos(q)' = IF q \in R THEN sites[q] ELSE Pos(q)
  BY <1>1, <1>2 DEF ReturnAll, Pos
<1>4. \A q \in R, p \in Atoms : sites[q] # Pos(p)
  <2> TAKE q \in R, p \in Atoms
  <2>1. sites[q] \in Storage /\ sites[q] # storageSite[p]  BY <1>2
  <2>2. zoneSeat[p] # Nowhere => zoneSeat[p] \in Seats  BY DEF RegistryInv
  <2>3. Storage \cap Seats = {}  BY PlacerAssumption
  <2> QED BY <2>1, <2>2, <2>3 DEF Pos
<1>5. Injective(At0')
  <2> SUFFICES ASSUME NEW x \in Atoms, NEW y \in Atoms, At0'[x] = At0'[y] PROVE x = y
    BY DEF Injective, At0
  <2>1. Pos(x)' = Pos(y)'  BY DEF At0
  <2>2. CASE x \in R /\ y \in R  BY <1>1, <1>3, <2>1, <2>2 DEF Injective
  <2>3. CASE x \in R /\ y \notin R  BY <1>3, <1>4, <2>1, <2>3
  <2>4. CASE x \notin R /\ y \in R  BY <1>3, <1>4, <2>1, <2>4
  <2>5. CASE x \notin R /\ y \notin R
    <3>1. Pos(x) = Pos(y)  BY <1>3, <2>1, <2>5
    <3> QED BY <3>1 DEF Injective, At0
  <2> QED BY <2>2, <2>3, <2>4, <2>5
<1> QED BY <1>3, <1>5

LEMMA ReturnAllRegistry ==
  ASSUME RegistryInv, NEW R \in SUBSET Residents, NEW sites \in ReturnSites(R),
         ReturnAll(sites), UNCHANGED <<program, layer>>
  PROVE  /\ RegistryInv'
         /\ \A q \in Atoms : zoneSeat'[q] = IF q \in R THEN Nowhere ELSE zoneSeat[q]
<1>1. sites \in [R -> Storage \ OccupiedStorage] /\ DOMAIN sites = R
  BY DEF ReturnSites
<1>2. \A q \in R : sites[q] \in Storage /\ sites[q] # Nowhere
  BY <1>1, PlacerAssumption DEF Sites
<1>3. zoneSeat' \in [Atoms -> Seats \cup {Nowhere}]
      /\ storageSite' \in [Atoms -> Storage \cup {Nowhere}]
  BY <1>1, <1>2 DEF ReturnAll, RegistryInv
<1>4. LedgerIsPartition'
  BY <1>1, <1>2 DEF ReturnAll, RegistryInv, LedgerIsPartition
<1> QED BY <1>1, <1>3, <1>4 DEF RegistryInv, ReturnAll, Rounds

LEMMA DecisionKinds ==
  ASSUME NEW q \in Atoms
  PROVE  /\ DecisionOK(q, [kind |-> "none", loc |-> Nowhere])
         /\ \A s \in Storage : /\ DecisionOK(q, [kind |-> "RETURN", loc |-> s])
                              /\ DecisionOK(q, [kind |-> "PARK", loc |-> s])
         /\ zoneSeat[q] # Nowhere =>
              /\ \A s \in Seats : DecisionOK(q, [kind |-> "RESEAT", loc |-> s])
              /\ zoneSeat[q] \in Seats => DecisionOK(q, [kind |-> "STAY", loc |-> zoneSeat[q]])
<1>1. Kinds = {"none", "STAY", "RETURN", "RESEAT", "PARK"}  BY DEF Kinds, Moving
<1>2. ASSUME NEW k \in Kinds, NEW l \in Sites \cup {Nowhere}
      PROVE  /\ [kind |-> k, loc |-> l] \in [kind : Kinds, loc : Sites \cup {Nowhere}]
             /\ [kind |-> k, loc |-> l].kind = k /\ [kind |-> k, loc |-> l].loc = l
  OBVIOUS
<1> QED BY <1>1, <1>2 DEF DecisionOK, Sites

LEMMA ReturnsDecided ==
  ASSUME RegistryInv, NEW R \in SUBSET Residents, NEW sites \in [R -> Storage],
         NEW S \in SUBSET Residents, NEW d, d = DecisionsFor(sites, S)
  PROVE  /\ d \in [Atoms -> [kind : Kinds, loc : Sites \cup {Nowhere}]]
         /\ \A q \in Atoms :
              /\ q \in R => d[q] = [kind |-> "RETURN", loc |-> sites[q]]
              /\ q \in S \ R => d[q] = [kind |-> "STAY", loc |-> zoneSeat[q]]
              /\ q \notin R \cup S => d[q] = [kind |-> "none", loc |-> Nowhere]
         /\ \A q \in Atoms : DecisionOK(q, d[q])
<1>1. DOMAIN sites = R  OBVIOUS
<1>2. \A q \in Atoms :
        /\ q \in R => d[q] = [kind |-> "RETURN", loc |-> sites[q]]
        /\ q \in S \ R => d[q] = [kind |-> "STAY", loc |-> zoneSeat[q]]
        /\ q \notin R \cup S => d[q] = [kind |-> "none", loc |-> Nowhere]
  BY <1>1 DEF DecisionsFor, Stay, Undecided
<1>3. \A q \in R : sites[q] \in Storage  OBVIOUS
<1>4. \A q \in S : zoneSeat[q] \in Seats /\ zoneSeat[q] # Nowhere
  BY DEF RegistryInv, Residents
<1>5. ASSUME NEW q \in Atoms PROVE DecisionOK(q, d[q])
  <2>1. CASE q \in R
    <3>1. d[q] = [kind |-> "RETURN", loc |-> sites[q]] /\ sites[q] \in Storage
      BY <1>2, <1>3, <2>1
    <3> QED BY <3>1, DecisionKinds
  <2>2. CASE q \in S \ R
    <3>1. d[q] = [kind |-> "STAY", loc |-> zoneSeat[q]] /\ zoneSeat[q] \in Seats
          /\ zoneSeat[q] # Nowhere
      BY <1>2, <1>4, <2>2
    <3> QED BY <3>1, DecisionKinds
  <2>3. CASE q \notin R \cup S
    <3>1. d[q] = [kind |-> "none", loc |-> Nowhere]  BY <1>2, <2>3
    <3> QED BY <3>1, DecisionKinds
  <2> QED BY <2>1, <2>2, <2>3
<1>6. \A q \in Atoms : d[q] \in [kind : Kinds, loc : Sites \cup {Nowhere}]
  BY <1>5 DEF DecisionOK
<1>7. d = [q \in Atoms |-> d[q]]  BY DEF DecisionsFor
<1> QED BY <1>2, <1>5, <1>6, <1>7

LEMMA RichDecided ==
  ASSUME RegistryInv, NEW d \in RichDecisions
  PROVE  /\ d \in [Atoms -> [kind : Kinds, loc : Sites \cup {Nowhere}]]
         /\ \A q \in Atoms : DecisionOK(q, d[q])
<1>1. PICK back \in SUBSET Residents : d \in Winners(back)  BY DEF RichDecisions
<1>2. PICK sites \in ReturnSites(back), other \in OtherSeats(back) :
        d = RichDecision(sites, other)
  BY <1>1 DEF Winners
<1>3. PICK r \in SUBSET ((Residents \ Players) \ back) :
        other \in [r -> Seats \ OccupiedSeats]
  BY DEF OtherSeats
<1>4. DOMAIN sites = back /\ \A q \in back : sites[q] \in Storage
  BY DEF ReturnSites
<1>5. DOMAIN other = r /\ \A q \in r : other[q] \in Seats
  BY <1>3
<1>6. \A q \in Residents : zoneSeat[q] \in Seats /\ zoneSeat[q] # Nowhere
  BY DEF RegistryInv, Residents
<1> DEFINE stayers == (Residents \ Players) \cup Cycle
<1>61. stayers \subseteq Residents  BY DEF Cycle
<1>62. \A q \in Atoms :
        /\ q \in back => d[q] = [kind |-> IF q \in Players \ Cycle THEN "PARK" ELSE "RETURN",
                                 loc |-> sites[q]]
        /\ q \in r \ back => d[q] = [kind |-> "RESEAT", loc |-> other[q]]
        /\ q \in stayers \ (back \cup r) => d[q] = [kind |-> "STAY", loc |-> zoneSeat[q]]
        /\ q \notin back \cup r \cup stayers => d[q] = [kind |-> "none", loc |-> Nowhere]
  BY <1>2, <1>4, <1>5 DEF RichDecision, Stay, Undecided
<1> HIDE DEF stayers
<1>7. ASSUME NEW q \in Atoms PROVE DecisionOK(q, d[q])
  <2>1. CASE q \in back
    <3>1. \/ d[q] = [kind |-> "PARK", loc |-> sites[q]]
          \/ d[q] = [kind |-> "RETURN", loc |-> sites[q]]
      BY <1>62, <2>1
    <3> QED BY <3>1, <1>4, <2>1, DecisionKinds
  <2>2. CASE q \in r \ back
    <3>1. d[q] = [kind |-> "RESEAT", loc |-> other[q]]  BY <1>62, <2>2
    <3>2. other[q] \in Seats /\ zoneSeat[q] # Nowhere
      BY <1>5, <1>6, <2>2
    <3> QED BY <3>1, <3>2, DecisionKinds
  <2>3. CASE q \in stayers \ (back \cup r)
    <3>1. d[q] = [kind |-> "STAY", loc |-> zoneSeat[q]]  BY <1>62, <2>3
    <3>2. q \in Residents  BY <1>61, <2>3
    <3> QED BY <3>1, <3>2, <1>6, DecisionKinds
  <2>4. CASE q \notin back \cup r \cup stayers
    <3>1. d[q] = [kind |-> "none", loc |-> Nowhere]  BY <1>62, <2>4
    <3> QED BY <3>1, DecisionKinds
  <2> QED BY <2>1, <2>2, <2>3, <2>4
<1>8. d = [q \in Atoms |-> d[q]]  BY <1>2 DEF RichDecision
<1>9. \A q \in Atoms : d[q] \in [kind : Kinds, loc : Sites \cup {Nowhere}]
  BY <1>7 DEF DecisionOK
<1> QED BY <1>7, <1>8, <1>9

-----------------------------------------------------------------------------
(* Steps that leave the registry alone.                                     *)
LEMMA SameRegistry ==
  ASSUME UNCHANGED <<program, layer, zoneSeat, storageSite>>
  PROVE  /\ RegistryInv => RegistryInv'
         /\ Players' = Players /\ Rounds' = Rounds /\ At0' = At0
         /\ \A q : Pos(q)' = Pos(q)
         /\ \A q, d : DecisionOK(q, d)' <=> DecisionOK(q, d)
BY DEF RegistryInv, LedgerIsPartition, Players, Participants, Gates, Rounds, At0, Pos, DecisionOK

LEMMA FailedStep ==
  ASSUME IInv, pc' = "failed",
         UNCHANGED <<program, engine, layer, zoneSeat, storageSite, mapping>>,
         decision' \in [Atoms -> [kind : Kinds, loc : Sites \cup {Nowhere}]]
  PROVE  IInv'
<1>1. RegistryInv' /\ At0' = At0  BY SameRegistry DEF IInv
<1>2. StreamInv' /\ EveryMappingInjective' = EveryMappingInjective
  BY DEF IInv, StreamInv, EveryMappingInjective
<1>3. PlanInv'  BY DEF PlanInv, Deciding
<1>4. engine # "match" => SyncInv' /\ CommitInv'
  BY <1>1 DEF IInv, SyncInv, CommitInv, Deciding
<1>5. ExecutedLegsClean'  BY DEF ExecutedLegsClean
<1> QED BY <1>1, <1>2, <1>3, <1>4, <1>5 DEF IInv

(* A plan has been made: seats and decisions are new, the rest waits for    *)
(* the repair.                                                              *)
LEMMA PlannedStep ==
  ASSUME IInv, pc = "plan", layer + 1 < Rounds,
         pc' \in {"decide", "repair"}, pc' = "decide" => engine = "match",
         UNCHANGED <<program, engine, layer, zoneSeat, storageSite, mapping>>,
         NEW m \in Matchings, seat' = Placement(m),
         decision' \in [Atoms -> [kind : Kinds, loc : Sites \cup {Nowhere}]],
         \A q \in Atoms : DecisionOK(q, decision'[q])
  PROVE  IInv'
<1>1. /\ RegistryInv /\ RegistryInv' /\ At0' = At0 /\ Players' = Players /\ Rounds' = Rounds
      /\ \A q, d : DecisionOK(q, d)' <=> DecisionOK(q, d)
  BY SameRegistry DEF IInv
<1>2. StreamInv' /\ EveryMappingInjective' = EveryMappingInjective
  BY DEF IInv, StreamInv, EveryMappingInjective
<1>3. PlanInv'
  <2>1. /\ Placement(m) \in [Atoms -> Seats \cup {Nowhere}]
        /\ \A q \in Players : Placement(m)[q] \in Seats
    BY <1>1, PlacementSeats
  <2>2. \A q \in Atoms : DecisionOK(q, decision[q])'
    BY <1>1
  <2> QED BY <1>1, <2>1, <2>2 DEF PlanInv
<1>4. engine # "match" => SyncInv' /\ CommitInv'
  <2> SUFFICES ASSUME engine # "match" PROVE SyncInv' /\ CommitInv'  OBVIOUS
  <2>1. Injective(At0) /\ At0 = LastOf(mapping)  BY DEF IInv, SyncInv
  <2>2. layer + 1 # Rounds
    <3>1. layer \in Int /\ program \in Seq(Seq(Atoms \X Atoms))
      BY <1>1, PlacerAssumption DEF RegistryInv
    <3> QED BY <3>1 DEF Rounds
  <2>3. LastOf(mapping)' = LastOf(mapping)  BY DEF LastOf
  <2> QED BY <1>1, <2>1, <2>2, <2>3 DEF SyncInv, CommitInv, Deciding
<1>5. ExecutedLegsClean'  BY DEF ExecutedLegsClean
<1> QED BY <1>1, <1>2, <1>3, <1>4, <1>5 DEF IInv

LEMMA PlanRoundStep == IInv /\ PlanRound => IInv'
<1> SUFFICES ASSUME IInv, PlanRound PROVE IInv'  OBVIOUS
<1>1. PICK m \in Matchings : \E sites \in Repaired(m) : seat' = Placement(sites)
  BY DEF PlanRound
<1>2. PICK sites \in Matchings : seat' = Placement(sites)
  BY <1>1 DEF Repaired
<1>3. decision' = NoDecisions  BY DEF PlanRound
<1>4. \A q \in Atoms : decision'[q] = [kind |-> "none", loc |-> Nowhere]
  BY <1>3 DEF NoDecisions, Undecided
<1>5. \A q \in Atoms : DecisionOK(q, decision'[q])
  BY <1>4, DecisionKinds
<1>6. decision' \in [Atoms -> [kind : Kinds, loc : Sites \cup {Nowhere}]]
  BY <1>3, <1>4 DEF NoDecisions, Kinds
<1>7. pc' \in {"decide", "repair"} /\ (pc' = "decide" => engine = "match")
  BY DEF PlanRound, StartRepair
<1>8. pc = "plan" /\ layer + 1 < Rounds
      /\ UNCHANGED <<program, engine, layer, zoneSeat, storageSite, mapping>>
  BY DEF PlanRound, config, registry
<1> QED BY <1>2, <1>5, <1>6, <1>7, <1>8, PlannedStep

LEMMA GaStepStep == IInv /\ GaStep => IInv'
<1> SUFFICES ASSUME IInv, GaStep PROVE IInv'  OBVIOUS
<1> DEFINE idlers == Residents \ Players
           eligible == {q \in idlers : NextUse(q, layer) < Rounds}
<1>1. PICK m \in ClearMatchings : seat' = Placement(m)  BY DEF GaStep
<1>2. m \in Matchings  BY DEF ClearMatchings
<1>3. PICK chosen \in SUBSET eligible, all \in ReturnSites(eligible) :
        \E e \in Evictions(eligible \ chosen, Cardinality(idlers \ chosen)) :
          \E forced \in ReturnSites(e) :
            decision' = DecisionsFor([q \in chosen \cup e |-> IF q \in e THEN forced[q] ELSE all[q]],
                                     eligible)
  BY DEF GaStep
<1>4. PICK e \in Evictions(eligible \ chosen, Cardinality(idlers \ chosen)) :
        \E forced \in ReturnSites(e) :
          decision' = DecisionsFor([q \in chosen \cup e |-> IF q \in e THEN forced[q] ELSE all[q]],
                                   eligible)
  BY <1>3
<1>5. PICK forced \in ReturnSites(e) :
        decision' = DecisionsFor([q \in chosen \cup e |-> IF q \in e THEN forced[q] ELSE all[q]],
                                 eligible)
  BY <1>4
<1>6. e \subseteq eligible  BY DEF Evictions
<1>7. eligible \subseteq Residents  OBVIOUS
<1> HIDE DEF eligible, idlers
<1> DEFINE sites == [q \in chosen \cup e |-> IF q \in e THEN forced[q] ELSE all[q]]
<1>8. sites \in [chosen \cup e -> Storage]
  BY <1>6 DEF ReturnSites
<1>9. PICK d : d = DecisionsFor(sites, eligible)  OBVIOUS
<1>10. decision' = d  BY <1>5, <1>9
<1> HIDE DEF sites
<1>11. chosen \cup e \in SUBSET Residents /\ eligible \in SUBSET Residents  BY <1>6, <1>7
<1>12. RegistryInv  BY DEF IInv
<1>13. /\ d \in [Atoms -> [kind : Kinds, loc : Sites \cup {Nowhere}]]
       /\ \A q \in Atoms : DecisionOK(q, d[q])
  BY <1>8, <1>9, <1>11, <1>12, ReturnsDecided
<1>14. pc = "plan" /\ layer + 1 < Rounds /\ pc' = "repair"
       /\ UNCHANGED <<program, engine, layer, zoneSeat, storageSite, mapping>>
  BY DEF GaStep, StartRepair, config, registry
<1> QED BY <1>1, <1>2, <1>10, <1>13, <1>14, PlannedStep

LEMMA GaStepNoMenuStep == IInv /\ GaStepNoMenu => IInv'
BY FailedStep DEF GaStepNoMenu, Fail, IInv, PlanInv, config, registry, plan

LEMMA RichRefusedStep == IInv /\ RichRefused => IInv'
BY FailedStep DEF RichRefused, Fail, IInv, PlanInv, config, registry, plan

LEMMA RepairFailedStep == IInv /\ RepairFailed => IInv'
BY FailedStep DEF RepairFailed, Fail, IInv, PlanInv, config, registry, plan

-----------------------------------------------------------------------------
(* Steps that move the registry first.                                      *)
LEMMA ReturnsStillDecided ==
  ASSUME RegistryInv, NEW R \in SUBSET Residents, NEW sites \in [R -> Storage],
         NEW d, d = DecisionsFor(sites, Residents),
         \A q \in Atoms : zoneSeat'[q] = IF q \in R THEN Nowhere ELSE zoneSeat[q]
  PROVE  \A q \in Atoms : DecisionOK(q, d[q])'
<1> SUFFICES ASSUME NEW q \in Atoms PROVE DecisionOK(q, d[q])'  OBVIOUS
<1>0. PICK S \in SUBSET Residents : S = Residents  OBVIOUS
<1>1. DecisionOK(q, d[q])  BY <1>0, ReturnsDecided
<1>2. q \in R => d[q].kind = "RETURN"
  <2>0. d = DecisionsFor(sites, S)  BY <1>0
  <2>1. \A p \in Atoms :
          /\ p \in R => d[p] = [kind |-> "RETURN", loc |-> sites[p]]
          /\ p \in S \ R => d[p] = [kind |-> "STAY", loc |-> zoneSeat[p]]
          /\ p \notin R \cup S => d[p] = [kind |-> "none", loc |-> Nowhere]
    BY <2>0, ReturnsDecided
  <2>2. CASE q \in R
    <3>1. d[q] = [kind |-> "RETURN", loc |-> sites[q]]  BY <2>1, <2>2
    <3> QED BY <3>1
  <2> QED BY <2>2
<1>3. q \notin R => zoneSeat'[q] = zoneSeat[q]  OBVIOUS
<1> QED BY <1>1, <1>2, <1>3 DEF DecisionOK

LEMMA DecideLazyStep == IInv /\ DecideLazy => IInv'
<1> SUFFICES ASSUME IInv, DecideLazy PROVE IInv'  OBVIOUS
<1> DEFINE pool == Residents \ (Players \cup InTheWay)
           retained == Cardinality(Residents) - Cardinality(InTheWay)
<1>1. PICK e \in Evictions(pool, retained) : \E sites \in ReturnSites(InTheWay \cup e) :
        ReturnAll(sites) /\ decision' = DecisionsFor(sites, Residents)
  BY DEF DecideLazy
<1>2. InTheWay \cup e \in SUBSET Residents  BY DEF Evictions, InTheWay
<1> HIDE DEF pool, retained
<1>3. PICK R \in SUBSET Residents : R = InTheWay \cup e  BY <1>2
<1>4. PICK sites \in ReturnSites(R) :
        ReturnAll(sites) /\ decision' = DecisionsFor(sites, Residents)
  BY <1>1, <1>3
<1>5. PICK d : d = DecisionsFor(sites, Residents)  OBVIOUS
<1>6. sites \in [R -> Storage]  BY DEF ReturnSites
<1>7. /\ pc = "decide" /\ pc' = "repair"
      /\ UNCHANGED <<program, engine, layer, mapping, seat>>
  BY DEF DecideLazy, StartRepair, config
<1>8. engine = "match" /\ RegistryInv /\ StreamInv /\ PlanInv
  BY <1>7 DEF IInv, SyncInv
<1>9. RegistryInv' /\ \A q \in Atoms : zoneSeat'[q] = IF q \in R THEN Nowhere ELSE zoneSeat[q]
  BY <1>4, <1>7, <1>8, ReturnAllRegistry
<1>10. PlanInv'
  <2>1. \A q \in Atoms : DecisionOK(q, d[q])'
    BY <1>5, <1>6, <1>8, <1>9, ReturnsStillDecided
  <2>2. d \in [Atoms -> [kind : Kinds, loc : Sites \cup {Nowhere}]]
    BY <1>5, <1>6, <1>8, ReturnsDecided
  <2>3. decision' = d  BY <1>4, <1>5
  <2>4. Players' = Players  BY <1>7 DEF Players, Participants, Gates, Rounds
  <2> QED BY <1>7, <1>8, <2>1, <2>2, <2>3, <2>4 DEF PlanInv
<1>11. StreamInv'  BY <1>7, <1>8 DEF StreamInv
<1> QED BY <1>7, <1>8, <1>9, <1>10, <1>11 DEF IInv, ExecutedLegsClean

LEMMA TerminalStep == IInv /\ Terminal => IInv'
<1> SUFFICES ASSUME IInv, Terminal PROVE IInv'  OBVIOUS
<1>1. PICK R \in SUBSET Residents : R = IF finalReturn THEN Residents ELSE {}
  OBVIOUS
<1>2. PICK sites \in ReturnSites(R) :
        ReturnAll(sites) /\ decision' = DecisionsFor(sites, Residents)
  BY <1>1 DEF Terminal
<1>3. PICK d : d = DecisionsFor(sites, Residents)  OBVIOUS
<1>4. sites \in [R -> Storage]  BY DEF ReturnSites
<1>5. /\ pc = "plan" /\ pc' = "repair" /\ layer + 1 = Rounds /\ todo' = {}
      /\ UNCHANGED <<program, engine, layer, mapping>> /\ seat' = Unseated
  BY DEF Terminal, StartRepair, config
<1>6. RegistryInv /\ StreamInv /\ PlanInv  BY DEF IInv
<1>7. RegistryInv' /\ \A q \in Atoms : zoneSeat'[q] = IF q \in R THEN Nowhere ELSE zoneSeat[q]
  BY <1>2, <1>5, <1>6, ReturnAllRegistry
<1>70. PICK S \in SUBSET Residents : S = Residents  OBVIOUS
<1>71. /\ d \in [Atoms -> [kind : Kinds, loc : Sites \cup {Nowhere}]]
       /\ \A q \in Atoms :
              /\ q \in R => d[q] = [kind |-> "RETURN", loc |-> sites[q]]
              /\ q \in S \ R => d[q] = [kind |-> "STAY", loc |-> zoneSeat[q]]
              /\ q \notin R \cup S => d[q] = [kind |-> "none", loc |-> Nowhere]
  BY <1>3, <1>4, <1>6, <1>70, ReturnsDecided
<1>8. /\ d \in [Atoms -> [kind : Kinds, loc : Sites \cup {Nowhere}]]
      /\ \A q \in Atoms :
              /\ q \in R => d[q] = [kind |-> "RETURN", loc |-> sites[q]]
              /\ q \in Residents \ R => d[q] = [kind |-> "STAY", loc |-> zoneSeat[q]]
              /\ q \notin R \cup Residents => d[q] = [kind |-> "none", loc |-> Nowhere]
  BY <1>70, <1>71
<1>9. decision' = d  BY <1>2, <1>3
<1>10. PlanInv'
  <2>1. \A q \in Atoms : DecisionOK(q, d[q])'
    BY <1>3, <1>4, <1>6, <1>7, ReturnsStillDecided
  <2>2. Players' = {}
    <3>1. program' \in Seq(Seq(Atoms \X Atoms)) /\ (layer + 1)' = Len(program')
      BY <1>5, <1>6, PlacerAssumption DEF RegistryInv, Rounds
    <3>2. Gates(layer + 1)' = <<>>  BY <3>1 DEF Gates, Rounds
    <3> QED BY <3>2 DEF Players, Participants
  <2> QED BY <1>5, <1>8, <1>9, <2>1, <2>2 DEF PlanInv, Unseated
<1>11. StreamInv' /\ EveryMappingInjective' = EveryMappingInjective
  BY <1>5, <1>6 DEF StreamInv, EveryMappingInjective
<1>12. engine # "match" => SyncInv'
  <2> SUFFICES ASSUME engine # "match" PROVE SyncInv'  OBVIOUS
  <2>1. Injective(At0) /\ At0 = LastOf(mapping)  BY <1>5 DEF IInv, SyncInv
  <2>2. /\ Injective(At0')
        /\ \A q \in Atoms : Pos(q)' = IF q \in R THEN sites[q] ELSE Pos(q)
    BY <1>2, <1>6, <2>1, ReturnAllKeeps
  <2>3. layer' + 1 = Rounds' /\ LastOf(mapping)' = LastOf(mapping)
    BY <1>5 DEF Rounds, LastOf
  <2>4. ASSUME NEW q \in Atoms
        PROVE  IF q \in Movers' THEN decision'[q].loc = Pos(q)' ELSE Pos(q)' = LastOf(mapping)[q]
    <3>1. CASE q \in R
      <4>1. d[q].loc = sites[q] /\ d[q].kind = "RETURN"  BY <1>8, <3>1
      <4> QED BY <4>1, <1>9, <2>2, <3>1 DEF Movers, Moving
    <3>2. CASE q \notin R
      <4>1. d[q].kind \in {"STAY", "none"}  BY <1>8, <3>2
      <4>2. q \notin Movers'  BY <4>1, <1>9 DEF Movers, Moving
      <4>3. Pos(q) = LastOf(mapping)[q]  BY <2>1 DEF At0
      <4> QED BY <4>2, <4>3, <2>2, <3>2
    <3> QED BY <3>1, <3>2
  <2>5. layer' \in Int /\ Rounds' = layer' + 1  BY <1>7, <2>3 DEF RegistryInv
  <2> QED BY <1>5, <2>2, <2>3, <2>4, <2>5 DEF SyncInv, Deciding
<1>13. engine # "match" => CommitInv'  BY <1>5 DEF CommitInv
<1>14. ExecutedLegsClean'  BY <1>5 DEF ExecutedLegsClean
<1> QED BY <1>5, <1>7, <1>10, <1>11, <1>12, <1>13, <1>14 DEF IInv

-----------------------------------------------------------------------------
(* The solver's winner and the repair.                                      *)
LEMMA SeparatePhases ==
  ASSUME NEW d, NEW s, Separate(d, s), decision' = d, seat' = s,
         UNCHANGED <<program, layer, zoneSeat, storageSite>>
  PROVE  Injective(At1') /\ Injective(At2')
<1> DEFINE t1 == [q \in Atoms |-> IF d[q].kind = "none" THEN Pos(q) ELSE d[q].loc]
<1>1. Players' = Players /\ \A q : Pos(q)' = Pos(q)  BY SameRegistry
<1>2. At1' = t1  BY <1>1 DEF At1, T1
<1>3. At2' = [q \in Atoms |-> IF q \in Players THEN s[q] ELSE t1[q]]
  BY <1>1 DEF At2, T2, T1
<1> QED BY <1>2, <1>3 DEF Separate

LEMMA RichStepStep == IInv /\ RichStep => IInv'
<1> SUFFICES ASSUME IInv, RichStep PROVE IInv'  OBVIOUS
<1>1. PICK d \in RichDecisions, m \in Matchings :
        /\ Separate(d, Placement(m))
        /\ decision' = d /\ seat' = Placement(m)
        /\ \/ native' /\ pc' = "commit"
           \/ StartRepair
           \/ pc' = "failed"
  BY DEF RichStep, Fail
<1>2. /\ RegistryInv /\ StreamInv
      /\ pc = "plan" /\ layer + 1 < Rounds /\ engine = "rich"
      /\ UNCHANGED <<program, engine, layer, zoneSeat, storageSite, mapping>>
  BY DEF RichStep, config, registry, IInv
<1>3. /\ decision' \in [Atoms -> [kind : Kinds, loc : Sites \cup {Nowhere}]]
      /\ \A q \in Atoms : DecisionOK(q, decision'[q])
  BY <1>1, <1>2, RichDecided
<1>4. CASE pc' = "failed"  BY <1>2, <1>3, <1>4, FailedStep
<1>5. CASE StartRepair
  <2>1. pc' = "repair"  BY <1>5 DEF StartRepair
  <2>2. seat' = Placement(m)  BY <1>1
  <2> QED BY <1>2, <1>3, <2>1, <2>2, PlannedStep
<1>6. CASE native' /\ pc' = "commit"
  <2>1. /\ RegistryInv' /\ At0' = At0 /\ Players' = Players /\ Rounds' = Rounds
        /\ \A q, e : DecisionOK(q, e)' <=> DecisionOK(q, e)
    BY <1>2, SameRegistry
  <2>2. StreamInv' /\ EveryMappingInjective' = EveryMappingInjective
    BY <1>2, <1>6 DEF StreamInv, EveryMappingInjective
  <2>3. PlanInv'
    <3>1. /\ Placement(m) \in [Atoms -> Seats \cup {Nowhere}]
          /\ \A q \in Players : Placement(m)[q] \in Seats
      BY <1>2, PlacementSeats
    <3>2. \A q \in Atoms : DecisionOK(q, decision[q])'  BY <1>3, <2>1
    <3> QED BY <1>1, <1>3, <2>1, <3>1, <3>2 DEF PlanInv
  <2>4. CommitInv'
    <3>1. Injective(At1') /\ Injective(At2')  BY <1>1, <1>2, SeparatePhases
    <3> QED BY <1>6, <3>1 DEF CommitInv
  <2>5. SyncInv'
    <3>1. Injective(At0) /\ At0 = LastOf(mapping)  BY <1>2 DEF IInv, SyncInv
    <3>2. layer + 1 # Rounds
      <4>1. layer \in Int /\ program \in Seq(Seq(Atoms \X Atoms))
        BY <1>2, PlacerAssumption DEF RegistryInv
      <4> QED BY <1>2, <4>1 DEF Rounds
    <3>3. LastOf(mapping)' = LastOf(mapping)  BY <1>2 DEF LastOf
    <3> QED BY <1>2, <1>6, <2>1, <3>1, <3>2, <3>3 DEF SyncInv, Deciding
  <2>6. ExecutedLegsClean'  BY <1>6 DEF ExecutedLegsClean
  <2> QED BY <1>2, <2>1, <2>2, <2>3, <2>4, <2>5, <2>6 DEF IInv
<1> QED BY <1>1, <1>4, <1>5, <1>6

LEMMA SamePlan ==
  ASSUME UNCHANGED <<program, layer, zoneSeat, storageSite, decision, seat>>
  PROVE  At1' = At1 /\ At2' = At2 /\ Movers' = Movers
BY SameRegistry DEF At1, At2, T1, T2, Movers

LEMMA RepairDoneStep == IInv /\ RepairDone => IInv'
<1> SUFFICES ASSUME IInv, RepairDone PROVE IInv'  OBVIOUS
<1>1. /\ pc = "repair" /\ pc' = "commit" /\ Issues = {}
      /\ UNCHANGED <<program, engine, layer, zoneSeat, storageSite, mapping,
                     decision, seat, native, todo>>
  BY DEF RepairDone, config, registry, plan, repair
<1>2. /\ RegistryInv' /\ At0' = At0 /\ Players' = Players /\ Rounds' = Rounds
      /\ (\A q, e : DecisionOK(q, e)' <=> DecisionOK(q, e)) /\ \A q : Pos(q)' = Pos(q)
  BY <1>1, SameRegistry DEF IInv
<1>3. At1' = At1 /\ At2' = At2 /\ Movers' = Movers  BY <1>1, SamePlan
<1>4. StreamInv' /\ EveryMappingInjective' = EveryMappingInjective
  BY <1>1 DEF IInv, StreamInv, EveryMappingInjective
<1>5. PlanInv'  BY <1>1, <1>2 DEF IInv, PlanInv, Deciding
<1>6. engine # "match" => SyncInv' /\ CommitInv'
  <2> SUFFICES ASSUME engine # "match" PROVE SyncInv' /\ CommitInv'  OBVIOUS
  <2>1. SyncInv /\ RegistryInv /\ PlanInv  BY DEF IInv
  <2>2. SyncInv'
    <3>1. LastOf(mapping)' = LastOf(mapping)  BY <1>1 DEF LastOf
    <3> QED BY <1>1, <1>2, <1>3, <2>1, <3>1 DEF SyncInv, Deciding
  <2>3. CleanPhase(At0, At1) /\ CleanPhase(At1, At2)
    BY <1>1, <2>1, NoIssuesClean DEF Deciding
  <2>4. Injective(At1) /\ Injective(At2)
    <3>1. At0 \in [Atoms -> Sites] /\ At1 \in [Atoms -> Sites] /\ At2 \in [Atoms -> Sites]
      BY <1>1, <2>1, PhasesAreSites DEF Deciding
    <3>2. Injective(At0)  BY <2>1 DEF SyncInv
    <3>3. Injective(At1)  BY <2>3, <3>1, <3>2, CleanKeepsApart
    <3> QED BY <2>3, <3>1, <3>3, CleanKeepsApart
  <2> QED BY <1>2, <1>3, <2>2, <2>3, <2>4 DEF CommitInv
<1>7. ExecutedLegsClean'  BY <1>1 DEF ExecutedLegsClean
<1> QED BY <1>1, <1>2, <1>4, <1>5, <1>6, <1>7 DEF IInv

(* At the terminal boundary nobody is still to move: there are no issues.   *)
LEMMA TerminalHasNoIssues ==
  ASSUME RegistryInv, SyncInv, Deciding, layer + 1 = Rounds
  PROVE  Issues = {}
<1>1. Players = {}
  <2>1. program \in Seq(Seq(Atoms \X Atoms))  BY PlacerAssumption DEF RegistryInv
  <2>2. Rounds \in Nat  BY <2>1 DEF Rounds
  <2>3. Target = <<>>  BY <2>2 DEF Target, Gates
  <2> QED BY <2>3 DEF Players, Participants, Target
<1>2. \A q \in Movers : decision[q].loc = Pos(q)  BY DEF SyncInv, Movers
<1> QED BY <1>1, <1>2 DEF Issues, Hits

LEMMA RepairRoundStep == IInv /\ RepairRound => IInv'
<1> SUFFICES ASSUME IInv, RepairRound PROVE IInv'  OBVIOUS
<1>1. /\ pc = "repair" /\ Issues # {}
      /\ UNCHANGED <<program, engine, layer, zoneSeat, storageSite, mapping,
                     decision, seat, native, pc>>
  BY DEF RepairRound, config, registry, plan
<1>2. /\ RegistryInv' /\ At0' = At0 /\ Players' = Players /\ Rounds' = Rounds
      /\ (\A q, e : DecisionOK(q, e)' <=> DecisionOK(q, e)) /\ \A q : Pos(q)' = Pos(q)
  BY <1>1, SameRegistry DEF IInv
<1>3. StreamInv' /\ EveryMappingInjective' = EveryMappingInjective
  BY <1>1 DEF IInv, StreamInv, EveryMappingInjective
<1>4. PlanInv'  BY <1>1, <1>2 DEF IInv, PlanInv, Deciding
<1>5. engine # "match" => SyncInv' /\ CommitInv'
  <2> SUFFICES ASSUME engine # "match" PROVE SyncInv' /\ CommitInv'  OBVIOUS
  <2>1. SyncInv /\ RegistryInv  BY DEF IInv
  <2>2. layer + 1 # Rounds  BY <1>1, <2>1, TerminalHasNoIssues DEF Deciding
  <2>3. LastOf(mapping)' = LastOf(mapping)  BY <1>1 DEF LastOf
  <2> QED BY <1>1, <1>2, <2>1, <2>2, <2>3 DEF SyncInv, CommitInv, Deciding
<1>6. ExecutedLegsClean'  BY <1>1 DEF ExecutedLegsClean
<1> QED BY <1>1, <1>2, <1>3, <1>4, <1>5, <1>6 DEF IInv

(* One issue mended: decisions still name sites of the kind they are about. *)
LEMMA MakeWayKeeps ==
  ASSUME PlanInv, Deciding, NEW issue, MakeWay(issue)
  PROVE  /\ decision' \in [Atoms -> [kind : Kinds, loc : Sites \cup {Nowhere}]]
         /\ \A q \in Atoms : DecisionOK(q, decision'[q])
         /\ seat' = seat
<1>1. PICK s \in NewSeats(issue[3]) :
        decision' = [decision EXCEPT ![issue[3]] = [kind |-> "RESEAT", loc |-> s]]
  BY DEF MakeWay
<1>2. s \in Seats /\ zoneSeat[issue[3]] # Nowhere  BY <1>1 DEF NewSeats
<1>3. PICK v : v = issue[3]  OBVIOUS
<1>4. \A q \in Atoms : decision'[q] = IF q = v THEN [kind |-> "RESEAT", loc |-> s]
                                      ELSE decision[q]
  BY <1>1, <1>3 DEF PlanInv
<1>5. ASSUME NEW q \in Atoms PROVE DecisionOK(q, decision'[q])
  <2>1. CASE q = v
    <3>1. decision'[q] = [kind |-> "RESEAT", loc |-> s]  BY <1>4, <2>1
    <3>2. zoneSeat[q] # Nowhere  BY <1>2, <1>3, <2>1
    <3> QED BY <1>2, <3>1, <3>2, DecisionKinds
  <2>2. CASE q # v
    <3>1. decision'[q] = decision[q]  BY <1>4, <2>2
    <3> QED BY <3>1 DEF PlanInv
  <2> QED BY <2>1, <2>2
<1>6. \A q \in Atoms : decision'[q] \in [kind : Kinds, loc : Sites \cup {Nowhere}]
  BY <1>5 DEF DecisionOK
<1>7. decision' = [q \in Atoms |-> decision'[q]]  BY <1>1 DEF PlanInv
<1> QED BY <1>5, <1>6, <1>7 DEF MakeWay

LEMMA GoElsewhereKeeps ==
  ASSUME PlanInv, Deciding, NEW issue, GoElsewhere(issue)
  PROVE  /\ decision' \in [Atoms -> [kind : Kinds, loc : Sites \cup {Nowhere}]]
         /\ \A q \in Atoms : DecisionOK(q, decision'[q])
         /\ seat' = seat
<1>1. PICK s \in NewTargets(issue[1], issue[2]) :
        decision' = [decision EXCEPT ![issue[2]].loc = s]
  BY DEF GoElsewhere
<1>2. PICK v : v = issue[2]  OBVIOUS
<1>3. /\ v \in Movers
      /\ s \in IF decision[v].kind = "RESEAT" THEN Seats ELSE Storage
  BY <1>1, <1>2 DEF NewTargets
<1>4. v \in Atoms /\ decision[v].kind \in {"RETURN", "RESEAT", "PARK"}
  BY <1>3 DEF Movers, Moving
<1>5. /\ decision'[v] = [kind |-> decision[v].kind, loc |-> s]
      /\ \A q \in Atoms : q # v => decision'[q] = decision[q]
  BY <1>1, <1>2, <1>4 DEF PlanInv
<1>6. ASSUME NEW q \in Atoms PROVE DecisionOK(q, decision'[q])
  <2>1. CASE q = v
    <3>1. CASE decision[v].kind = "RESEAT"
      <4>1. decision'[q] = [kind |-> "RESEAT", loc |-> s] /\ s \in Seats
        BY <1>3, <1>5, <2>1, <3>1
      <4>2. zoneSeat[q] # Nowhere  BY <2>1, <3>1 DEF PlanInv, DecisionOK
      <4> QED BY <4>1, <4>2, DecisionKinds
    <3>2. CASE decision[v].kind \in {"RETURN", "PARK"}
      <4>1. s \in Storage  BY <1>3, <3>2
      <4>2. decision'[q] = [kind |-> "RETURN", loc |-> s]
            \/ decision'[q] = [kind |-> "PARK", loc |-> s]
        BY <1>5, <2>1, <3>2
      <4> QED BY <4>1, <4>2, DecisionKinds
    <3> QED BY <1>4, <3>1, <3>2
  <2>2. CASE q # v
    <3>1. decision'[q] = decision[q]  BY <1>5, <2>2
    <3> QED BY <3>1 DEF PlanInv
  <2> QED BY <2>1, <2>2
<1>7. \A q \in Atoms : decision'[q] \in [kind : Kinds, loc : Sites \cup {Nowhere}]
  BY <1>6 DEF DecisionOK
<1>8. decision' = [q \in Atoms |-> decision'[q]]  BY <1>1 DEF PlanInv
<1> QED BY <1>6, <1>7, <1>8 DEF GoElsewhere

LEMMA MoveGateKeeps ==
  ASSUME RegistryInv, PlanInv, Deciding, NEW issue, MoveGate(issue)
  PROVE  /\ seat' \in [Atoms -> Seats \cup {Nowhere}]
         /\ \A q \in Players : seat'[q] \in Seats
         /\ decision' = decision
<1>1. PICK i \in GateToMove(issue[2], issue[3]) : \E p \in NewSites(i) :
        LET s == Oriented(Target[i], p)
        IN seat' = [seat EXCEPT ![Target[i][1]] = s[1], ![Target[i][2]] = s[2]]
  BY DEF MoveGate
<1>2. PICK p \in NewSites(i) :
        LET s == Oriented(Target[i], p)
        IN seat' = [seat EXCEPT ![Target[i][1]] = s[1], ![Target[i][2]] = s[2]]
  BY <1>1
<1>3. i \in DOMAIN Target /\ p \in Pairs  BY DEF GateToMove, NewSites
<1>4. Oriented(Target[i], p)[1] \in Seats /\ Oriented(Target[i], p)[2] \in Seats
  BY <1>3, OrientedSeats
<1>5. PICK a, b : a = Oriented(Target[i], p)[1] /\ b = Oriented(Target[i], p)[2]
  OBVIOUS
<1>6. seat' = [seat EXCEPT ![Target[i][1]] = a, ![Target[i][2]] = b]
  BY <1>2, <1>5
<1>7. a \in Seats /\ b \in Seats  BY <1>4, <1>5
<1>8. PICK x, y : seat' = [[seat EXCEPT ![x] = a] EXCEPT ![y] = b]  BY <1>6
<1>9. seat \in [Atoms -> Seats \cup {Nowhere}] /\ \A q \in Players : seat[q] \in Seats
  BY DEF PlanInv, Deciding
<1>10. seat' \in [Atoms -> Seats \cup {Nowhere}]  BY <1>7, <1>8, <1>9
<1>11. \A q \in Atoms : seat'[q] \in {a, b, seat[q]}  BY <1>8, <1>9
<1>12. Players \subseteq Atoms  BY PlayersAreAtoms DEF RegistryInv
<1>13. \A q \in Players : seat'[q] \in Seats  BY <1>7, <1>9, <1>11, <1>12
<1> QED BY <1>10, <1>13 DEF MoveGate

LEMMA FixIssueStep == IInv /\ FixIssue => IInv'
<1> SUFFICES ASSUME IInv, FixIssue PROVE IInv'  OBVIOUS
<1>1. /\ pc = "repair" /\ todo # {}
      /\ UNCHANGED <<program, engine, layer, zoneSeat, storageSite, mapping, native, pc>>
  BY DEF FixIssue, config, registry
<1>2. RegistryInv /\ PlanInv /\ Deciding  BY <1>1 DEF IInv, Deciding
<1>3. PICK issue : MakeWay(issue) \/ GoElsewhere(issue) \/ MoveGate(issue) \/ NoRemedy(issue)
  BY DEF FixIssue
<1>4. /\ RegistryInv' /\ At0' = At0 /\ Players' = Players /\ Rounds' = Rounds
      /\ \A q, e : DecisionOK(q, e)' <=> DecisionOK(q, e)
  BY <1>1, <1>2, SameRegistry
<1>5. StreamInv' /\ EveryMappingInjective' = EveryMappingInjective
  BY <1>1 DEF IInv, StreamInv, EveryMappingInjective
<1>6. /\ decision' \in [Atoms -> [kind : Kinds, loc : Sites \cup {Nowhere}]]
      /\ \A q \in Atoms : DecisionOK(q, decision'[q])
      /\ seat' \in [Atoms -> Seats \cup {Nowhere}] /\ \A q \in Players : seat'[q] \in Seats
  <2>0. /\ decision \in [Atoms -> [kind : Kinds, loc : Sites \cup {Nowhere}]]
        /\ \A q \in Atoms : DecisionOK(q, decision[q])
        /\ seat \in [Atoms -> Seats \cup {Nowhere}] /\ \A q \in Players : seat[q] \in Seats
    BY <1>1, <1>2 DEF PlanInv
  <2>1. CASE MakeWay(issue)  BY <1>2, <2>0, <2>1, MakeWayKeeps
  <2>2. CASE GoElsewhere(issue)  BY <1>2, <2>0, <2>2, GoElsewhereKeeps
  <2>3. CASE MoveGate(issue)  BY <1>2, <2>0, <2>3, MoveGateKeeps
  <2>4. CASE NoRemedy(issue)  BY <2>0, <2>4 DEF NoRemedy
  <2> QED BY <1>3, <2>1, <2>2, <2>3, <2>4
<1>7. PlanInv'
  <2>1. \A q \in Atoms : DecisionOK(q, decision[q])'  BY <1>4, <1>6
  <2> QED BY <1>4, <1>6, <2>1 DEF PlanInv
<1>8. engine # "match" => SyncInv' /\ CommitInv'
  <2> SUFFICES ASSUME engine # "match" PROVE SyncInv' /\ CommitInv'  OBVIOUS
  <2>1. SyncInv  BY DEF IInv
  <2>2. layer + 1 # Rounds  BY <1>1, <1>2, <2>1 DEF SyncInv
  <2>3. LastOf(mapping)' = LastOf(mapping)  BY <1>1 DEF LastOf
  <2> QED BY <1>1, <1>4, <2>1, <2>2, <2>3 DEF SyncInv, CommitInv, Deciding
<1>9. ExecutedLegsClean'  BY <1>1 DEF ExecutedLegsClean
<1> QED BY <1>4, <1>5, <1>7, <1>8, <1>9, <1>1 DEF IInv

-----------------------------------------------------------------------------
(* The commits.                                                             *)
LEMMA BoundaryIsMapping ==
  ASSUME RegistryInv, StreamInv, PlanInv, Deciding
  PROVE  LastOf(mapping) \in [Atoms -> Sites] /\ Boundary \in [Atoms -> Sites]
<1>1. LastOf(mapping) \in [Atoms -> Sites]  BY DEF StreamInv, LastOf
<1>2. ASSUME NEW q \in Movers PROVE decision[q].loc \in Sites
  <2>1. q \in Atoms /\ decision[q].kind \in {"RETURN", "RESEAT", "PARK"}
    BY DEF Movers, Moving
  <2>2. DecisionOK(q, decision[q])  BY <2>1 DEF PlanInv
  <2> QED BY <2>1, <2>2 DEF DecisionOK, Sites
<1> QED BY <1>1, <1>2 DEF Boundary

(* The boundary and the gate mapping are where the two phases lead.         *)
LEMMA BoundaryIsBackPhase ==
  ASSUME RegistryInv, PlanInv, Deciding, At0 = LastOf(mapping)
  PROVE  /\ Boundary = At1
         /\ [q \in Atoms |-> IF q \in Players THEN seat[q] ELSE Boundary[q]] = At2
<1>1. ASSUME NEW q \in Atoms PROVE Boundary[q] = T1(q)
  <2>1. DecisionOK(q, decision[q])  BY DEF PlanInv
  <2>2. decision[q].kind \in {"none", "STAY", "RETURN", "RESEAT", "PARK"}
    BY <2>1 DEF DecisionOK, Kinds, Moving
  <2>3. Pos(q) = LastOf(mapping)[q]  BY DEF At0
  <2>4. CASE q \in Movers
    BY <2>4 DEF Boundary, T1, Movers, Moving
  <2>5. CASE q \notin Movers
    <3>1. Boundary[q] = Pos(q)  BY <2>3, <2>5 DEF Boundary
    <3>2. decision[q].kind \in {"none", "STAY"}  BY <2>2, <2>5 DEF Movers, Moving
    <3> QED BY <2>1, <3>1, <3>2 DEF T1, DecisionOK, Pos
  <2> QED BY <2>4, <2>5
<1>2. Boundary = At1  BY <1>1 DEF At1, Boundary
<1> QED BY <1>1, <1>2 DEF At2, T2

LEMMA CommitRegistry ==
  ASSUME RegistryInv, PlanInv, CommitRound
  PROVE  /\ RegistryInv'
         /\ engine # "match" => At0' = At2
<1>1. pc = "commit" /\ layer + 1 < Rounds /\ layer' = layer + 1 /\ UNCHANGED program
  BY DEF CommitRound, config
<1>2. \A q \in Players : seat[q] \in Seats  BY <1>1 DEF PlanInv
<1>3. \A q \in Atoms : /\ zoneSeat'[q] = IF q \in Players THEN seat[q] ELSE SeatAfterBack(q)
                       /\ storageSite'[q] = SiteAfterRound(q)
  BY DEF CommitRound
<1>4. ASSUME NEW q \in Atoms
      PROVE  /\ zoneSeat'[q] \in Seats \cup {Nowhere}
             /\ storageSite'[q] \in Storage \cup {Nowhere}
             /\ (zoneSeat'[q] = Nowhere) # (storageSite'[q] = Nowhere)
             /\ engine # "match" =>
                  T2(q) = IF zoneSeat'[q] # Nowhere THEN zoneSeat'[q] ELSE storageSite'[q]
  <2>1. DecisionOK(q, decision[q])  BY <1>1 DEF PlanInv, Deciding
  <2>2. /\ zoneSeat[q] \in Seats \cup {Nowhere} /\ storageSite[q] \in Storage \cup {Nowhere}
        /\ (zoneSeat[q] = Nowhere) # (storageSite[q] = Nowhere)
    BY DEF RegistryInv, LedgerIsPartition
  <2>3. Nowhere \notin Seats /\ Nowhere \notin Storage  BY PlacerAssumption DEF Sites
  <2>4. CASE q \in Players
    <3>1. zoneSeat'[q] = seat[q] /\ storageSite'[q] = Nowhere /\ T2(q) = seat[q]
      BY <1>3, <2>4 DEF SiteAfterRound, T2
    <3> QED BY <1>2, <2>3, <2>4, <3>1
  <2>5. CASE q \notin Players
    <3>1. zoneSeat'[q] = SeatAfterBack(q) /\ storageSite'[q] = SiteAfterRound(q)
          /\ T2(q) = T1(q)
      BY <1>3, <2>5 DEF T2
    <3>2. CASE engine = "match"
      <4>1. zoneSeat'[q] = zoneSeat[q] /\ storageSite'[q] = storageSite[q]
        BY <2>5, <3>1, <3>2 DEF SeatAfterBack, SiteAfterRound
      <4> QED BY <2>2, <3>2, <4>1
    <3>3. CASE engine # "match" /\ decision[q].kind \in {"RETURN", "PARK"}
      <4>1. zoneSeat'[q] = Nowhere /\ storageSite'[q] = decision[q].loc
            /\ T1(q) = decision[q].loc
        BY <2>5, <3>1, <3>3 DEF SeatAfterBack, SiteAfterRound, T1
      <4>2. decision[q].loc \in Storage  BY <2>1, <3>3 DEF DecisionOK
      <4> QED BY <2>3, <3>1, <4>1, <4>2
    <3>4. CASE engine # "match" /\ decision[q].kind = "RESEAT"
      <4>1. zoneSeat'[q] = decision[q].loc /\ storageSite'[q] = storageSite[q]
            /\ T1(q) = decision[q].loc
        BY <2>5, <3>1, <3>4 DEF SeatAfterBack, SiteAfterRound, T1
      <4>2. decision[q].loc \in Seats /\ zoneSeat[q] # Nowhere
        BY <2>1, <3>4 DEF DecisionOK
      <4> QED BY <2>2, <2>3, <3>1, <4>1, <4>2
    <3>5. CASE engine # "match" /\ decision[q].kind \in {"none", "STAY"}
      <4>1. zoneSeat'[q] = zoneSeat[q] /\ storageSite'[q] = storageSite[q]
        BY <2>5, <3>1, <3>5 DEF SeatAfterBack, SiteAfterRound
      <4>2. T1(q) = Pos(q)  BY <2>1, <3>5 DEF T1, DecisionOK, Pos
      <4> QED BY <2>2, <3>1, <4>1, <4>2 DEF Pos
    <3>6. decision[q].kind \in {"none", "STAY", "RETURN", "RESEAT", "PARK"}
      BY <2>1 DEF DecisionOK, Kinds, Moving
    <3> QED BY <3>2, <3>3, <3>4, <3>5, <3>6
  <2> QED BY <2>4, <2>5
<1>5. RegistryInv'
  <2>1. /\ zoneSeat' \in [Atoms -> Seats \cup {Nowhere}]
        /\ storageSite' \in [Atoms -> Storage \cup {Nowhere}]
    BY <1>4 DEF CommitRound
  <2>2. LedgerIsPartition'  BY <1>4 DEF LedgerIsPartition
  <2> QED BY <1>1, <2>1, <2>2 DEF RegistryInv, Rounds
<1>6. engine # "match" => At0' = At2  BY <1>4 DEF At0, At2, Pos
<1> QED BY <1>5, <1>6

LEMMA AppendToOne ==
  ASSUME NEW S, NEW s \in Seq(S), NEW g \in S, Len(s) = 1
  PROVE  Len(Append(s, g)) = 2 /\ Append(s, g)[2] = g /\ Append(s, g)[1] = s[1]
OBVIOUS

LEMMA CommitRoundStep == IInv /\ CommitRound => IInv'
<1> SUFFICES ASSUME IInv, CommitRound PROVE IInv'  OBVIOUS
<1> DEFINE gate == [q \in Atoms |-> IF q \in Players THEN seat[q] ELSE Boundary[q]]
<1>1. /\ pc = "commit" /\ pc' = "plan" /\ layer + 1 < Rounds /\ layer' = layer + 1
      /\ decision' = NoDecisions /\ native' = native
      /\ UNCHANGED <<program, engine>>
      /\ mapping' = IF layer = -1 THEN Append(mapping, gate) ELSE mapping \o <<Boundary, gate>>
  BY DEF CommitRound, config, ForgetRound
<1>2. RegistryInv /\ StreamInv /\ PlanInv /\ Deciding  BY <1>1 DEF IInv, Deciding
<1>3. RegistryInv'  BY <1>2, CommitRegistry
<1>4. Boundary \in [Atoms -> Sites] /\ LastOf(mapping) \in [Atoms -> Sites]
  BY <1>2, BoundaryIsMapping
<1>5. gate \in [Atoms -> Sites]
  <2>1. \A q \in Players : seat[q] \in Sites  BY <1>1, <1>2 DEF PlanInv, Sites
  <2> QED BY <1>4, <2>1
<1> HIDE DEF gate
<1>6. mapping \in Seq([Atoms -> Sites]) /\ mapping # <<>> /\ layer \in Int /\ layer >= -1
  BY <1>2 DEF StreamInv, RegistryInv
<1>7. StreamInv'
  <2>1. Append(mapping, gate) \in Seq([Atoms -> Sites])  BY <1>5, <1>6
  <2>2. mapping \o <<Boundary, gate>> \in Seq([Atoms -> Sites])  BY <1>4, <1>5, <1>6
  <2>3. mapping' \in Seq([Atoms -> Sites])  BY <1>1, <2>1, <2>2
  <2>4. mapping' # <<>>
    <3>1. CASE layer = -1  BY <1>1, <1>5, <1>6, <3>1
    <3>2. CASE layer # -1  BY <1>1, <1>4, <1>5, <1>6, <3>2
    <3> QED BY <3>1, <3>2
  <2>5. layer' # -1  BY <1>1, <1>6
  <2> QED BY <2>3, <2>4, <2>5 DEF StreamInv
<1>8. PlanInv'
  <2>1. decision' \in [Atoms -> [kind : Kinds, loc : Sites \cup {Nowhere}]]
    BY <1>1 DEF NoDecisions, Undecided, Kinds
  <2> QED BY <1>1, <2>1 DEF PlanInv, Deciding
<1>9. engine # "match" => /\ SyncInv' /\ CommitInv' /\ EveryMappingInjective'
                          /\ ExecutedLegsClean'
  <2> SUFFICES ASSUME engine # "match"
               PROVE  SyncInv' /\ CommitInv' /\ EveryMappingInjective' /\ ExecutedLegsClean'
    OBVIOUS
  <2>1. At0 = LastOf(mapping)  BY <1>1, <1>2 DEF IInv, SyncInv
  <2>2. Boundary = At1 /\ gate = At2
    BY <1>2, <2>1, BoundaryIsBackPhase DEF gate
  <2>3. /\ Injective(At1) /\ Injective(At2)
        /\ ~native => CleanPhase(At0, At1) /\ CleanPhase(At1, At2)
    BY <1>1 DEF IInv, CommitInv
  <2>4. At0' = At2  BY <1>2, CommitRegistry
  <2>5. layer = -1 => Len(mapping) = 1  BY <1>1, <1>2 DEF StreamInv
  <2>6. CASE layer = -1
    <3>1. mapping' = Append(mapping, gate) /\ Len(mapping) = 1  BY <1>1, <2>5, <2>6
    <3>2. Len(mapping') = 2 /\ mapping'[2] = gate /\ mapping'[1] = mapping[1]
      <4>1. PICK s \in Seq([Atoms -> Sites]) : s = mapping  BY <1>6
      <4>2. PICK g \in [Atoms -> Sites] : g = gate  BY <1>5
      <4>3. Append(s, g) = mapping' /\ Len(s) = 1  BY <3>1, <4>1, <4>2
      <4>4. Len(Append(s, g)) = 2 /\ Append(s, g)[2] = g /\ Append(s, g)[1] = s[1]
        BY <4>3, AppendToOne
      <4> QED BY <4>1, <4>2, <4>3, <4>4
    <3>3. EveryMappingInjective'
      BY <1>6, <1>7, <2>2, <2>3, <3>1, <3>2 DEF IInv, EveryMappingInjective, StreamInv
    <3>4. LastOf(mapping)' = gate  BY <3>2 DEF LastOf
    <3>5. SyncInv' /\ CommitInv'
      BY <1>1, <2>2, <2>3, <2>4, <3>4 DEF SyncInv, CommitInv, Deciding
    <3>6. ExecutedLegsClean'  BY <3>2 DEF ExecutedLegsClean, LastLegsClean
    <3> QED BY <3>3, <3>5, <3>6
  <2>7. CASE layer # -1
    <3>0. PICK n \in Nat : n = Len(mapping)  BY <1>6
    <3>1. mapping' = mapping \o <<Boundary, gate>>  BY <1>1, <2>7
    <3>2. /\ n >= 1 /\ Len(mapping') = n + 2
          /\ mapping'[n + 1] = Boundary /\ mapping'[n + 2] = gate
          /\ \A i \in 1..n : mapping'[i] = mapping[i]
      BY <1>4, <1>5, <1>6, <3>0, <3>1
    <3>3. EveryMappingInjective'
      <4> SUFFICES ASSUME NEW i \in 1..(n + 2) PROVE Injective(mapping'[i])
        BY <1>7, <3>2 DEF EveryMappingInjective, StreamInv
      <4>1. CASE i \in 1..n
        <5>1. Injective(mapping[i])
          BY <1>6, <3>0, <4>1 DEF IInv, EveryMappingInjective
        <5> QED BY <3>2, <4>1, <5>1
      <4>2. CASE i = n + 1  BY <2>2, <2>3, <3>2, <4>2
      <4>3. CASE i = n + 2  BY <2>2, <2>3, <3>2, <4>3
      <4> QED BY <4>1, <4>2, <4>3
    <3>4. LastOf(mapping)' = gate  BY <3>2 DEF LastOf
    <3>5. SyncInv' /\ CommitInv'
      BY <1>1, <2>2, <2>3, <2>4, <3>4 DEF SyncInv, CommitInv, Deciding
    <3>6. ExecutedLegsClean'
      <4> SUFFICES ASSUME ~native PROVE LastLegsClean'
        BY <1>1 DEF ExecutedLegsClean
      <4>1. mapping'[n] = At0  BY <2>1, <3>0, <3>2 DEF LastOf
      <4>2. Len(mapping') - 2 = n /\ Len(mapping') - 1 = n + 1 /\ Len(mapping') = n + 2
        BY <3>2
      <4> QED BY <2>2, <2>3, <3>2, <4>1, <4>2 DEF LastLegsClean, CleanPhase
    <3> QED BY <3>3, <3>5, <3>6
  <2> QED BY <2>6, <2>7
<1> QED BY <1>1, <1>3, <1>7, <1>8, <1>9 DEF IInv, ExecutedLegsClean

LEMMA CommitTerminalStep == IInv /\ CommitTerminal => IInv'
<1> SUFFICES ASSUME IInv, CommitTerminal PROVE IInv'  OBVIOUS
<1>1. /\ pc = "commit" /\ layer + 1 = Rounds /\ pc' \in {"done", "failed"}
      /\ decision' = NoDecisions /\ mapping' = Append(mapping, Boundary)
      /\ UNCHANGED <<program, engine, layer, zoneSeat, storageSite>>
  BY DEF CommitTerminal, config, registry, ForgetRound, Fail
<1>2. RegistryInv /\ StreamInv /\ PlanInv /\ Deciding  BY <1>1 DEF IInv, Deciding
<1>3. /\ RegistryInv' /\ At0' = At0 /\ Rounds' = Rounds
      /\ \A q : Pos(q)' = Pos(q)
  BY <1>1, <1>2, SameRegistry
<1>4. Boundary \in [Atoms -> Sites] /\ LastOf(mapping) \in [Atoms -> Sites]
  BY <1>2, BoundaryIsMapping
<1>5. mapping \in Seq([Atoms -> Sites]) /\ mapping # <<>>  BY <1>2 DEF StreamInv
<1>6. PICK n \in Nat : n = Len(mapping)  BY <1>5
<1>7. /\ Len(mapping') = n + 1 /\ mapping'[n + 1] = Boundary
      /\ \A i \in 1..n : mapping'[i] = mapping[i]
  BY <1>1, <1>4, <1>5, <1>6
<1>8. StreamInv'
  <2>1. mapping' \in Seq([Atoms -> Sites])  BY <1>1, <1>4, <1>5
  <2> QED BY <1>1, <1>7, <2>1 DEF StreamInv
<1>9. PlanInv'
  <2>1. decision' \in [Atoms -> [kind : Kinds, loc : Sites \cup {Nowhere}]]
    BY <1>1 DEF NoDecisions, Undecided, Kinds
  <2> QED BY <1>1, <2>1 DEF PlanInv, Deciding
<1>10. engine # "match" => SyncInv' /\ CommitInv' /\ EveryMappingInjective'
  <2> SUFFICES ASSUME engine # "match"
               PROVE  SyncInv' /\ CommitInv' /\ EveryMappingInjective'
    OBVIOUS
  <2>1. /\ Injective(At0)
        /\ \A q \in Atoms : IF q \in Movers THEN decision[q].loc = Pos(q)
                            ELSE Pos(q) = LastOf(mapping)[q]
    BY <1>1, <1>2 DEF IInv, SyncInv
  <2>2. Boundary = At0  BY <2>1 DEF Boundary, At0
  <2>3. LastOf(mapping)' = Boundary  BY <1>7 DEF LastOf
  <2>4. SyncInv' /\ CommitInv'
    BY <1>1, <1>3, <2>1, <2>2, <2>3 DEF SyncInv, CommitInv, Deciding
  <2>5. EveryMappingInjective'
    <3> SUFFICES ASSUME NEW i \in 1..(n + 1) PROVE Injective(mapping'[i])
      BY <1>7, <1>8 DEF EveryMappingInjective, StreamInv
    <3>1. CASE i \in 1..n
      <4>1. Injective(mapping[i])
        BY <1>5, <1>6, <3>1 DEF IInv, EveryMappingInjective
      <4> QED BY <1>7, <3>1, <4>1
    <3>2. CASE i = n + 1  BY <1>7, <2>1, <2>2, <3>2
    <3> QED BY <3>1, <3>2
  <2> QED BY <2>4, <2>5
<1>11. ExecutedLegsClean'  BY <1>1 DEF ExecutedLegsClean
<1> QED BY <1>1, <1>3, <1>8, <1>9, <1>10, <1>11 DEF IInv

-----------------------------------------------------------------------------
LEMMA InitHolds == Init => IInv
<1> SUFFICES ASSUME Init PROVE IInv  OBVIOUS
<1>1. \A q \in Atoms : Homes[q] \in Storage /\ Homes[q] # Nowhere
  BY PlacerAssumption DEF Sites
<1>2. \A q \in Atoms : zoneSeat[q] = Nowhere /\ storageSite[q] = Homes[q]
  BY DEF Init, Unseated
<1>3. RegistryInv
  <2>1. program \in Programs /\ layer = -1  BY DEF Init
  <2>2. program \in Seq(Seq(Atoms \X Atoms))  BY <2>1, PlacerAssumption
  <2>3. Rounds \in Nat  BY <2>2 DEF Rounds
  <2>4. LedgerIsPartition  BY <1>1, <1>2 DEF LedgerIsPartition
  <2>5. /\ zoneSeat \in [Atoms -> Seats \cup {Nowhere}]
        /\ storageSite \in [Atoms -> Storage \cup {Nowhere}]
    BY <1>1, PlacerAssumption DEF Init, Unseated
  <2> QED BY <2>1, <2>3, <2>4, <2>5 DEF RegistryInv
<1>4. Homes \in [Atoms -> Sites]  BY PlacerAssumption DEF Sites
<1>5. StreamInv  BY <1>4 DEF Init, StreamInv
<1>6. PlanInv
  <2>1. decision = [q \in Atoms |-> [kind |-> "none", loc |-> Nowhere]]
    BY DEF Init, NoDecisions, Undecided
  <2> QED BY <2>1 DEF Init, PlanInv, Deciding, Kinds
<1>7. At0 = Homes  BY <1>2, PlacerAssumption DEF At0, Pos
<1>8. Injective(Homes)  BY PlacerAssumption DEF Injective
<1>9. mapping = <<Homes>> /\ Len(mapping) = 1 /\ mapping[1] = Homes /\ DOMAIN mapping = {1}
  BY DEF Init
<1>10. SyncInv /\ CommitInv
  BY <1>7, <1>8, <1>9 DEF Init, SyncInv, CommitInv, Deciding, LastOf
<1>11. EveryMappingInjective  BY <1>8, <1>9 DEF EveryMappingInjective
<1>12. ExecutedLegsClean  BY <1>9 DEF ExecutedLegsClean, LastLegsClean
<1> QED BY <1>3, <1>5, <1>6, <1>10, <1>11, <1>12 DEF IInv

LEMMA NextHolds == IInv /\ [Next]_vars => IInv'
<1> SUFFICES ASSUME IInv, [Next]_vars PROVE IInv'  OBVIOUS
<1>1. CASE UNCHANGED vars
  <2>1. /\ UNCHANGED <<program, engine, layer, pc, zoneSeat, storageSite, mapping,
                       decision, seat, native, todo>>
    BY <1>1 DEF vars, config, registry, plan, repair
  <2>2. /\ RegistryInv' /\ At0' = At0 /\ Players' = Players /\ Rounds' = Rounds
        /\ (\A q, e : DecisionOK(q, e)' <=> DecisionOK(q, e)) /\ \A q : Pos(q)' = Pos(q)
    BY <2>1, SameRegistry DEF IInv
  <2>3. At1' = At1 /\ At2' = At2 /\ Movers' = Movers  BY <2>1, SamePlan
  <2>4. LastOf(mapping)' = LastOf(mapping)  BY <2>1 DEF LastOf
  <2>5. StreamInv' /\ EveryMappingInjective' = EveryMappingInjective
    BY <2>1 DEF IInv, StreamInv, EveryMappingInjective
  <2>6. PlanInv'  BY <2>1, <2>2 DEF IInv, PlanInv, Deciding
  <2>7. engine # "match" => SyncInv' /\ CommitInv'
    BY <2>1, <2>2, <2>3, <2>4 DEF IInv, SyncInv, CommitInv, Deciding
  <2>8. ExecutedLegsClean'
    BY <2>1 DEF IInv, ExecutedLegsClean, LastLegsClean
  <2> QED BY <2>1, <2>2, <2>5, <2>6, <2>7, <2>8 DEF IInv
<1> QED
  BY <1>1, PlanRoundStep, DecideLazyStep, GaStepStep, GaStepNoMenuStep, RichRefusedStep,
     RichStepStep, RepairDoneStep, RepairRoundStep, RepairFailedStep, FixIssueStep,
     CommitRoundStep, TerminalStep, CommitTerminalStep DEF Next

LEMMA Inductive == Spec => []IInv
BY InitHolds, NextHolds, PTL DEF Spec

(* The registry has each atom in exactly one of its two ledgers, at every   *)
(* moment of every engine: return_to_storage and enter_zone never lose one. *)
THEOREM PartitionAlways == Spec => []LedgerIsPartition
<1>1. IInv => LedgerIsPartition  BY DEF IInv, RegistryInv
<1> QED BY <1>1, Inductive, PTL

(* Between two rounds the registry and the stream agree on every atom, for  *)
(* the engines that bring the registry up to date after the repair.         *)
THEOREM StreamFollowed == Spec => []RegistryFollowsStream
<1>1. IInv => RegistryFollowsStream
  <2> SUFFICES ASSUME IInv, Settled, engine # "match", NEW q \in Atoms
               PROVE  Pos(q) = LastOf(mapping)[q]
    BY DEF RegistryFollowsStream
  <2>1. At0 = LastOf(mapping)  BY DEF IInv, SyncInv, Settled
  <2> QED BY <2>1 DEF At0
<1> QED BY <1>1, Inductive, PTL

(* _assert_contract for those engines: no mapping of the stream seats two   *)
(* atoms on one site, though the valve and the menus permit double bookings:*)
(* a leg always sweeps over the place where it ends, so a repair that finds *)
(* nothing has removed them all.                                            *)
THEOREM ContractKept == Spec => []NeverDoubleBooked
<1>1. IInv => NeverDoubleBooked  BY DEF IInv, NeverDoubleBooked
<1> QED BY <1>1, Inductive, PTL

(* The legs that the repair found clean are the legs that the router is     *)
(* given: nothing the commit does moves an atom under them.                 *)
THEOREM LegsStayClean == Spec => []ExecutedLegsClean
<1>1. IInv => ExecutedLegsClean  BY DEF IInv
<1> QED BY <1>1, Inductive, PTL

-----------------------------------------------------------------------------
(* The rent: what a resident is charged is the distance to its last gate.   *)

(* The last gate of q up to round l was in round r.                         *)
LastGate(q, r, l) == q \in Participants(r) /\ \A e \in (r + 1)..l : q \notin Participants(e)

RentInv ==
  \A q \in Atoms :
    IF zoneSeat[q] = Nowhere THEN idle[q] = 0
    ELSE \E r \in 0..layer : LastGate(q, r, layer) /\ idle[q] = layer - r

LEMMA ReturnsRent ==
  ASSUME RegistryInv, RentInv, NEW R \in SUBSET Residents, NEW sites \in ReturnSites(R),
         ReturnAll(sites), UNCHANGED <<program, layer>>
  PROVE  RentInv'
<1>1. DOMAIN sites = R  BY DEF ReturnSites
<1>2. \A q \in Atoms : /\ zoneSeat'[q] = IF q \in R THEN Nowhere ELSE zoneSeat[q]
                       /\ idle'[q] = IF q \in R THEN 0 ELSE idle[q]
  BY <1>1 DEF ReturnAll
<1>3. \A q, r, l : LastGate(q, r, l)' <=> LastGate(q, r, l)
  BY DEF LastGate, Participants, Gates, Rounds
<1> QED BY <1>2, <1>3 DEF RentInv

LEMMA CommitRent ==
  ASSUME RegistryInv, PlanInv, RentInv, CommitRound
  PROVE  RentInv'
<1>1. /\ pc = "commit" /\ layer + 1 < Rounds /\ layer' = layer + 1 /\ UNCHANGED program
      /\ layer \in Int /\ layer >= -1
  BY DEF CommitRound, config, RegistryInv
<1>2. \A q \in Atoms : /\ zoneSeat'[q] = IF q \in Players THEN seat[q] ELSE SeatAfterBack(q)
                       /\ idle'[q] = IdleAfterPulse(q)
  BY DEF CommitRound
<1>3. \A q, r, l : LastGate(q, r, l)' <=> LastGate(q, r, l)
  BY <1>1 DEF LastGate, Participants, Gates, Rounds
<1> SUFFICES ASSUME NEW q \in Atoms
             PROVE  IF zoneSeat'[q] = Nowhere THEN idle'[q] = 0
                    ELSE \E r \in 0..(layer + 1) :
                           LastGate(q, r, layer + 1) /\ idle'[q] = layer + 1 - r
  BY <1>1, <1>3 DEF RentInv
<1>4. CASE q \in Players
  <2>1. zoneSeat'[q] # Nowhere
    <3>1. seat[q] \in Seats  BY <1>1, <1>4 DEF PlanInv
    <3> QED BY <1>2, <1>4, <3>1, PlacerAssumption DEF Sites
  <2>2. idle'[q] = 0  BY <1>2, <1>4 DEF IdleAfterPulse
  <2>3. LastGate(q, layer + 1, layer + 1)
    BY <1>1, <1>4 DEF LastGate, Players
  <2> QED BY <1>1, <2>1, <2>2, <2>3
<1>5. CASE q \notin Players /\ SeatAfterBack(q) = Nowhere
  BY <1>2, <1>5 DEF IdleAfterPulse
<1>6. CASE q \notin Players /\ SeatAfterBack(q) # Nowhere
  <2>1. zoneSeat'[q] # Nowhere /\ idle'[q] = idle[q] + 1
    BY <1>2, <1>6 DEF IdleAfterPulse
  <2>2. zoneSeat[q] # Nowhere
    <3>1. DecisionOK(q, decision[q])  BY <1>1 DEF PlanInv, Deciding
    <3> QED BY <1>6, <3>1 DEF SeatAfterBack, DecisionOK
  <2>3. PICK r \in 0..layer : LastGate(q, r, layer) /\ idle[q] = layer - r
    BY <2>2 DEF RentInv
  <2>4. LastGate(q, r, layer + 1)
    <3> SUFFICES ASSUME NEW e \in (r + 1)..(layer + 1) PROVE q \notin Participants(e)
      BY <2>3 DEF LastGate
    <3>1. CASE e = layer + 1  BY <1>6, <3>1 DEF Players
    <3>2. CASE e # layer + 1
      <4>1. e \in (r + 1)..layer  BY <1>1, <3>2
      <4> QED BY <2>3, <4>1 DEF LastGate
    <3> QED BY <3>1, <3>2
  <2>5. r \in 0..(layer + 1) /\ idle'[q] = layer + 1 - r  BY <1>1, <2>1, <2>3
  <2> QED BY <2>1, <2>4, <2>5
<1> QED BY <1>4, <1>5, <1>6

LEMMA RentUndisturbed ==
  ASSUME RentInv, UNCHANGED <<program, layer, zoneSeat, idle>>
  PROVE  RentInv'
<1>1. \A q, r, l : LastGate(q, r, l)' <=> LastGate(q, r, l)
  BY DEF LastGate, Participants, Gates, Rounds
<1> QED BY <1>1 DEF RentInv

LEMMA RentNext == IInv /\ RentInv /\ [Next]_vars => RentInv'
<1> SUFFICES ASSUME IInv, RentInv, [Next]_vars PROVE RentInv'  OBVIOUS
<1>1. CASE CommitRound  BY <1>1, CommitRent DEF IInv
<1>2. CASE DecideLazy
  <2> DEFINE pool == Residents \ (Players \cup InTheWay)
             retained == Cardinality(Residents) - Cardinality(InTheWay)
  <2>0. PICK e \in Evictions(pool, retained) :
          \E sites \in ReturnSites(InTheWay \cup e) : ReturnAll(sites)
    BY <1>2 DEF DecideLazy
  <2>1. PICK sites \in ReturnSites(InTheWay \cup e) : ReturnAll(sites)  BY <2>0
  <2>2. InTheWay \cup e \in SUBSET Residents  BY DEF Evictions, InTheWay
  <2>3. UNCHANGED <<program, layer>> /\ RegistryInv  BY <1>2 DEF DecideLazy, config, IInv
  <2> QED BY <2>1, <2>2, <2>3, ReturnsRent
<1>3. CASE Terminal
  <2>1. PICK R \in SUBSET Residents : R = IF finalReturn THEN Residents ELSE {}  OBVIOUS
  <2>2. PICK sites \in ReturnSites(R) : ReturnAll(sites)  BY <1>3, <2>1 DEF Terminal
  <2>3. UNCHANGED <<program, layer>> /\ RegistryInv  BY <1>3 DEF Terminal, config, IInv
  <2> QED BY <2>2, <2>3, ReturnsRent
<1>4. CASE UNCHANGED <<program, layer, zoneSeat, idle>>  BY <1>4, RentUndisturbed
<1>5. CASE \/ PlanRound \/ GaStep \/ GaStepNoMenu \/ RichRefused \/ RichStep
           \/ RepairDone \/ RepairRound \/ RepairFailed \/ FixIssue \/ CommitTerminal
           \/ UNCHANGED vars
  BY <1>4, <1>5 DEF PlanRound, GaStep, GaStepNoMenu, RichRefused, RichStep, RepairDone,
       RepairRound, RepairFailed, FixIssue, CommitTerminal, vars, config, registry
<1> QED BY <1>1, <1>2, <1>3, <1>5 DEF Next

(* The last gate is one round.                                              *)
LEMMA LastGateUnique ==
  ASSUME NEW q, NEW l \in Int, NEW r \in 0..l, LastGate(q, r, l)
  PROVE  r = CHOOSE s \in 0..l : /\ q \in Participants(s)
                                 /\ \A e \in (s + 1)..l : q \notin Participants(e)
<1>1. ASSUME NEW s \in 0..l, LastGate(q, s, l) PROVE s = r
  <2>1. ~(s < r)  BY <1>1 DEF LastGate
  <2>2. ~(r < s)  BY <1>1 DEF LastGate
  <2> QED BY <2>1, <2>2
<1> QED BY <1>1 DEF LastGate

(* The rent a resident is charged counts the pulses since its last gate.    *)
THEOREM RentIsCounted == Spec => []RentCountsIdlePulses
<1>1. Init => RentInv  BY DEF Init, RentInv, Unseated
<1>2. IInv /\ RentInv => RentCountsIdlePulses
  <2> SUFFICES ASSUME IInv, RentInv, NEW q \in Atoms
      PROVE  idle[q] = IF zoneSeat[q] = Nowhere THEN 0
              ELSE layer - CHOOSE r \in 0..layer : /\ q \in Participants(r)
                                                   /\ \A e \in (r + 1)..layer :
                                                        q \notin Participants(e)
    BY DEF RentCountsIdlePulses
  <2>1. CASE zoneSeat[q] = Nowhere  BY <2>1 DEF RentInv
  <2>2. CASE zoneSeat[q] # Nowhere
    <3>1. PICK r \in 0..layer : LastGate(q, r, layer) /\ idle[q] = layer - r
      BY <2>2 DEF RentInv
    <3>2. layer \in Int  BY DEF IInv, RegistryInv
    <3> QED BY <2>2, <3>1, <3>2, LastGateUnique
  <2> QED BY <2>1, <2>2
<1> QED BY <1>1, <1>2, Inductive, RentNext, PTL DEF Spec

-----------------------------------------------------------------------------
(* The audit of the second schema.                                          *)

(* What the audited scheduler has committed and what it must still show:    *)
(* the candidate taken as it was promises exactly its own two mappings.     *)
Entries == [Atoms -> Sites] \X [Atoms -> Sites]
GateMapping == [q \in Atoms |-> IF q \in Players THEN seat[q] ELSE Boundary[q]]
Promise == routed \o <<SourceCommitted, <<GateMapping, GateMapping>>>>

AuditInv ==
  /\ routed \in Seq(Entries) /\ failure # "audit"
  /\ engine # "rich" => expected = <<>>
  /\ pc \in {"decide", "repair"} => ~native
  /\ layer = -1 => expected = <<>>
  /\ pc = "plan" => expected \in {<<>>, Prefix}
  /\ Deciding /\ layer + 1 = Rounds => expected \in {<<>>, Prefix}
  /\ Deciding /\ layer + 1 < Rounds /\ native =>
       engine = "rich" /\ layer >= 0 /\ expected = Promise
  /\ Deciding /\ layer + 1 < Rounds /\ ~native => expected = <<>>

LEMMA RoundsAreInt == RegistryInv => Rounds \in Nat /\ layer \in Int /\ layer >= -1
BY PlacerAssumption DEF RegistryInv, Rounds

LEMMA PromiseIsPrefix ==
  ASSUME NEW S, NEW s \in Seq(S), NEW a \in S, NEW b \in S
  PROVE  Append(Append(s, a), b) = s \o <<a, b>>
OBVIOUS

(* Steps that neither decide nor commit: what was planned is undecided.     *)
LEMMA AuditPlanned ==
  ASSUME AuditInv, RegistryInv, pc = "plan", layer + 1 < Rounds,
         engine # "rich" \/ layer = -1, ~native', pc' \in {"decide", "repair"},
         UNCHANGED <<program, engine, layer, failure, routed, expected>>
  PROVE  AuditInv'
<1>1. Rounds' = Rounds  BY DEF Rounds
<1>2. layer + 1 # Rounds  BY RoundsAreInt
<1>3. expected = <<>>  BY DEF AuditInv
<1> QED BY <1>1, <1>2, <1>3 DEF AuditInv, Deciding

LEMMA AuditFailed ==
  ASSUME AuditInv, pc' = "failed", failure' # "audit",
         UNCHANGED <<program, engine, layer, routed>>,
         engine # "rich" \/ layer = -1 => expected' = expected
  PROVE  AuditInv'
BY DEF AuditInv, Deciding

LEMMA AuditRich ==
  ASSUME AuditInv, RegistryInv, StreamInv, RichStep
  PROVE  AuditInv'
<1>1. /\ pc = "plan" /\ engine = "rich" /\ layer >= 0 /\ layer + 1 < Rounds
      /\ UNCHANGED <<program, engine, layer, zoneSeat, storageSite, mapping, routed>>
  BY DEF RichStep, config, registry
<1>2. Rounds' = Rounds /\ Players' = Players /\ layer + 1 # Rounds /\ layer # -1
  BY <1>1, RoundsAreInt DEF Players, Participants, Gates, Rounds
<1>3. PICK d \in RichDecisions, m \in Matchings :
        /\ decision' = d /\ seat' = Placement(m)
        /\ \/ /\ native' = TRUE /\ pc' = "commit" /\ failure' = failure
              /\ LET back == [q \in Atoms |-> IF d[q].kind \in Moving THEN d[q].loc
                                              ELSE LastOf(mapping)[q]]
                     gate == [q \in Atoms |-> IF q \in Players THEN Placement(m)[q]
                                              ELSE back[q]]
                 IN expected' = routed \o <<<<LastOf(mapping), back>>, <<gate, gate>>>>
           \/ /\ native' = FALSE /\ expected' = <<>> /\ StartRepair /\ failure' = failure
           \/ pc' = "failed" /\ failure' = "capacity" /\ expected' = expected
  BY DEF RichStep, Fail
<1>4. CASE /\ native' = TRUE /\ pc' = "commit" /\ failure' = failure
           /\ LET back == [q \in Atoms |-> IF d[q].kind \in Moving THEN d[q].loc
                                           ELSE LastOf(mapping)[q]]
                  gate == [q \in Atoms |-> IF q \in Players THEN Placement(m)[q]
                                           ELSE back[q]]
              IN expected' = routed \o <<<<LastOf(mapping), back>>, <<gate, gate>>>>
  <2>1. LastOf(mapping)' = LastOf(mapping)  BY <1>1 DEF LastOf
  <2>2. Boundary' = [q \in Atoms |-> IF d[q].kind \in Moving THEN d[q].loc
                                     ELSE LastOf(mapping)[q]]
    BY <1>3, <2>1 DEF Boundary, Movers
  <2>3. GateMapping' = [q \in Atoms |-> IF q \in Players THEN Placement(m)[q]
                                        ELSE Boundary'[q]]
    BY <1>2, <1>3 DEF GateMapping
  <2>4. expected' = Promise'
    BY <1>1, <1>4, <2>1, <2>2, <2>3 DEF Promise, SourceCommitted
  <2> QED BY <1>1, <1>2, <1>4, <2>4 DEF AuditInv, Deciding
<1>5. CASE native' = FALSE /\ expected' = <<>> /\ StartRepair /\ failure' = failure
  BY <1>1, <1>2, <1>5 DEF AuditInv, Deciding, StartRepair
<1>6. CASE pc' = "failed" /\ failure' = "capacity" /\ expected' = expected
  BY <1>1, <1>6, AuditFailed
<1> QED BY <1>3, <1>4, <1>5, <1>6

(* The audit of the commit: the promise has become the prefix that the next *)
(* boundary starts from.                                                    *)
LEMMA AuditCommit ==
  ASSUME AuditInv, RegistryInv, StreamInv, PlanInv, CommitRound
  PROVE  AuditInv'
<1>1. /\ pc = "commit" /\ pc' = "plan" /\ layer + 1 < Rounds /\ layer' = layer + 1
      /\ UNCHANGED <<program, engine, failure, native, expected>>
      /\ mapping' = IF layer = -1 THEN Append(mapping, GateMapping)
                    ELSE mapping \o <<Boundary, GateMapping>>
      /\ routed' = IF engine = "rich" /\ layer >= 0 THEN Append(routed, SourceCommitted)
                   ELSE routed
  BY DEF CommitRound, config, GateMapping
<1>2. Deciding  BY <1>1 DEF Deciding
<1>3. LastOf(mapping) \in [Atoms -> Sites] /\ Boundary \in [Atoms -> Sites]
  BY <1>2, BoundaryIsMapping
<1>4. GateMapping \in [Atoms -> Sites]
  <2>1. \A q \in Players : seat[q] \in Sites  BY <1>1 DEF PlanInv, Sites
  <2> QED BY <1>3, <2>1 DEF GateMapping
<1>5. SourceCommitted \in Entries /\ <<GateMapping, GateMapping>> \in Entries
  BY <1>3, <1>4 DEF SourceCommitted, Entries
<1>6. routed' \in Seq(Entries)  BY <1>1, <1>5 DEF AuditInv
<1>7. layer # -1 => expected \in {<<>>, Prefix'}
  <2> SUFFICES ASSUME layer # -1, expected # <<>> PROVE expected = Prefix'  OBVIOUS
  <2>1. engine = "rich" /\ layer >= 0 /\ expected = Promise
    BY <1>1, <1>2 DEF AuditInv
  <2>2. LastOf(mapping)' = GateMapping
    <3>1. mapping' = mapping \o <<Boundary, GateMapping>>  BY <1>1
    <3> QED BY <1>3, <1>4, <3>1 DEF StreamInv, LastOf
  <2>3. Prefix' = Append(Append(routed, SourceCommitted), <<GateMapping, GateMapping>>)
    BY <1>1, <2>1, <2>2 DEF Prefix
  <2>4. PICK a \in Entries, b \in Entries :
          a = SourceCommitted /\ b = <<GateMapping, GateMapping>>
    BY <1>5
  <2>5. Append(Append(routed, a), b) = routed \o <<a, b>>
    BY PromiseIsPrefix DEF AuditInv
  <2> QED BY <2>1, <2>3, <2>4, <2>5 DEF Promise
<1>8. layer = -1 => expected = <<>>  BY DEF AuditInv
<1>9. layer' # -1  BY <1>1, RoundsAreInt
<1> QED BY <1>1, <1>6, <1>7, <1>8, <1>9 DEF AuditInv, Deciding

LEMMA AuditTerminal ==
  ASSUME AuditInv, RegistryInv, StreamInv, PlanInv, CommitTerminal
  PROVE  AuditInv'
<1>1. /\ pc = "commit" /\ layer + 1 = Rounds
      /\ UNCHANGED <<program, engine, layer, expected>>
      /\ routed' = IF engine = "rich" THEN Append(routed, SourceCommitted) ELSE routed
      /\ IF engine = "rich" /\ expected # <<>> /\ Movers # {} THEN Fail("terminal")
         ELSE IF engine = "rich" /\ expected \notin {<<>>, routed'} THEN Fail("audit")
         ELSE pc' = "done" /\ UNCHANGED failure
  BY DEF CommitTerminal, config
<1>2. Deciding  BY <1>1 DEF Deciding
<1>3. LastOf(mapping) \in [Atoms -> Sites] /\ Boundary \in [Atoms -> Sites]
  BY <1>2, BoundaryIsMapping
<1>4. routed' \in Seq(Entries)  BY <1>1, <1>3 DEF AuditInv, Entries, SourceCommitted
<1>5. ASSUME engine = "rich", expected # <<>>, Movers = {} PROVE expected = routed'
  <2>1. expected = Prefix  BY <1>1, <1>2, <1>5 DEF AuditInv
  <2>2. Boundary = LastOf(mapping)  BY <1>3, <1>5 DEF Boundary
  <2> QED BY <1>1, <1>5, <2>1, <2>2 DEF Prefix, SourceCommitted
<1>6. pc' \in {"done", "failed"} /\ failure' # "audit"
  BY <1>1, <1>5 DEF Fail, AuditInv
<1> QED BY <1>1, <1>4, <1>6 DEF AuditInv, Deciding

LEMMA AuditUndisturbed ==
  ASSUME AuditInv, RegistryInv,
         UNCHANGED <<program, engine, layer, failure, native, routed, expected, mapping>>,
         pc' # pc => pc = "repair" /\ pc' = "commit",
         pc # "repair" => UNCHANGED <<decision, seat>>
  PROVE  AuditInv'
<1>1. Rounds' = Rounds /\ Prefix' = Prefix /\ LastOf(mapping)' = LastOf(mapping)
      /\ Players' = Players
  BY DEF Rounds, Prefix, LastOf, Players, Participants, Gates
<1>2. UNCHANGED <<decision, seat>> => Promise' = Promise
  BY <1>1 DEF Promise, SourceCommitted, GateMapping, Boundary, Movers
<1>3. pc = "repair" => ~native  BY DEF AuditInv
<1> QED BY <1>1, <1>2, <1>3 DEF AuditInv, Deciding

LEMMA AuditNext == IInv /\ AuditInv /\ [Next]_vars => AuditInv'
<1> SUFFICES ASSUME IInv, AuditInv, [Next]_vars PROVE AuditInv'  OBVIOUS
<1>0. RegistryInv /\ StreamInv /\ PlanInv  BY DEF IInv
<1>1. CASE PlanRound
  <2>1. engine # "rich" \/ layer = -1  BY <1>1 DEF PlanRound
  <2> QED BY <1>0, <1>1, <2>1, AuditPlanned DEF PlanRound, StartRepair, config, audit
<1>2. CASE DecideLazy
  <2>1. engine = "match" /\ pc = "decide" /\ pc' = "repair"
    BY <1>2 DEF DecideLazy, StartRepair, IInv, SyncInv
  <2>2. UNCHANGED <<program, engine, layer, failure, native, routed, expected, mapping>>
    BY <1>2 DEF DecideLazy, config, audit
  <2> QED BY <2>1, <2>2 DEF AuditInv, Deciding
<1>3. CASE GaStep
  BY <1>0, <1>3, AuditPlanned DEF GaStep, StartRepair, config, audit
<1>4. CASE GaStepNoMenu
  BY <1>4, AuditFailed DEF GaStepNoMenu, Fail, config, audit
<1>5. CASE RichRefused
  <2>1. RichRefusal # "audit"  BY <1>5 DEF RichRefusal, RichRefused, AuditInv
  <2> QED BY <1>5, <2>1, AuditFailed DEF RichRefused, Fail, config, audit
<1>6. CASE RichStep  BY <1>0, <1>6, AuditRich
<1>7. CASE RepairDone
  <2>1. /\ pc = "repair" /\ pc' = "commit"
        /\ UNCHANGED <<program, engine, layer, failure, native, routed, expected, mapping>>
    BY <1>7 DEF RepairDone, config, audit, plan
  <2> QED BY <1>0, <2>1, AuditUndisturbed
<1>8. CASE RepairRound
  <2>1. /\ pc = "repair" /\ pc' = pc
        /\ UNCHANGED <<program, engine, layer, failure, native, routed, expected, mapping>>
    BY <1>8 DEF RepairRound, config, audit, plan
  <2> QED BY <1>0, <2>1, AuditUndisturbed
<1>9. CASE RepairFailed
  BY <1>9, AuditFailed DEF RepairFailed, Fail, config, audit
<1>10. CASE FixIssue
  <2>1. pc = "repair" /\ pc' = pc
        /\ UNCHANGED <<program, engine, layer, failure, native, routed, expected, mapping>>
    BY <1>10 DEF FixIssue, config, audit
  <2> QED BY <1>0, <2>1, AuditUndisturbed
<1>11. CASE CommitRound  BY <1>0, <1>11, AuditCommit
<1>12. CASE Terminal
  <2>1. /\ pc = "plan" /\ pc' = "repair" /\ layer + 1 = Rounds /\ ~native'
        /\ UNCHANGED <<program, engine, layer, failure, routed, expected, mapping>>
    BY <1>12 DEF Terminal, StartRepair, config, audit
  <2>2. Rounds' = Rounds /\ Prefix' = Prefix  BY <2>1 DEF Rounds, Prefix, LastOf
  <2>3. ~(layer + 1 < Rounds)  BY <1>0, <2>1, RoundsAreInt
  <2> QED BY <2>1, <2>2, <2>3 DEF AuditInv, Deciding
<1>13. CASE CommitTerminal  BY <1>0, <1>13, AuditTerminal
<1>14. CASE UNCHANGED vars
  <2>1. UNCHANGED <<program, engine, layer, pc, failure, native, routed, expected, mapping,
                    decision, seat>>
    BY <1>14 DEF vars, config, audit, plan
  <2> QED BY <1>0, <2>1, AuditUndisturbed
<1> QED BY <1>1, <1>2, <1>3, <1>4, <1>5, <1>6, <1>7, <1>8, <1>9, <1>10, <1>11, <1>12,
           <1>13, <1>14 DEF Next

(* The audit never refuses a run: what the scheduler commits boundary by    *)
(* boundary is what the candidates were evaluated with.                     *)
THEOREM AuditNeverRefuses == Spec => []AuditAgrees
<1>1. Init => AuditInv  BY DEF Init, AuditInv, Deciding
<1>2. AuditInv => AuditAgrees  BY DEF AuditInv, AuditAgrees
<1> QED BY <1>1, <1>2, Inductive, AuditNext, PTL DEF Spec

-----------------------------------------------------------------------------
(* The capacity valve, and the solver's bound.                              *)

(* The residents without a gate in the next round that keep a seat.         *)
Kept == {q \in Residents \ Players :
           engine # "match" => decision[q].kind \notin {"RETURN", "PARK"}}

CapacityInv ==
  /\ theta \in Nat
  /\ Deciding /\ layer >= 0 /\ layer + 1 < Rounds /\ engine # "ga" =>
       Kept = {} \/ Cardinality(Kept) + 2 * Len(Target) <= theta
  /\ CapacityHeld

LEMMA AtomsFinite ==
  ASSUME NEW S \in SUBSET Atoms
  PROVE  IsFiniteSet(S) /\ Cardinality(S) \in Nat
<1>1. IsFiniteSet(S)  BY PlacerAssumption, FS_Subset
<1> QED BY <1>1, FS_CardinalityType

LEMMA FewerFit ==
  ASSUME NEW S \in SUBSET Atoms, NEW T \in SUBSET S
  PROVE  Cardinality(T) <= Cardinality(S)
<1>1. IsFiniteSet(S)  BY AtomsFinite
<1> QED BY <1>1, FS_Subset

LEMMA WithoutThem ==
  ASSUME NEW S \in SUBSET Atoms, NEW T \in SUBSET S
  PROVE  Cardinality(S \ T) = Cardinality(S) - Cardinality(T)
<1>1. S \cap T = T  OBVIOUS
<1>2. IsFiniteSet(S)  BY AtomsFinite
<1>3. Cardinality(S \ T) = Cardinality(S) - Cardinality(S \cap T)  BY <1>2, FS_Difference
<1> QED BY <1>1, <1>3

LEMMA Together ==
  ASSUME NEW S \in SUBSET Atoms, NEW T \in SUBSET Atoms
  PROVE  Cardinality(S \cup T) <= Cardinality(S) + Cardinality(T)
<1>1. S \cap T \in SUBSET Atoms  OBVIOUS
<1>2. /\ IsFiniteSet(S) /\ IsFiniteSet(T) /\ Cardinality(S \cap T) \in Nat
      /\ Cardinality(S) \in Nat /\ Cardinality(T) \in Nat
  BY <1>1, AtomsFinite
<1>3. Cardinality(S \cup T) = Cardinality(S) + Cardinality(T) - Cardinality(S \cap T)
  BY <1>2, FS_Union
<1> QED BY <1>2, <1>3

(* A round has at most two atoms for each gate.                             *)
LEMMA TwoPerGate ==
  ASSUME RegistryInv
  PROVE  Len(Target) \in Nat /\ Cardinality(Players) <= 2 * Len(Target)
<1>1. /\ \A i \in DOMAIN Target : Target[i] \in Atoms \X Atoms
      /\ Players \subseteq Atoms
  BY PlayersAreAtoms DEF RegistryInv
<1>2. Target \in Seq(Atoms \X Atoms)
  BY PlacerAssumption DEF RegistryInv, Target, Gates, Rounds
<1>3. PICK n \in Nat : n = Len(Target) /\ DOMAIN Target = 1..n  BY <1>2
<1>4. IsFiniteSet(1..n) /\ Cardinality(1..n) = n
  BY FS_Interval
<1>5. ASSUME NEW k \in 1..2
      PROVE  LET S == {Target[i][k] : i \in 1..n}
             IN  S \in SUBSET Atoms /\ Cardinality(S) <= n
  <2> DEFINE S == {Target[i][k] : i \in 1..n}
             f == [i \in 1..n |-> Target[i][k]]
  <2>1. S \in SUBSET Atoms  BY <1>1, <1>3
  <2>2. f \in Surjection(1..n, S)  BY DEF Surjection
  <2>3. Cardinality(S) <= Cardinality(1..n)
    <3> HIDE DEF S, f
    <3> QED BY <2>2, <1>4, FS_Surjection
  <2> QED BY <2>1, <2>3, <1>4
<1> DEFINE L == {Target[i][1] : i \in 1..n}
           R == {Target[i][2] : i \in 1..n}
<1>6. L \in SUBSET Atoms /\ Cardinality(L) <= n /\ R \in SUBSET Atoms /\ Cardinality(R) <= n
  BY <1>5
<1>7. Players = L \cup R
  <2>1. Players = UNION {{Target[i][1], Target[i][2]} : i \in 1..n}
    BY <1>3 DEF Players, Participants, Target
  <2> QED BY <2>1
<1> HIDE DEF L, R
<1>8. Cardinality(L) \in Nat /\ Cardinality(R) \in Nat /\ Cardinality(L \cup R) \in Nat
  <2>1. L \cup R \in SUBSET Atoms  BY <1>6
  <2> QED BY <1>6, <2>1, AtomsFinite
<1>9. Cardinality(L \cup R) <= Cardinality(L) + Cardinality(R)  BY <1>6, Together
<1> QED BY <1>3, <1>6, <1>7, <1>8, <1>9

(* The valve: what is left besides the atoms of the gates fits with them.   *)
LEMMA ValveFits ==
  ASSUME RegistryInv, theta \in Nat, NEW R \in SUBSET Residents, NEW W \in SUBSET R,
         NEW pool, pool = R \ (Players \cup W),
         NEW retained, retained = Cardinality(R) - Cardinality(W),
         NEW e \in Evictions(pool, retained),
         NEW left, left = R \ (Players \cup W \cup e)
  PROVE  left = {} \/ Cardinality(left) + 2 * Len(Target) <= theta
<1> DEFINE excess == retained + 2 * Len(Target) - theta
<1>1. Len(Target) \in Nat  BY TwoPerGate
<1>2. /\ pool \in SUBSET Atoms /\ e \in SUBSET pool /\ left \in SUBSET Atoms
      /\ R \in SUBSET Atoms /\ W \in SUBSET Atoms
  BY DEF Evictions, Residents
<1>3. /\ IsFiniteSet(pool) /\ Cardinality(pool) \in Nat
      /\ Cardinality(e) \in Nat /\ Cardinality(left) \in Nat
      /\ Cardinality(R) \in Nat /\ Cardinality(W) \in Nat
  BY <1>2, AtomsFinite
<1>4. Cardinality(e) = IF excess <= 0 THEN 0
                       ELSE IF excess < Cardinality(pool) THEN excess ELSE Cardinality(pool)
  BY DEF Evictions
<1>5. W \cup e \in SUBSET R /\ W \cap e = {}  BY <1>2
<1>6. Cardinality(R \ (W \cup e)) = Cardinality(R) - Cardinality(W) - Cardinality(e)
  <2>1. Cardinality(R \ W) = Cardinality(R) - Cardinality(W)  BY <1>2, WithoutThem
  <2>2. R \ W \in SUBSET Atoms /\ e \in SUBSET (R \ W)  BY <1>2
  <2>3. Cardinality((R \ W) \ e) = Cardinality(R \ W) - Cardinality(e)
    BY <2>2, WithoutThem
  <2>4. R \ (W \cup e) = (R \ W) \ e  OBVIOUS
  <2> QED BY <2>1, <2>3, <2>4
<1>7. Cardinality(left) <= Cardinality(R \ (W \cup e))
  <2>1. left \in SUBSET (R \ (W \cup e)) /\ R \ (W \cup e) \in SUBSET Atoms  BY <1>2
  <2> QED BY <2>1, FewerFit
<1>8. CASE excess < Cardinality(pool)
  <2>1. Cardinality(e) >= excess  BY <1>1, <1>3, <1>4, <1>8
  <2> QED BY <1>1, <1>3, <1>6, <1>7, <2>1
<1>9. CASE ~(excess < Cardinality(pool))
  <2>1. Cardinality(e) = Cardinality(pool)
    BY <1>1, <1>3, <1>4, <1>9
  <2>2. e = pool  BY <1>2, <1>3, <2>1, FS_Subset
  <2> QED BY <2>2
<1> QED BY <1>8, <1>9

LEMMA DecideCapacity ==
  ASSUME IInv, CapacityInv, DecideLazy
  PROVE  CapacityInv'
<1>1. /\ pc = "decide" /\ pc' = "repair" /\ engine = "match" /\ RegistryInv
      /\ UNCHANGED <<program, theta, engine, layer>>
  BY DEF DecideLazy, StartRepair, config, IInv, SyncInv
<1>2. PICK W \in SUBSET Residents : W = InTheWay  BY DEF InTheWay
<1>3. PICK S \in SUBSET Residents : S = Residents  OBVIOUS
<1>4. PICK pool, retained : /\ pool = S \ (Players \cup W)
                            /\ retained = Cardinality(S) - Cardinality(W)
  OBVIOUS
<1>5. PICK e \in Evictions(pool, retained) :
        \E sites \in ReturnSites(W \cup e) : ReturnAll(sites)
  BY <1>2, <1>3, <1>4 DEF DecideLazy
<1>6. W \cup e \in SUBSET Residents  BY <1>2, <1>3, <1>4 DEF Evictions
<1>7. PICK sites \in ReturnSites(W \cup e) : ReturnAll(sites)  BY <1>5
<1>8. \A q \in Atoms : zoneSeat'[q] = IF q \in W \cup e THEN Nowhere ELSE zoneSeat[q]
  BY <1>1, <1>6, <1>7, ReturnAllRegistry
<1>9. Residents' = Residents \ (W \cup e)  BY <1>8 DEF Residents
<1>10. Players' = Players /\ Target' = Target
  BY <1>1 DEF Players, Participants, Target, Gates, Rounds
<1>11. PICK left : left = S \ (Players \cup W \cup e)  OBVIOUS
<1>12. Kept' = left  BY <1>1, <1>3, <1>9, <1>10, <1>11 DEF Kept
<1>13. theta \in Nat /\ W \in SUBSET S  BY <1>3 DEF CapacityInv
<1>14. left = {} \/ Cardinality(left) + 2 * Len(Target) <= theta
  BY <1>1, <1>4, <1>11, <1>13, ValveFits
<1> QED BY <1>1, <1>10, <1>12, <1>13, <1>14 DEF CapacityInv, CapacityHeld

(* The solver's bound on who stays is the same one.                         *)
LEMMA RichCapacity ==
  ASSUME IInv, CapacityInv, RichStep
  PROVE  CapacityInv'
<1>1. /\ pc = "plan" /\ pc' # "plan" /\ engine = "rich" /\ RegistryInv
      /\ UNCHANGED <<program, theta, engine, layer, zoneSeat>>
  BY DEF RichStep, StartRepair, Fail, config, registry, IInv
<1>2. PICK d \in RichDecisions : decision' = d  BY DEF RichStep
<1>3. PICK b \in SUBSET Residents :
        d \in Winners(b) /\ Cardinality((Residents \ Players) \ b) <= MaxStays
  BY DEF RichDecisions
<1>4. PICK sites \in ReturnSites(b), other \in OtherSeats(b) : d = RichDecision(sites, other)
  BY <1>3 DEF Winners
<1>5. DOMAIN sites = b  BY DEF ReturnSites
<1>6. \A q \in Atoms : q \in b => d[q].kind \in {"RETURN", "PARK"}
  BY <1>4, <1>5 DEF RichDecision
<1>7. /\ Players' = Players /\ Target' = Target /\ Residents' = Residents
  BY <1>1 DEF Players, Participants, Target, Gates, Rounds, Residents
<1>8. Kept' \in SUBSET ((Residents \ Players) \ b)
  BY <1>1, <1>2, <1>6, <1>7 DEF Kept, Residents
<1>9. PICK S \in SUBSET Atoms : S = (Residents \ Players) \ b  BY DEF Residents
<1>10. PICK K \in SUBSET S : K = Kept'  BY <1>8, <1>9
<1>11. Cardinality(K) <= Cardinality(S) /\ Cardinality(K) \in Nat /\ Cardinality(S) \in Nat
  BY <1>9, <1>10, FewerFit, AtomsFinite
<1>12. Len(Target) \in Nat /\ theta \in Nat  BY <1>1, TwoPerGate DEF CapacityInv
<1>13. Cardinality(K) + 2 * Len(Target) <= theta
  BY <1>3, <1>9, <1>11, <1>12 DEF MaxStays
<1> QED BY <1>1, <1>7, <1>10, <1>12, <1>13 DEF CapacityInv, CapacityHeld

(* Nothing that the repair mends sends one back that was to stay, or brings *)
(* one back that was to leave.                                              *)
LEMMA FixKeepsKind ==
  ASSUME PlanInv, pc = "repair", FixIssue, NEW q \in Atoms
  PROVE  decision'[q].kind \in {"RETURN", "PARK"} <=> decision[q].kind \in {"RETURN", "PARK"}
<1>1. PICK issue : MakeWay(issue) \/ GoElsewhere(issue) \/ MoveGate(issue) \/ NoRemedy(issue)
  BY DEF FixIssue
<1>2. decision \in [Atoms -> [kind : Kinds, loc : Sites \cup {Nowhere}]]  BY DEF PlanInv
<1>3. CASE MakeWay(issue)
  <2>1. PICK s \in NewSeats(issue[3]) :
          decision' = [decision EXCEPT ![issue[3]] = [kind |-> "RESEAT", loc |-> s]]
    BY <1>3 DEF MakeWay
  <2>2. decision[issue[3]].kind \in {"none", "STAY"}  BY <2>1 DEF NewSeats
  <2>3. PICK v : v = issue[3]  OBVIOUS
  <2>4. decision'[q] = IF q = v THEN [kind |-> "RESEAT", loc |-> s] ELSE decision[q]
    BY <1>2, <2>1, <2>3
  <2>5. CASE q = v
    <3>1. decision'[q].kind = "RESEAT"  BY <2>4, <2>5
    <3> QED BY <2>2, <2>3, <2>5, <3>1
  <2>6. CASE q # v  BY <2>4, <2>6
  <2> QED BY <2>5, <2>6
<1>4. CASE GoElsewhere(issue)
  <2>1. PICK s : decision' = [decision EXCEPT ![issue[2]].loc = s]
    BY <1>4 DEF GoElsewhere
  <2>2. decision'[q].kind = decision[q].kind  BY <1>2, <2>1
  <2> QED BY <2>2
<1>5. CASE MoveGate(issue) \/ NoRemedy(issue)  BY <1>5 DEF MoveGate, NoRemedy
<1> QED BY <1>1, <1>3, <1>4, <1>5

LEMMA CapacityUndisturbed ==
  ASSUME CapacityInv, UNCHANGED <<program, theta, engine, layer, zoneSeat>>,
         pc' = "plan" => pc = "plan",
         Deciding' => /\ Deciding
                      /\ \A q \in Atoms : decision'[q].kind \in {"RETURN", "PARK"}
                                            <=> decision[q].kind \in {"RETURN", "PARK"}
  PROVE  CapacityInv'
<1>1. /\ Players' = Players /\ Target' = Target /\ Residents' = Residents /\ Rounds' = Rounds
      /\ Participants(layer)' = Participants(layer)
  BY DEF Players, Participants, Target, Gates, Rounds, Residents
<1>2. Deciding' => Kept' = Kept  BY <1>1 DEF Kept, Residents
<1> QED BY <1>1, <1>2 DEF CapacityInv, CapacityHeld

LEMMA CommitCapacity ==
  ASSUME RegistryInv, PlanInv, CapacityInv, CommitRound
  PROVE  CapacityInv'
<1>1. /\ pc = "commit" /\ pc' = "plan" /\ layer + 1 < Rounds /\ layer' = layer + 1
      /\ UNCHANGED <<program, theta, engine>> /\ theta \in Nat
  BY DEF CommitRound, config, CapacityInv
<1> SUFFICES ASSUME layer >= 0, engine # "ga"
             PROVE  Cardinality(Residents') <= theta \/ Residents' = Players
  <2>1. Participants(layer)' = Players  BY <1>1 DEF Players, Participants, Gates, Rounds
  <2> QED BY <1>1, <2>1, RoundsAreInt DEF CapacityInv, CapacityHeld, Deciding
<1>2. Players \subseteq Atoms  BY PlayersAreAtoms DEF RegistryInv
<1>3. Residents' = Players \cup Kept
  <2>1. \A q \in Atoms : zoneSeat'[q] = IF q \in Players THEN seat[q] ELSE SeatAfterBack(q)
    BY DEF CommitRound
  <2>2. \A q \in Players : seat[q] # Nowhere
    BY <1>1, PlacerAssumption DEF PlanInv, Sites
  <2>3. ASSUME NEW q \in Atoms \ Players
        PROVE  SeatAfterBack(q) # Nowhere <=> q \in Kept
    <3>1. DecisionOK(q, decision[q])  BY <1>1 DEF PlanInv, Deciding
    <3>2. decision[q].kind = "RESEAT" => decision[q].loc # Nowhere /\ zoneSeat[q] # Nowhere
      BY <3>1, PlacerAssumption DEF DecisionOK, Sites
    <3> QED BY <3>2 DEF SeatAfterBack, Kept, Residents
  <2>4. Kept \subseteq Atoms \ Players  BY DEF Kept, Residents
  <2> QED BY <1>2, <2>1, <2>2, <2>3, <2>4 DEF Residents
<1>4. CASE Kept = {}  BY <1>3, <1>4
<1>5. CASE Cardinality(Kept) + 2 * Len(Target) <= theta
  <2>1. PICK P \in SUBSET Atoms, K \in SUBSET Atoms : P = Players /\ K = Kept
    BY <1>2 DEF Kept, Residents
  <2>2. P \cup K \in SUBSET Atoms  OBVIOUS
  <2>3. /\ Cardinality(P \cup K) <= Cardinality(P) + Cardinality(K)
        /\ Cardinality(P) \in Nat /\ Cardinality(K) \in Nat /\ Cardinality(P \cup K) \in Nat
    BY <2>2, Together, AtomsFinite
  <2>4. Len(Target) \in Nat /\ Cardinality(P) <= 2 * Len(Target)  BY <2>1, TwoPerGate
  <2> QED BY <1>1, <1>3, <1>5, <2>1, <2>3, <2>4
<1>6. Kept = {} \/ Cardinality(Kept) + 2 * Len(Target) <= theta
  BY <1>1 DEF CapacityInv, Deciding
<1> QED BY <1>4, <1>5, <1>6

LEMMA CapacityNext == IInv /\ CapacityInv /\ [Next]_vars => CapacityInv'
<1> SUFFICES ASSUME IInv, CapacityInv, [Next]_vars PROVE CapacityInv'  OBVIOUS
<1>0. RegistryInv /\ PlanInv  BY DEF IInv
<1>1. CASE PlanRound
  <2>1. /\ pc' \in {"decide", "repair"} /\ (pc' = "repair" => layer = -1)
        /\ UNCHANGED <<theta, layer>>
    BY <1>1 DEF PlanRound, StartRepair, config
  <2> QED BY <2>1 DEF CapacityInv, CapacityHeld, Deciding
<1>2. CASE DecideLazy  BY <1>2, DecideCapacity
<1>3. CASE GaStep
  <2>1. engine' = "ga" /\ theta' = theta  BY <1>3 DEF GaStep, config
  <2> QED BY <2>1 DEF CapacityInv, CapacityHeld
<1>4. CASE GaStepNoMenu \/ RichRefused \/ RepairFailed \/ CommitTerminal
  <2>1. pc' \in {"failed", "done"} /\ UNCHANGED theta
    BY <1>4 DEF GaStepNoMenu, RichRefused, RepairFailed, CommitTerminal, Fail, config
  <2> QED BY <2>1 DEF CapacityInv, CapacityHeld, Deciding
<1>5. CASE RichStep  BY <1>5, RichCapacity
<1>6. CASE RepairDone \/ RepairRound
  <2>1. /\ pc = "repair" /\ pc' \in {"repair", "commit"}
        /\ UNCHANGED <<program, theta, engine, layer, zoneSeat, decision>>
    BY <1>6 DEF RepairDone, RepairRound, config, registry, plan
  <2> QED BY <2>1, CapacityUndisturbed DEF Deciding
<1>7. CASE FixIssue
  <2>1. /\ pc = "repair" /\ pc' = "repair"
        /\ UNCHANGED <<program, theta, engine, layer, zoneSeat>>
    BY <1>7 DEF FixIssue, config, registry
  <2>2. \A q \in Atoms : decision'[q].kind \in {"RETURN", "PARK"}
                           <=> decision[q].kind \in {"RETURN", "PARK"}
    BY <1>0, <1>7, <2>1, FixKeepsKind
  <2> QED BY <2>1, <2>2, CapacityUndisturbed DEF Deciding
<1>8. CASE CommitRound  BY <1>0, <1>8, CommitCapacity
<1>9. CASE Terminal
  <2>1. /\ pc' = "repair" /\ layer' + 1 = Rounds' /\ UNCHANGED <<program, theta, layer>>
    BY <1>9 DEF Terminal, StartRepair, config, Rounds
  <2>2. ~(layer' + 1 < Rounds')
    <3>1. Rounds' = Rounds  BY <2>1 DEF Rounds
    <3> QED BY <1>0, <2>1, <3>1, RoundsAreInt
  <2> QED BY <2>1, <2>2 DEF CapacityInv, CapacityHeld
<1>10. CASE UNCHANGED vars
  <2>1. UNCHANGED <<program, theta, engine, layer, pc, zoneSeat, decision>>
    BY <1>10 DEF vars, config, registry, plan
  <2> QED BY <2>1, CapacityUndisturbed DEF Deciding
<1> QED BY <1>1, <1>2, <1>3, <1>4, <1>5, <1>6, <1>7, <1>8, <1>9, <1>10 DEF Next

(* After every round but the first, "match" and the audited search leave no *)
(* more atoms in the zone than the capacity, or only those of the gates.    *)
THEOREM ZoneNeverOverfull == Spec => []CapacityHeld
<1>1. Init => CapacityInv
  BY PlacerAssumption DEF Init, CapacityInv, CapacityHeld, Deciding
<1>2. CapacityInv => CapacityHeld  BY DEF CapacityInv
<1> QED BY <1>1, <1>2, Inductive, CapacityNext, PTL DEF Spec
===============================================================================
