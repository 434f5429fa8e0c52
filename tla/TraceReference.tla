---------------------------- MODULE TraceReference ----------------------------
(***************************************************************************)
(* The canonical trace and the two programs that judge a whole one: the    *)
(* physical replay (evaluation/validator.py) and the scorer                *)
(* (evaluation/scorer.py), run on the events in the order adapters.py      *)
(* sorts them into.  What a score counts is given by what it means, not by *)
(* how it is added up.                                                     *)
(***************************************************************************)
EXTENDS Integers, SequencesExt

CONSTANTS
  Atoms, Places,
  Homes,              \* positions of the init event
  Hits(_, _),         \* a set of legs <<from, to>> sweeps over a place
  Compatible(_, _),   \* two legs may ride the AOD together
  OneQTime, RydbergTime, TransferTime   \* the fixed durations

ASSUME TraceAssumption ==
  /\ IsFiniteSet(Atoms)
  /\ Homes \in [Atoms -> Places]
  /\ \A p, q \in Atoms : Homes[p] = Homes[q] => p = q
  /\ {OneQTime, RydbergTime, TransferTime} \subseteq Nat \ {0}

(* An event: its index is its place in the stream, from and to the         *)
(* positions it reports for its atoms, region the atoms a pulse illuminates.*)
Touched(e) == e.atoms \cup e.region
Participants(e) == UNION e.pairs
Illuminated(e) == IF e.region = {} THEN e.atoms ELSE e.region
AodKinds == {"load", "move", "store"}
ByAod(e) == e.kind \in AodKinds
IsGate(e) == e.kind \in {"1q", "2q"}
Lasts(e) == e.start < e.end

Legs(e) == {<<e.from[q], e.to[q]>> : q \in {p \in e.atoms : e.from[p] # e.to[p]}}
Moving(e) == {q \in e.atoms : e.from[q] # e.to[q]}

(* The legs of a move may ride together, and pass over no atom that rests. *)
Clean(e, position) ==
  /\ \A a, b \in Moving(e) :
       a # b => Compatible(<<e.from[a], e.to[a]>>, <<e.from[b], e.to[b]>>)
  /\ \A q \in Atoms \ Moving(e) : ~Hits(Legs(e), position[q])

After(e, position) == [q \in Atoms |-> IF q \in e.atoms THEN e.to[q] ELSE position[q]]

(* ---------------------------- sorting ---------------------------------- *)
KindRank(e) ==
  CASE e.kind = "load" -> 1 [] e.kind = "move" -> 2 [] e.kind = "store" -> 3
    [] e.kind = "1q" -> 4 [] e.kind = "2q" -> 5

SortKey(e) == <<e.start, e.end, KindRank(e), e.index>>

Before(d, e) ==
  LET a == SortKey(d) b == SortKey(e)
  IN \E i \in 1..4 : a[i] < b[i] /\ \A j \in 1..(i - 1) : a[j] = b[j]

Events(trace) == {trace[i] : i \in DOMAIN trace}

(* The event that k - 1 others come before is the k-th.                    *)
Sorted(trace) ==
  [k \in DOMAIN trace |->
     CHOOSE e \in Events(trace) : Cardinality({d \in Events(trace) : Before(d, e)}) = k - 1]

(* ---------------------------- the replay ------------------------------- *)
NoBatch == 0

Fresh == [ok |-> TRUE, beamEnd |-> 0, aodEnd |-> 0, useEnd |-> [q \in Atoms |-> 0],
          position |-> Homes, done |-> {}, active |-> NoBatch,
          held |-> {}, loaded |-> {}, moved |-> FALSE, storing |-> FALSE]

(* What both programs ask of the next event.                               *)
Permitted(r, e) ==
  /\ Lasts(e) => \A q \in Touched(e) : e.start >= r.useEnd[q]
  /\ e.kind = "1q" => e.start >= r.beamEnd
  /\ IsGate(e) => Touched(e) \cap r.held = {}
  /\ ByAod(e) => e.start >= r.aodEnd
  /\ e.kind = "load" =>
       /\ IF r.active = NoBatch THEN e.batch \notin r.done
                                ELSE e.batch = r.active /\ ~r.storing
       /\ e.atoms \cap (r.held \cup r.loaded) = {}
       /\ \A q \in e.atoms : r.position[q] = e.from[q]
  /\ e.kind = "move" =>
       /\ r.active = e.batch /\ ~r.storing
       /\ e.atoms \subseteq r.held
       /\ \A q \in e.atoms : r.position[q] = e.from[q]
       /\ Clean(e, r.position)
  /\ e.kind = "store" =>
       /\ r.active = e.batch /\ r.moved
       /\ e.atoms \subseteq r.held
       /\ \A q \in e.atoms : r.position[q] = e.to[q]
       /\ \A p, q \in Atoms \ (r.held \ e.atoms) :
            r.position[p] = r.position[q] => p = q

(* The batch after an event of the AOD; it is over when nothing is held.   *)
AfterAod(r, e) ==
  CASE e.kind = "load" ->
         [r EXCEPT !.aodEnd = e.end, !.active = e.batch,
                   !.held = @ \cup e.atoms, !.loaded = @ \cup e.atoms]
    [] e.kind = "move" ->
         [r EXCEPT !.aodEnd = e.end, !.moved = TRUE, !.position = After(e, @)]
    [] e.kind = "store" /\ e.atoms # r.held ->
         [r EXCEPT !.aodEnd = e.end, !.storing = TRUE, !.held = @ \ e.atoms]
    [] e.kind = "store" /\ e.atoms = r.held ->
         [r EXCEPT !.aodEnd = e.end, !.done = @ \cup {e.batch}, !.active = NoBatch,
                   !.held = {}, !.loaded = {}, !.moved = FALSE, !.storing = FALSE]

Replay(r, e) ==
  IF ~r.ok \/ ~Permitted(r, e) THEN [r EXCEPT !.ok = FALSE]
  ELSE LET s == IF ByAod(e) THEN AfterAod(r, e) ELSE r
       IN [s EXCEPT
             !.useEnd = [q \in Atoms |-> IF Lasts(e) /\ q \in Touched(e)
                                         THEN e.end ELSE @[q]],
             !.beamEnd = IF e.kind = "1q" THEN e.end ELSE @]

Verdict(trace) == FoldLeft(Replay, Fresh, Sorted(trace))
Accepted(trace) == Verdict(trace).ok /\ Verdict(trace).active = NoBatch

(* ---------------------------- the score -------------------------------- *)
OfKind(trace, kinds) == {e \in Events(trace) : e.kind \in kinds}
Length(trace) == Max({0} \cup {e.end : e \in Events(trace)})

(* The instants at which a gate or a transfer works on an atom.            *)
BusyTime(trace, q) ==
  Cardinality({t \in 0..Length(trace) - 1 :
    \E e \in OfKind(trace, {"1q", "2q", "load", "store"}) :
      q \in e.atoms /\ e.start <= t /\ t < e.end})

Score(trace) ==
  [ones |-> Cardinality(OfKind(trace, {"1q"})),
   twos |-> MapThenSumSet(LAMBDA e : Cardinality(e.pairs), OfKind(trace, {"2q"})),
   excitations |-> MapThenSumSet(LAMBDA e : Cardinality(Illuminated(e) \ Participants(e)),
                                 OfKind(trace, {"2q"})),
   transfers |-> MapThenSumSet(LAMBDA e : Cardinality(e.atoms),
                               OfKind(trace, {"load", "store"})),
   duration |-> Length(trace),
   batches |-> Cardinality({e.batch : e \in OfKind(trace, AodKinds)}),
   moveTime |-> MapThenSumSet(LAMBDA e : e.end - e.start, OfKind(trace, AodKinds)),
   busy |-> [q \in Atoms |-> BusyTime(trace, q)]]
================================================================================
