----------------------------- MODULE TraceReplay -----------------------------
(***************************************************************************)
(* The trace pipeline of the streaming compilers: every event is validated *)
(* and scored as it is generated, by programs that remember a few numbers  *)
(* per atom and no event (streaming/trace_pipeline.py).  A stream comes in *)
(* one of two orders: sorted by start time, or in the order of the         *)
(* dependencies, where an event may start before one that came earlier.    *)
(*                                                                         *)
(* An event that the validator refuses ends the compilation: only accepted *)
(* events are steps.  The history is what the pipeline has let through.    *)
(***************************************************************************)
EXTENDS TraceReference

CONSTANTS
  Orders,       \* the orders offered, of "chronological" and "dependency"
  Rotated,      \* atoms with one-qubit gates
  Pulses,       \* Rydberg pulses: [pairs, region]
  Groups,       \* sets of atoms the AOD loads, moves or stores at once
  MoveTime,     \* duration of a move that goes anywhere
  MaxTime, MaxEvents   \* bounds of the instance

ASSUME StreamAssumption ==
  /\ Orders \subseteq {"chronological", "dependency"}
  /\ Rotated \subseteq Atoms
  /\ \A p \in Pulses : p.region \subseteq Atoms /\ UNION p.pairs \subseteq Atoms
  /\ Groups \subseteq SUBSET Atoms
  /\ MoveTime \in Nat \ {0}

VARIABLES
  order,        \* event_order
  stage,        \* "streaming", "final", or "split": the scorer alone raised
  history,      \* the accepted events
  previousStart,
  physicalEnd, beamEnd, aodEnd,   \* the validator: _physical_end,
  position,     \*   _last_one_qubit_end, _last_aod_end, _positions
  movement,     \* _movement, NoMovement when None
  scorer        \* the scorer's fields

NoMovement == [id |-> NoBatch, held |-> {}, loaded |-> {}, moved |-> FALSE, storing |-> FALSE]

validator == <<physicalEnd, beamEnd, aodEnd, position, movement>>
vars == <<order, stage, history, previousStart, validator, scorer>>

NoBatches == [b \in {} |-> 0]

NothingScored == [ones |-> 0, twos |-> 0, excitations |-> 0, transfers |-> 0,
                  duration |-> 0, batches |-> 0, moveTime |-> 0]

Init ==
  /\ order \in Orders
  /\ stage = "streaming" /\ history = <<>> /\ previousStart = 0
  /\ physicalEnd = [q \in Atoms |-> -1] /\ beamEnd = -1 /\ aodEnd = -1
  /\ position = Homes /\ movement = NoMovement
  /\ scorer = [resourceEnd |-> [q \in Atoms |-> -1], beamEnd |-> -1, aodEnd |-> -1,
               active |-> NoBatch, open |-> NoBatches,
               busy |-> [q \in Atoms |-> [closed |-> 0, begin |-> -1, end |-> -1]],
               totals |-> NothingScored]

-----------------------------------------------------------------------------
(* The validator.                                                           *)

Timed(e) == order = "dependency" \/ Lasts(e)

InOrder(e) == order = "chronological" => e.start >= previousStart

\* Mutant: the illuminated atoms are forgotten.
NoOverlapOfAtoms(e) == Timed(e) => \A q \in e.atoms : e.start >= physicalEnd[q]

NoOverlap(e) == Timed(e) => \A q \in Touched(e) : e.start >= physicalEnd[q]

Bump(end, e) == [q \in Atoms |-> IF q \in Touched(e) THEN e.end ELSE end[q]]

Observe(e) ==
  /\ InOrder(e) /\ NoOverlap(e)
  /\ previousStart' = IF order = "chronological" THEN e.start ELSE Max({previousStart, e.start})
  /\ physicalEnd' = IF Timed(e) THEN Bump(physicalEnd, e) ELSE physicalEnd

Held == movement.held

\* Mutant: the pulse is not asked.
OneQubitAtRest(e) == e.kind = "1q" => e.atoms \cap Held = {}

(* Only what a gate works on must not be held; what it illuminates may be.  *)
AtRest(e) == e.atoms \cap Held = {}

AodInOrder(e) == order = "dependency" => e.start >= aodEnd

UseAod(e) ==
  /\ AodInOrder(e)
  /\ aodEnd' = IF order = "dependency" THEN e.end ELSE aodEnd

(* No two atoms of the event end at one place, nor at another atom's.       *)
EndsFree(e) ==
  /\ \A p, q \in e.atoms : e.to[p] = e.to[q] => p = q
  /\ \A q \in e.atoms : \A p \in Atoms \ e.atoms : e.to[q] # position[p]

Relocate(e) == EndsFree(e) /\ position' = After(e, position)

\* Mutant: a second batch may begin.
MayLoadAnyBatch(e) ==
  /\ ~movement.storing
  /\ e.atoms \cap (Held \cup movement.loaded) = {}
  /\ \A q \in e.atoms : position[q] = e.from[q]

MayLoad(e) ==
  /\ movement = NoMovement \/ (movement.id = e.batch /\ ~movement.storing)
  /\ e.atoms \cap (Held \cup movement.loaded) = {}
  /\ \A q \in e.atoms : position[q] = e.from[q]

MayMove(e) ==
  /\ movement.id = e.batch /\ ~movement.storing
  /\ e.atoms \subseteq Held
  /\ \A q \in e.atoms : position[q] = e.from[q]
  /\ Clean(e, position)

MayStore(e) ==
  /\ movement.id = e.batch /\ movement.moved
  /\ e.atoms \subseteq Held

-----------------------------------------------------------------------------
(* The scorer, which trusts the validator with the places.                  *)

InDependency == order = "dependency"

OpenBatch(e) ==
  IF e.batch \in DOMAIN scorer.open THEN scorer.open[e.batch]
  ELSE [held |-> {}, loaded |-> {}, moved |-> FALSE, storing |-> FALSE, time |-> 0]

ScorerAod(e) ==
  InDependency =>
    /\ e.start >= scorer.aodEnd
    /\ IF e.kind = "load" THEN scorer.active \in {NoBatch, e.batch} ELSE scorer.active = e.batch

ScorerAccepts(e) ==
  LET b == OpenBatch(e)
  IN /\ InDependency => \A q \in Touched(e) : e.start >= scorer.resourceEnd[q]
     /\ InDependency /\ e.kind = "1q" => e.start >= scorer.beamEnd
     /\ ByAod(e) => ScorerAod(e)
     /\ e.kind = "load" => ~b.storing /\ e.atoms \cap b.loaded = {}
     /\ e.kind = "move" => ~b.storing /\ e.atoms \subseteq b.held
     /\ e.kind = "store" => b.moved /\ e.atoms \subseteq b.held

(* The busy intervals of an atom: the last one is kept open.                *)
Extend(i, e) ==
  IF i.begin < 0 THEN [i EXCEPT !.begin = e.start, !.end = e.end]
  ELSE IF e.start <= i.end THEN [i EXCEPT !.end = Max({@, e.end})]
  ELSE [closed |-> i.closed + i.end - i.begin, begin |-> e.start, end |-> e.end]

\* Mutant: the simulator's old mistake, illuminated atoms are busy.
WorksIlluminated(e) == IF e.kind = "move" THEN {} ELSE Touched(e)

(* The atoms that are not idle during an event.                             *)
Works(e) == IF e.kind = "move" THEN {} ELSE e.atoms

BatchAfter(e) ==
  LET b == OpenBatch(e)
  IN [held |-> IF e.kind = "load" THEN b.held \cup e.atoms
               ELSE IF e.kind = "store" THEN b.held \ e.atoms ELSE b.held,
      loaded |-> IF e.kind = "load" THEN b.loaded \cup e.atoms ELSE b.loaded,
      moved |-> b.moved \/ e.kind = "move",
      storing |-> b.storing \/ e.kind = "store",
      time |-> b.time + e.end - e.start]

Closes(e) == e.kind = "store" /\ BatchAfter(e).held = {}

OpenAfter(e) ==
  IF ~ByAod(e) THEN scorer.open
  ELSE IF Closes(e) THEN [x \in DOMAIN scorer.open \ {e.batch} |-> scorer.open[x]]
  ELSE [x \in DOMAIN scorer.open \cup {e.batch} |->
          IF x = e.batch THEN BatchAfter(e) ELSE scorer.open[x]]

ActiveAfter(e) ==
  IF ~(InDependency /\ ByAod(e)) THEN scorer.active
  ELSE IF Closes(e) THEN NoBatch ELSE e.batch

TotalsAfter(e) ==
  LET t == scorer.totals
  IN [ones |-> t.ones + (IF e.kind = "1q" THEN 1 ELSE 0),
      twos |-> t.twos + Cardinality(e.pairs),
      excitations |-> t.excitations
        + (IF e.kind = "2q" THEN Cardinality(Illuminated(e) \ Participants(e)) ELSE 0),
      transfers |-> t.transfers
        + (IF e.kind \in {"load", "store"} THEN Cardinality(e.atoms) ELSE 0),
      duration |-> Max({t.duration, e.end}),
      batches |-> t.batches + (IF Closes(e) THEN 1 ELSE 0),
      moveTime |-> t.moveTime + (IF Closes(e) THEN BatchAfter(e).time ELSE 0)]

ScorerAfter(e) ==
  [resourceEnd |-> IF InDependency THEN Bump(scorer.resourceEnd, e) ELSE scorer.resourceEnd,
   beamEnd |-> IF InDependency /\ e.kind = "1q" THEN e.end ELSE scorer.beamEnd,
   aodEnd |-> IF InDependency /\ ByAod(e) THEN e.end ELSE scorer.aodEnd,
   active |-> ActiveAfter(e), open |-> OpenAfter(e),
   busy |-> [q \in Atoms |-> IF q \in Works(e) THEN Extend(scorer.busy[q], e)
                             ELSE scorer.busy[q]],
   totals |-> TotalsAfter(e)]

(* What follows when the validator lets an event through.                   *)
Consume(e) ==
  /\ stage = "streaming"
  /\ Observe(e)
  /\ history' = Append(history, e)
  /\ IF ScorerAccepts(e)
     THEN scorer' = ScorerAfter(e) /\ stage' = "streaming"
     ELSE stage' = "split" /\ UNCHANGED scorer
  /\ UNCHANGED order

-----------------------------------------------------------------------------
(* The events that are offered.                                             *)

Room == Len(history) < MaxEvents

Event(kind, start, length, atoms) ==
  [kind |-> kind, index |-> Len(history), start |-> start, end |-> start + length,
   atoms |-> atoms, pairs |-> {}, region |-> {}, batch |-> NoBatch,
   from |-> <<>>, to |-> <<>>]

(* An event starts when an earlier one has ended, as those that are booked  *)
(* as early as possible do.                                                 *)
Starts(length) == {t \in {0} \cup {history[i].end : i \in DOMAIN history} :
                     t + length <= MaxTime}

(* A batch has any number used so far or the next one: neither program      *)
(* keeps the numbers of the batches that are over, and a load may bring one *)
(* of them again.                                                           *)
Opened == Cardinality({history[i].batch : i \in DOMAIN history} \ {NoBatch})
Batches == 1..Opened + 1

At(A) == [q \in A |-> position[q]]

OneQubitGate(q, t) ==
  LET e == Event("1q", t, OneQTime, {q})
  IN /\ Room
     /\ e.start >= beamEnd /\ AtRest(e)
     /\ Consume(e)
     /\ beamEnd' = e.end
     /\ UNCHANGED <<aodEnd, position, movement>>

TwoQubitGate(p, t) ==
  LET e == [Event("2q", t, RydbergTime, UNION p.pairs) EXCEPT !.pairs = p.pairs, !.region = p.region]
  IN /\ Room
     /\ AtRest(e)
     /\ Consume(e)
     /\ UNCHANGED <<beamEnd, aodEnd, position, movement>>

Load(b, A, t) ==
  LET e == [Event("load", t, TransferTime, A) EXCEPT !.batch = b, !.from = At(A)]
  IN /\ Room
     /\ UseAod(e) /\ MayLoad(e)
     /\ Consume(e)
     /\ movement' = [movement EXCEPT !.id = b, !.held = @ \cup A, !.loaded = @ \cup A]
     /\ UNCHANGED <<beamEnd, position>>

(* A move takes time when an atom changes its place.                        *)
MoveLength(to) == IF to = At(DOMAIN to) THEN 0 ELSE MoveTime

Move(b, to, t) ==
  LET e == [Event("move", t, MoveLength(to), DOMAIN to)
              EXCEPT !.batch = b, !.from = At(DOMAIN to), !.to = to]
  IN /\ Room
     /\ UseAod(e) /\ MayMove(e) /\ Relocate(e)
     /\ Consume(e)
     /\ movement' = [movement EXCEPT !.moved = TRUE]
     /\ UNCHANGED beamEnd

(* A store reports the place its atoms are at, as every producer's does;    *)
(* the validator takes them to be wherever it says.                         *)
Store(b, A, t) ==
  LET e == [Event("store", t, TransferTime, A) EXCEPT !.batch = b, !.to = At(A)]
  IN /\ Room
     /\ UseAod(e) /\ MayStore(e) /\ Relocate(e)
     /\ Consume(e)
     /\ movement' = IF A = Held THEN NoMovement
                    ELSE [movement EXCEPT !.held = @ \ A, !.storing = TRUE]
     /\ UNCHANGED beamEnd

(* The validator is asked first; the scorer may still have a batch open.    *)
Finalize ==
  /\ stage = "streaming" /\ movement = NoMovement
  /\ stage' = IF DOMAIN scorer.open = {} THEN "final" ELSE "split"
  /\ UNCHANGED <<order, history, previousStart, validator, scorer>>

Next ==
  \/ \E q \in Rotated, t \in Starts(OneQTime) : OneQubitGate(q, t)
  \/ \E p \in Pulses, t \in Starts(RydbergTime) : TwoQubitGate(p, t)
  \/ \E b \in Batches, A \in Groups, t \in Starts(TransferTime) : Load(b, A, t)
  \/ \E b \in Batches, A \in Groups : \E to \in [A -> Places] :
       \E t \in Starts(MoveLength(to)) : Move(b, to, t)
  \/ \E b \in Batches, A \in Groups, t \in Starts(TransferTime) : Store(b, A, t)
  \/ Finalize

Spec == Init /\ [][Next]_vars

-----------------------------------------------------------------------------
BusyOf(i) == IF i.begin < 0 THEN 0 ELSE i.closed + i.end - i.begin

(* Whatever the validator lets through the scorer follows: it raises on no  *)
(* event alone, neither as it comes nor at the end, and its open batches    *)
(* are at all times the one movement of the validator.                      *)
ScorerFollows ==
  /\ stage # "split"
  /\ DOMAIN scorer.open = IF movement = NoMovement THEN {} ELSE {movement.id}
  /\ \A b \in DOMAIN scorer.open :
       /\ scorer.open[b].held = movement.held /\ scorer.open[b].loaded = movement.loaded
       /\ scorer.open[b].moved = movement.moved /\ scorer.open[b].storing = movement.storing

(* Between the start of the load and the end of the store that carry an     *)
(* atom no gate works on it, in whichever order the three came.             *)
Carry(q, l, s) ==
  /\ l.kind = "load" /\ s.kind = "store" /\ l.index < s.index
  /\ \A d \in OfKind(history, {"store"}) :
       q \in d.atoms => d.index < l.index \/ s.index <= d.index

GatesAtRest ==
  \A l, s, g \in Events(history) : \A q \in l.atoms \cap s.atoms \cap g.atoms :
    IsGate(g) /\ Carry(q, l, s) => g.end <= l.start \/ s.end <= g.start

(* The atoms, the one-qubit beam and, in the order of dependencies, the AOD *)
(* are booked without overlap: no event is ever let through into time that  *)
(* an earlier one has.                                                      *)
Uses(e) ==
  {<<"atom", q>> : q \in {p \in Touched(e) : Timed(e)}}
    \cup (IF e.kind = "1q" THEN {<<"beam", 0>>} ELSE {})
    \cup (IF ByAod(e) /\ InDependency THEN {<<"aod", 0>>} ELSE {})

Slots(e) == {[res |-> r, by |-> e.index, from |-> e.start, to |-> e.end] : r \in Uses(e)}

Bookings == UNION {Slots(e) : e \in Events(history)}

Timeline == INSTANCE ExclusiveTimeline WITH booked <- Bookings
ImplementsTimeline == Timeline!Spec

(* Where the pipeline asks less than the reference: operations of the AOD   *)
(* that overlap in a chronological stream, an atom illuminated while it is  *)
(* carried, and the number of a batch that is over used for another one.    *)
AodOverlaps ==
  /\ order = "chronological"
  /\ \E d, e \in OfKind(history, AodKinds) : d.index < e.index /\ e.start < d.end

CarriedAt(q, i) ==
  LET transfers == {j \in 1..i : history[j].kind \in {"load", "store"} /\ q \in history[j].atoms}
  IN transfers # {} /\ history[Max(transfers)].kind = "load"

LitWhileCarried ==
  \E i \in DOMAIN history :
    /\ history[i].kind = "2q"
    /\ \E q \in history[i].region : CarriedAt(q, i - 1)

(* No load follows a store of its own batch: it begins another one.         *)
BatchReused ==
  \E s, l \in Events(history) :
    s.kind = "store" /\ l.kind = "load" /\ s.batch = l.batch /\ s.index < l.index

ScoreOf(t) ==
  [ones |-> t.ones, twos |-> t.twos, excitations |-> t.excitations, transfers |-> t.transfers,
   duration |-> t.duration, batches |-> t.batches, moveTime |-> t.moveTime,
   busy |-> [q \in Atoms |-> BusyOf(scorer.busy[q])]]

(* A stream that was accepted to its end, in either order, is accepted by   *)
(* the reference once its events are sorted, and is given the same score,   *)
(* the three gaps excepted: "Numerically equivalent", trace_pipeline.py:556.*)
ReferenceAgrees ==
  stage = "final" =>
    \/ AodOverlaps \/ LitWhileCarried \/ BatchReused
    \/ Accepted(history) /\ Score(history) = ScoreOf(scorer.totals)
=============================================================================
