-------------------------- MODULE TraceReplayProofs --------------------------
(***************************************************************************)
(* Proofs about the trace pipeline, for every set of atoms, every geometry *)
(* and every stream in either order: the scorer never parts from the       *)
(* validator, no gate works on an atom while it is carried, the resources  *)
(* are booked without overlap, and the programs that judge a whole trace   *)
(* after sorting it agree with the ones that judged it event by event.     *)
(***************************************************************************)
EXTENDS TraceReplay, RecursionLemmas, FiniteSetTheorems

Kinds == {"1q", "2q", "load", "move", "store"}

EventOK(e) ==
  /\ e.kind \in Kinds
  /\ e.start \in Int /\ e.end \in Int /\ e.start <= e.end
  /\ e.kind # "move" => Lasts(e)
  /\ e.atoms \subseteq Atoms /\ e.region \subseteq Atoms
  /\ e.batch \in Nat /\ (ByAod(e) <=> e.batch # NoBatch)

MovementType == [id : Nat, held : SUBSET Atoms, loaded : SUBSET Atoms,
                 moved : BOOLEAN, storing : BOOLEAN]

(* The history is a sequence of well-formed events.                         *)
HistoryInv ==
  /\ history \in Seq(Events(history))
  /\ \A e \in Events(history) : EventOK(e)

ClockInv ==
  /\ order \in {"chronological", "dependency"}
  /\ physicalEnd \in [Atoms -> Int] /\ beamEnd \in Int /\ aodEnd \in Int

(* Every clock is past the events it has seen.                              *)
EndsInv ==
  \A e \in Events(history) :
    /\ Timed(e) => \A q \in Touched(e) : e.end <= physicalEnd[q]
    /\ e.kind = "1q" => e.end <= beamEnd
    /\ ByAod(e) /\ InDependency => e.end <= aodEnd

MovementInv ==
  /\ movement \in MovementType
  /\ movement.id = NoBatch => movement = NoMovement

(* The scorer's clocks and its open batch are the validator's.              *)
MirrorInv ==
  /\ ScorerFollows
  /\ InDependency =>
       /\ scorer.resourceEnd = physicalEnd /\ scorer.beamEnd = beamEnd
       /\ scorer.aodEnd = aodEnd /\ scorer.active = movement.id

(* The batches so far are numbered from one, the open one among them.       *)
BatchIds == {e.batch : e \in Events(history)} \ {NoBatch}
IdsInv == \E n \in Nat : BatchIds = 1..n /\ movement.id \in 0..n

(* A batch that is over has had a store.                                    *)
StoredInv ==
  \A b \in BatchIds : b # movement.id => \E s \in Events(history) : s.kind = "store" /\ s.batch = b

(* The index of an event is its place in the stream.                        *)
IndexInv == \A e \in Events(history) : e.index \in Int /\ e.index < Len(history)

(* An atom that was not stored since a load is held, and has had its last   *)
(* gate before the load.                                                    *)
StoredSince(q, l) ==
  \E s \in Events(history) : s.kind = "store" /\ q \in s.atoms /\ l.index < s.index

HeldInv ==
  \A l \in Events(history) : \A q \in l.atoms :
    l.kind = "load" /\ ~StoredSince(q, l) =>
      /\ q \in Held
      /\ \A g \in Events(history) : IsGate(g) /\ q \in g.atoms => g.end <= l.start

IInv == HistoryInv /\ ClockInv /\ EndsInv /\ MovementInv /\ MirrorInv /\ IdsInv /\ StoredInv
          /\ IndexInv /\ HeldInv /\ GatesAtRest

(* What an accepted event does to the clocks, and to the movement by kind.  *)
Stepped(e) ==
  /\ EventOK(e) /\ Consume(e)
  /\ e.kind = "1q" => e.start >= beamEnd
  /\ beamEnd' = IF e.kind = "1q" THEN e.end ELSE beamEnd
  /\ ByAod(e) => AodInOrder(e)
  /\ aodEnd' = IF ByAod(e) /\ InDependency THEN e.end ELSE aodEnd

GateStep(e) == Stepped(e) /\ IsGate(e) /\ AtRest(e) /\ movement' = movement

LoadStep(e) ==
  /\ Stepped(e) /\ e.kind = "load" /\ e.batch \in Batches /\ MayLoad(e)
  /\ movement' = [movement EXCEPT !.id = e.batch, !.held = @ \cup e.atoms,
                                  !.loaded = @ \cup e.atoms]

MoveStep(e) ==
  Stepped(e) /\ e.kind = "move" /\ MayMove(e) /\ movement' = [movement EXCEPT !.moved = TRUE]

StoreStep(e) ==
  /\ Stepped(e) /\ e.kind = "store" /\ MayStore(e)
  /\ movement' = IF e.atoms = Held THEN NoMovement
                 ELSE [movement EXCEPT !.held = @ \ e.atoms, !.storing = TRUE]

EventStep(e) == GateStep(e) \/ LoadStep(e) \/ MoveStep(e) \/ StoreStep(e)

(* What an event that is offered looks like, and where it leaves the atoms. *)
Offered(e) ==
  /\ e.index = Len(history)
  /\ e.start = 0 \/ \E i \in DOMAIN history : e.start = history[i].end
  /\ e.kind = "2q" => e.atoms = UNION e.pairs
  /\ e.kind # "2q" => e.pairs = {} /\ e.region = {}
  /\ e.kind = "move" => e.to \in [e.atoms -> Places]
  /\ e.kind = "store" => \A q \in e.atoms : e.to[q] = position[q]
  /\ IF e.kind \in {"move", "store"} THEN EndsFree(e) /\ position' = After(e, position)
                                     ELSE position' = position

-----------------------------------------------------------------------------
(* Events(h) is the range of a sequence; appending adds one element.        *)
LEMMA EventsAppend ==
  ASSUME NEW h, NEW e, h \in Seq(Events(h))
  PROVE  /\ Events(Append(h, e)) = Events(h) \cup {e}
         /\ Append(h, e) \in Seq(Events(Append(h, e)))
<1> DEFINE S == Events(h) \cup {e}
<1>1. h \in Seq(S)
  <2>1. DOMAIN h = 1..Len(h) /\ Len(h) \in Nat  OBVIOUS
  <2>2. \A i \in 1..Len(h) : h[i] \in S  BY <2>1 DEF Events
  <2> QED BY <2>1, <2>2
<1>2. Append(h, e) \in Seq(S)  BY <1>1
<1>3. DOMAIN Append(h, e) = 1..(Len(h) + 1) /\ DOMAIN h = 1..Len(h) /\ Len(h) \in Nat
  BY <1>1
<1>4. \A i \in 1..Len(h) : Append(h, e)[i] = h[i]  BY <1>1
<1>5. Append(h, e)[Len(h) + 1] = e  BY <1>1
<1>6. Events(Append(h, e)) = S  BY <1>3, <1>4, <1>5 DEF Events
<1> QED BY <1>2, <1>6

(* The clocks stay ahead: an event that was let through starts after        *)
(* everything that has used what it uses, and so books free time.           *)
LEMMA ClocksAhead ==
  ASSUME HistoryInv, ClockInv, EndsInv, NEW e, EventOK(e), Observe(e),
         history' = Append(history, e), order' = order,
         e.kind = "1q" => e.start >= beamEnd,
         beamEnd' = IF e.kind = "1q" THEN e.end ELSE beamEnd,
         ByAod(e) => AodInOrder(e),
         aodEnd' = IF ByAod(e) /\ InDependency THEN e.end ELSE aodEnd
  PROVE  /\ HistoryInv' /\ ClockInv' /\ EndsInv'
         /\ Events(history)' = Events(history) \cup {e}
         /\ \A d \in Events(history) : \A q \in Touched(e) \cap Touched(d) :
              Timed(d) /\ Timed(e) => d.end <= e.start
<1> Events(history)' = Events(history) \cup {e} /\ HistoryInv'
  <2>1. Events(history)' = Events(Append(history, e))  BY DEF Events
  <2> QED BY <2>1, EventsAppend DEF HistoryInv, Events
<1>1. Touched(e) \subseteq Atoms  BY DEF EventOK, Touched
<1>2. ClockInv'
  BY <1>1 DEF ClockInv, Observe, Bump, EventOK
<1>3. \A d \in Events(history) : \A q \in Touched(e) \cap Touched(d) :
        Timed(d) /\ Timed(e) => d.end <= e.start
  BY <1>1 DEF EndsInv, ClockInv, Observe, NoOverlap, HistoryInv, EventOK
<1>4. EndsInv'
  <2> SUFFICES ASSUME NEW d \in Events(history) \cup {e}
               PROVE  /\ Timed(d) => \A q \in Touched(d) : d.end <= physicalEnd'[q]
                      /\ d.kind = "1q" => d.end <= beamEnd'
                      /\ ByAod(d) /\ InDependency => d.end <= aodEnd'
    BY DEF EndsInv, Timed, InDependency
  <2>1. EventOK(d)  BY DEF HistoryInv
  <2>2. Timed(d) => \A q \in Touched(d) : d.end <= physicalEnd'[q]
    <3> SUFFICES ASSUME Timed(d), NEW q \in Touched(d) PROVE d.end <= physicalEnd'[q]
      OBVIOUS
    <3>1. q \in Atoms  BY <2>1 DEF EventOK, Touched
    <3>2. CASE d = e  BY <3>1, <3>2, <2>1 DEF Observe, Bump, EventOK
    <3>3. CASE d # e
      <4>1. d.end <= physicalEnd[q]  BY <3>3 DEF EndsInv
      <4>2. CASE Timed(e) /\ q \in Touched(e)
        BY <4>2, <3>3, <3>1, <2>1, <1>3 DEF Observe, Bump, EventOK
      <4>3. CASE ~(Timed(e) /\ q \in Touched(e))
        BY <4>1, <4>3, <3>1 DEF Observe, Bump
      <4> QED BY <4>2, <4>3
    <3> QED BY <3>2, <3>3
  <2>3. d.kind = "1q" => d.end <= beamEnd'
    BY <2>1 DEF EndsInv, EventOK, ClockInv
  <2>4. ByAod(d) /\ InDependency => d.end <= aodEnd'
    BY <2>1 DEF EndsInv, EventOK, ClockInv, AodInOrder, InDependency
  <2> QED BY <2>2, <2>3, <2>4
<1> QED BY <1>2, <1>3, <1>4

(* The events that are offered are well formed.                             *)
LEMMA StartsAreTimes ==
  ASSUME HistoryInv, NEW length, NEW t \in Starts(length)
  PROVE  t \in Int
BY DEF HistoryInv, Starts, Events, EventOK

(* Every step but the last one appends an event of one of the four kinds.   *)
LEMMA StepsAppend ==
  ASSUME HistoryInv, ClockInv, Next
  PROVE  (\E e : EventStep(e) /\ Offered(e)) \/ Finalize
<1>0. /\ OneQTime \in Nat /\ OneQTime > 0 /\ RydbergTime \in Nat /\ RydbergTime > 0
      /\ TransferTime \in Nat /\ TransferTime > 0 /\ MoveTime \in Nat /\ MoveTime > 0
  BY TraceAssumption, StreamAssumption
<1>1. ASSUME NEW q \in Rotated, NEW t \in Starts(OneQTime), OneQubitGate(q, t)
      PROVE  \E e : EventStep(e) /\ Offered(e)
  <2>1. PICK e : e = Event("1q", t, OneQTime, {q})  OBVIOUS
  <2>2. q \in Atoms /\ t \in Int  BY StreamAssumption, StartsAreTimes
  <2>3. EventOK(e)  BY <2>1, <2>2, <1>0 DEF EventOK, Event, Kinds, Lasts, ByAod, AodKinds, NoBatch
  <2>4. Consume(e) /\ e.start >= beamEnd /\ AtRest(e) /\ beamEnd' = e.end
        /\ aodEnd' = aodEnd /\ movement' = movement
    BY <1>1, <2>1 DEF OneQubitGate
  <2>5. e.kind = "1q"  BY <2>1 DEF Event
  <2>6. Stepped(e)  BY <2>3, <2>4, <2>5 DEF Stepped, ByAod, AodKinds
  <2>7. t = 0 \/ \E i \in DOMAIN history : t = history[i].end  BY DEF Starts
  <2>8. position' = position
    BY <1>1, <2>1 DEF OneQubitGate
  <2>9. Offered(e)
    BY <2>1, <2>2, <2>5, <2>7, <2>8 DEF Offered, Event
  <2> QED BY <2>4, <2>5, <2>6, <2>9 DEF EventStep, GateStep, IsGate
<1>2. ASSUME NEW p \in Pulses, NEW t \in Starts(RydbergTime), TwoQubitGate(p, t)
      PROVE  \E e : EventStep(e) /\ Offered(e)
  <2>1. PICK e : e = [Event("2q", t, RydbergTime, UNION p.pairs)
                        EXCEPT !.pairs = p.pairs, !.region = p.region]
    OBVIOUS
  <2>2. p.region \subseteq Atoms /\ UNION p.pairs \subseteq Atoms /\ t \in Int
    BY StreamAssumption, StartsAreTimes
  <2>3. EventOK(e)  BY <2>1, <2>2, <1>0 DEF EventOK, Event, Kinds, Lasts, ByAod, AodKinds, NoBatch
  <2>4. Consume(e) /\ AtRest(e) /\ beamEnd' = beamEnd /\ aodEnd' = aodEnd /\ movement' = movement
    BY <1>2, <2>1 DEF TwoQubitGate
  <2>5. e.kind = "2q"  BY <2>1 DEF Event
  <2>6. Stepped(e)  BY <2>3, <2>4, <2>5 DEF Stepped, ByAod, AodKinds
  <2>7. t = 0 \/ \E i \in DOMAIN history : t = history[i].end  BY DEF Starts
  <2>8. position' = position
    BY <1>2, <2>1 DEF TwoQubitGate
  <2>9. Offered(e)
    BY <2>1, <2>2, <2>5, <2>7, <2>8 DEF Offered, Event
  <2> QED BY <2>4, <2>5, <2>6, <2>9 DEF EventStep, GateStep, IsGate
<1>3. ASSUME NEW b \in Batches, NEW A \in Groups, NEW t \in Starts(TransferTime), Load(b, A, t)
      PROVE  \E e : EventStep(e) /\ Offered(e)
  <2>1. PICK e : e = [Event("load", t, TransferTime, A) EXCEPT !.batch = b, !.from = At(A)]
    OBVIOUS
  <2>2. A \subseteq Atoms /\ t \in Int /\ b \in Nat /\ b # 0
    BY StreamAssumption, StartsAreTimes DEF Batches
  <2>3. EventOK(e)  BY <2>1, <2>2, <1>0 DEF EventOK, Event, Kinds, Lasts, ByAod, AodKinds, NoBatch
  <2>4. Consume(e) /\ UseAod(e) /\ MayLoad(e) /\ beamEnd' = beamEnd
        /\ movement' = [movement EXCEPT !.id = b, !.held = @ \cup A, !.loaded = @ \cup A]
    BY <1>3, <2>1 DEF Load
  <2>5. e.kind = "load" /\ e.batch = b /\ e.atoms = A  BY <2>1 DEF Event
  <2>6. Stepped(e)  BY <2>3, <2>4, <2>5 DEF Stepped, ByAod, AodKinds, UseAod, InDependency
  <2>7. t = 0 \/ \E i \in DOMAIN history : t = history[i].end  BY DEF Starts
  <2>8. position' = position
    BY <1>3, <2>1 DEF Load
  <2>9. Offered(e)
    BY <2>1, <2>2, <2>5, <2>7, <2>8 DEF Offered, Event
  <2> QED BY <2>4, <2>5, <2>6, <2>9 DEF EventStep, LoadStep
<1>4. ASSUME NEW b \in Batches, NEW A \in Groups, NEW to \in [A -> Places],
             NEW t \in Starts(MoveLength(to)), Move(b, to, t)
      PROVE  \E e : EventStep(e) /\ Offered(e)
  <2>1. PICK e : e = [Event("move", t, MoveLength(to), DOMAIN to)
                        EXCEPT !.batch = b, !.from = At(DOMAIN to), !.to = to]
    OBVIOUS
  <2>2. A \subseteq Atoms /\ t \in Int /\ b \in Nat /\ b # 0 /\ DOMAIN to = A
        /\ MoveLength(to) \in Nat
    BY StreamAssumption, StartsAreTimes, <1>0 DEF Batches, MoveLength
  <2>3. EventOK(e)  BY <2>1, <2>2 DEF EventOK, Event, Kinds, Lasts, ByAod, AodKinds, NoBatch
  <2>4. Consume(e) /\ UseAod(e) /\ MayMove(e) /\ beamEnd' = beamEnd
        /\ movement' = [movement EXCEPT !.moved = TRUE]
    BY <1>4, <2>1 DEF Move
  <2>5. e.kind = "move"  BY <2>1 DEF Event
  <2>6. Stepped(e)  BY <2>3, <2>4, <2>5 DEF Stepped, ByAod, AodKinds, UseAod, InDependency
  <2>7. t = 0 \/ \E i \in DOMAIN history : t = history[i].end  BY DEF Starts
  <2>8. Relocate(e)
    BY <1>4, <2>1 DEF Move
  <2>9. Offered(e)
    BY <2>1, <2>2, <2>5, <2>7, <2>8 DEF Offered, Event, Relocate
  <2> QED BY <2>4, <2>5, <2>6, <2>9 DEF EventStep, MoveStep
<1>5. ASSUME NEW b \in Batches, NEW A \in Groups, NEW t \in Starts(TransferTime), Store(b, A, t)
      PROVE  \E e : EventStep(e) /\ Offered(e)
  <2>1. PICK e : e = [Event("store", t, TransferTime, A) EXCEPT !.batch = b, !.to = At(A)]
    OBVIOUS
  <2>2. A \subseteq Atoms /\ t \in Int /\ b \in Nat /\ b # 0
    BY StreamAssumption, StartsAreTimes DEF Batches
  <2>3. EventOK(e)  BY <2>1, <2>2, <1>0 DEF EventOK, Event, Kinds, Lasts, ByAod, AodKinds, NoBatch
  <2>4. Consume(e) /\ UseAod(e) /\ MayStore(e) /\ beamEnd' = beamEnd
        /\ movement' = IF A = Held THEN NoMovement
                       ELSE [movement EXCEPT !.held = @ \ A, !.storing = TRUE]
    BY <1>5, <2>1 DEF Store
  <2>5. e.kind = "store" /\ e.atoms = A  BY <2>1 DEF Event
  <2>6. Stepped(e)  BY <2>3, <2>4, <2>5 DEF Stepped, ByAod, AodKinds, UseAod, InDependency
  <2>7. t = 0 \/ \E i \in DOMAIN history : t = history[i].end  BY DEF Starts
  <2>8. Relocate(e)
    BY <1>5, <2>1 DEF Store
  <2>9. Offered(e)
    BY <2>1, <2>2, <2>5, <2>7, <2>8 DEF Offered, Event, Relocate, At
  <2> QED BY <2>4, <2>5, <2>6, <2>9 DEF EventStep, StoreStep
<1> QED BY <1>1, <1>2, <1>3, <1>4, <1>5 DEF Next

-----------------------------------------------------------------------------
(* The open batch, as the validator has it and as the scorer has it.        *)
LEMMA MovementKept ==
  ASSUME MovementInv, NEW e, EventStep(e)
  PROVE  MovementInv'
<1>1. EventOK(e) /\ (e.kind = "load" => e.batch # 0 /\ e.batch \in Nat)
  BY DEF EventStep, GateStep, LoadStep, MoveStep, StoreStep, Stepped, EventOK, ByAod, AodKinds, NoBatch
<1>2. e.atoms \subseteq Atoms  BY <1>1 DEF EventOK
<1>3. CASE GateStep(e)  BY <1>3 DEF GateStep, MovementInv
<1>4. CASE LoadStep(e)
  BY <1>1, <1>2, <1>4 DEF LoadStep, MovementInv, MovementType, NoBatch, NoMovement
<1>5. CASE MoveStep(e)
  <2>1. movement.id # NoBatch
    BY <1>5, <1>1 DEF MoveStep, MayMove, EventOK, ByAod, AodKinds
  <2> QED BY <1>5, <2>1 DEF MoveStep, MovementInv, MovementType
<1>6. CASE StoreStep(e)
  <2>1. movement.id # NoBatch
    BY <1>6, <1>1 DEF StoreStep, MayStore, EventOK, ByAod, AodKinds
  <2>2. NoMovement \in MovementType  BY DEF NoMovement, MovementType, NoBatch
  <2>3. CASE e.atoms = Held  BY <1>6, <2>2, <2>3 DEF StoreStep, MovementInv
  <2>4. CASE e.atoms # Held
    BY <1>6, <2>1, <2>4 DEF StoreStep, MovementInv, MovementType
  <2> QED BY <2>3, <2>4
<1> QED BY <1>3, <1>4, <1>5, <1>6 DEF EventStep

(* The scorer's record of the batch of an event that the validator lets     *)
(* through is the validator's.                                              *)
LEMMA OpenBatchMirrors ==
  ASSUME MovementInv, MirrorInv, NEW e, EventStep(e), ByAod(e)
  PROVE  /\ OpenBatch(e).held = Held /\ OpenBatch(e).loaded = movement.loaded
         /\ OpenBatch(e).moved = movement.moved /\ OpenBatch(e).storing = movement.storing
         /\ movement = NoMovement \/ movement.id = e.batch
         /\ DOMAIN scorer.open \subseteq {e.batch}
<1>1. e.batch # NoBatch
  BY DEF EventStep, GateStep, LoadStep, MoveStep, StoreStep, Stepped, EventOK
<1>2. movement = NoMovement \/ movement.id = e.batch
  BY <1>1 DEF EventStep, GateStep, LoadStep, MoveStep, StoreStep, IsGate, ByAod, AodKinds,
     MayLoad, MayMove, MayStore
<1>3. CASE movement = NoMovement
  <2>1. DOMAIN scorer.open = {}  BY <1>3 DEF MirrorInv, ScorerFollows
  <2>2. OpenBatch(e) = [held |-> {}, loaded |-> {}, moved |-> FALSE, storing |-> FALSE, time |-> 0]
    BY <2>1 DEF OpenBatch
  <2> QED BY <1>2, <1>3, <2>1, <2>2 DEF NoMovement, Held
<1>4. CASE movement # NoMovement
  <2>1. movement.id = e.batch  BY <1>2, <1>4
  <2>2. DOMAIN scorer.open = {e.batch}  BY <1>4, <2>1 DEF MirrorInv, ScorerFollows
  <2>3. OpenBatch(e) = scorer.open[e.batch]  BY <2>2 DEF OpenBatch
  <2>4. /\ scorer.open[e.batch].held = movement.held
        /\ scorer.open[e.batch].loaded = movement.loaded
        /\ scorer.open[e.batch].moved = movement.moved
        /\ scorer.open[e.batch].storing = movement.storing
    BY <2>2 DEF MirrorInv, ScorerFollows
  <2> QED BY <2>1, <2>2, <2>3, <2>4 DEF Held
<1> QED BY <1>3, <1>4

(* So the scorer accepts the event.                                         *)
LEMMA ScorerAgrees ==
  ASSUME MovementInv, MirrorInv, NEW e, EventStep(e)
  PROVE  ScorerAccepts(e)
<1>1. Stepped(e)  BY DEF EventStep, GateStep, LoadStep, MoveStep, StoreStep
<1>2. InDependency => \A q \in Touched(e) : e.start >= scorer.resourceEnd[q]
  BY <1>1 DEF Stepped, Consume, Observe, NoOverlap, Timed, InDependency, MirrorInv
<1>3. InDependency /\ e.kind = "1q" => e.start >= scorer.beamEnd
  BY <1>1 DEF Stepped, MirrorInv
<1>4. ASSUME ByAod(e)
      PROVE  /\ ScorerAod(e)
             /\ e.kind = "load" => ~OpenBatch(e).storing /\ e.atoms \cap OpenBatch(e).loaded = {}
             /\ e.kind = "move" => ~OpenBatch(e).storing /\ e.atoms \subseteq OpenBatch(e).held
             /\ e.kind = "store" => OpenBatch(e).moved /\ e.atoms \subseteq OpenBatch(e).held
  <2>1. InDependency => e.start >= scorer.aodEnd
    BY <1>1, <1>4 DEF Stepped, AodInOrder, InDependency, MirrorInv
  <2>2. CASE LoadStep(e)
    <3>1. movement.id \in {NoBatch, e.batch} /\ ~movement.storing
          /\ e.atoms \cap movement.loaded = {}
      BY <2>2 DEF LoadStep, MayLoad, NoMovement
    <3> QED BY <2>1, <2>2, <3>1, <1>4, OpenBatchMirrors DEF LoadStep, ScorerAod, MirrorInv
  <2>3. CASE MoveStep(e)
    BY <2>1, <2>3, <1>4, OpenBatchMirrors DEF MoveStep, MayMove, ScorerAod, MirrorInv
  <2>4. CASE StoreStep(e)
    BY <2>1, <2>4, <1>4, OpenBatchMirrors DEF StoreStep, MayStore, ScorerAod, MirrorInv
  <2>5. ~GateStep(e)  BY <1>4 DEF GateStep, IsGate, ByAod, AodKinds
  <2> QED BY <2>2, <2>3, <2>4, <2>5 DEF EventStep
<1>5. e.kind \in AodKinds => ByAod(e)  BY DEF ByAod
<1> QED BY <1>2, <1>3, <1>4, <1>5 DEF ScorerAccepts, AodKinds

\* The scorer's record stays the validator's.
LEMMA MirrorKept ==
  ASSUME MovementInv, MirrorInv, NEW e, EventStep(e)
  PROVE  MirrorInv'
<1>1. Stepped(e)  BY DEF EventStep, GateStep, LoadStep, MoveStep, StoreStep
<1>2. scorer' = ScorerAfter(e) /\ stage' = "streaming" /\ order' = order
  BY <1>1, ScorerAgrees DEF Stepped, Consume
<1>3. /\ scorer'.resourceEnd = IF InDependency THEN Bump(scorer.resourceEnd, e)
                               ELSE scorer.resourceEnd
      /\ scorer'.beamEnd = IF InDependency /\ e.kind = "1q" THEN e.end ELSE scorer.beamEnd
      /\ scorer'.aodEnd = IF InDependency /\ ByAod(e) THEN e.end ELSE scorer.aodEnd
      /\ scorer'.active = ActiveAfter(e) /\ scorer'.open = OpenAfter(e)
  BY <1>2 DEF ScorerAfter
<1>4. InDependency => /\ scorer'.resourceEnd = physicalEnd' /\ scorer'.beamEnd = beamEnd'
                      /\ scorer'.aodEnd = aodEnd'
  BY <1>1, <1>3 DEF Stepped, Consume, Observe, Timed, InDependency, MirrorInv
<1>5. /\ InDependency => ActiveAfter(e) = movement'.id
      /\ DOMAIN OpenAfter(e) = IF movement' = NoMovement THEN {} ELSE {movement'.id}
      /\ \A b \in DOMAIN OpenAfter(e) :
           /\ OpenAfter(e)[b].held = movement'.held /\ OpenAfter(e)[b].loaded = movement'.loaded
           /\ OpenAfter(e)[b].moved = movement'.moved
           /\ OpenAfter(e)[b].storing = movement'.storing
  <2>1. CASE ~ByAod(e)
    <3>1. GateStep(e)
      BY <2>1 DEF EventStep, LoadStep, MoveStep, StoreStep, ByAod, AodKinds
    <3> QED BY <2>1, <3>1 DEF GateStep, ActiveAfter, OpenAfter, MirrorInv, ScorerFollows
  <2>2. CASE ByAod(e)
    <3> DEFINE B == BatchAfter(e)
    <3>1. /\ OpenBatch(e).held = movement.held /\ OpenBatch(e).loaded = movement.loaded
          /\ OpenBatch(e).moved = movement.moved /\ OpenBatch(e).storing = movement.storing
          /\ movement = NoMovement \/ movement.id = e.batch
          /\ DOMAIN scorer.open \subseteq {e.batch}
      BY <2>2, OpenBatchMirrors DEF Held
    <3>2. /\ B.held = IF e.kind = "load" THEN movement.held \cup e.atoms
                      ELSE IF e.kind = "store" THEN movement.held \ e.atoms ELSE movement.held
          /\ B.loaded = IF e.kind = "load" THEN movement.loaded \cup e.atoms
                        ELSE movement.loaded
          /\ B.moved = (movement.moved \/ e.kind = "move")
          /\ B.storing = (movement.storing \/ e.kind = "store")
      BY <3>1 DEF BatchAfter
    <3>3. e.batch # NoBatch  BY <1>1, <2>2 DEF Stepped, EventOK
    <3>4. movement \in MovementType  BY DEF MovementInv
    <3>5. CASE Closes(e)
      <4>1. e.kind = "store" /\ B.held = {}  BY <3>5 DEF Closes
      <4>2. StoreStep(e)
        BY <4>1 DEF EventStep, GateStep, IsGate, LoadStep, MoveStep
      <4>3. movement.held \subseteq e.atoms /\ e.atoms \subseteq movement.held
        BY <4>1, <4>2, <3>2 DEF StoreStep, MayStore, Held
      <4>4. movement' = NoMovement
        <5>1. e.atoms = movement.held  BY <4>3
        <5> QED BY <4>2, <5>1 DEF StoreStep, Held
      <4>5. ActiveAfter(e) = IF InDependency THEN NoBatch ELSE scorer.active
        BY <3>5, <2>2 DEF ActiveAfter
      <4>6. OpenAfter(e) = [x \in {} |-> scorer.open[x]]
        BY <3>5, <2>2, <3>1 DEF OpenAfter
      <4> QED BY <4>4, <4>5, <4>6 DEF NoMovement
    <3>6. CASE ~Closes(e)
      <4>1. OpenAfter(e) = [x \in {e.batch} |-> B]
        <5>1. DOMAIN scorer.open \cup {e.batch} = {e.batch}  BY <3>1
        <5>2. OpenAfter(e) = [x \in DOMAIN scorer.open \cup {e.batch} |->
                               IF x = e.batch THEN B ELSE scorer.open[x]]
          BY <2>2, <3>6 DEF OpenAfter
        <5> QED BY <5>1, <5>2
      <4>2. InDependency => ActiveAfter(e) = e.batch  BY <2>2, <3>6 DEF ActiveAfter
      <4>3. movement'.id = e.batch /\ movement' # NoMovement
            /\ movement'.held = B.held /\ movement'.loaded = B.loaded
            /\ movement'.moved = B.moved /\ movement'.storing = B.storing
        <5>1. CASE LoadStep(e)
          BY <5>1, <3>2, <3>3, <3>4 DEF LoadStep, MovementType, NoMovement
        <5>2. CASE MoveStep(e)
          BY <5>2, <3>2, <3>3, <3>4 DEF MoveStep, MayMove, MovementType, NoMovement
        <5>3. CASE StoreStep(e)
          <6>1. e.atoms # movement.held
            BY <5>3, <3>2, <3>6 DEF StoreStep, Closes
          <6> QED BY <6>1, <5>3, <3>2, <3>3, <3>4
                  DEF StoreStep, MayStore, MovementType, NoMovement, Held
        <5>4. ~GateStep(e)  BY <2>2 DEF GateStep, IsGate, ByAod, AodKinds
        <5> QED BY <5>1, <5>2, <5>3, <5>4 DEF EventStep
      <4> HIDE DEF B
      <4> QED BY <4>1, <4>2, <4>3
    <3> QED BY <3>5, <3>6
  <2> QED BY <2>1, <2>2
<1>6. ScorerFollows'
  BY <1>2, <1>3, <1>5 DEF ScorerFollows
<1> QED BY <1>2, <1>3, <1>4, <1>5, <1>6 DEF MirrorInv, InDependency

-----------------------------------------------------------------------------
(* The batch of a load is the open one, or one that is over and is begun    *)
(* again, or the next after those of the past, which are numbered 1..n.     *)
LEMMA FreshBatch ==
  ASSUME HistoryInv, MovementInv, IdsInv, NEW e, LoadStep(e)
  PROVE  \/ movement # NoMovement /\ movement.id = e.batch
         \/ movement = NoMovement /\ e.batch \in BatchIds
         \/ /\ movement = NoMovement /\ e.batch \notin BatchIds
            /\ \E n \in Nat : BatchIds = 1..n /\ e.batch = n + 1
<1>1. CASE movement # NoMovement
  BY <1>1 DEF LoadStep, MayLoad
<1>2. CASE movement = NoMovement
  <2>1. PICK n \in Nat : BatchIds = 1..n  BY DEF IdsInv
  <2>2. BatchIds = {history[i].batch : i \in DOMAIN history} \ {NoBatch}
    BY DEF BatchIds, Events
  <2>3. Opened = Cardinality(1..n)  BY <2>1, <2>2 DEF Opened
  <2>4. Opened = n  BY <2>1, <2>3, FS_Interval
  <2>5. e.batch \in 1..n + 1  BY <2>4 DEF Batches, LoadStep
  <2> QED BY <1>2, <2>1, <2>5
<1> QED BY <1>1, <1>2

\* Batches stay numbered from one.
LEMMA IdsKept ==
  ASSUME HistoryInv, MovementInv, IdsInv, NEW e, EventStep(e),
         Events(history)' = Events(history) \cup {e}
  PROVE  IdsInv'
<1>1. EventOK(e)  BY DEF EventStep, GateStep, LoadStep, MoveStep, StoreStep, Stepped
<1>2. BatchIds' = BatchIds \cup ({e.batch} \ {NoBatch})  BY DEF BatchIds
<1>3. PICK n \in Nat : BatchIds = 1..n /\ movement.id \in 0..n  BY DEF IdsInv
<1>4. movement \in MovementType  BY DEF MovementInv
<1>5. CASE GateStep(e)
  <2>1. BatchIds' = BatchIds  BY <1>1, <1>2, <1>5 DEF GateStep, IsGate, EventOK, ByAod, AodKinds
  <2> QED BY <2>1, <1>3, <1>5 DEF GateStep, IdsInv
<1>6. CASE LoadStep(e)
  <2>0. e.batch # NoBatch /\ movement'.id = e.batch
    BY <1>1, <1>4, <1>6 DEF LoadStep, EventOK, ByAod, AodKinds, MovementType
  <2>1. CASE movement.id = e.batch
    <3>1. e.batch \in 1..n  BY <1>3, <2>0, <2>1 DEF NoBatch
    <3>2. BatchIds' = 1..n  BY <1>2, <1>3, <3>1
    <3> QED BY <3>1, <3>2, <2>0 DEF IdsInv
  <2>2. CASE e.batch \in BatchIds
    <3>1. BatchIds' = 1..n  BY <1>2, <1>3, <2>2
    <3> QED BY <1>3, <2>2, <3>1, <2>0 DEF IdsInv
  <2>3. CASE movement.id # e.batch /\ e.batch \notin BatchIds
    <3>1. PICK m \in Nat : BatchIds = 1..m /\ e.batch = m + 1
      BY <1>6, <2>3, FreshBatch
    <3>2. BatchIds' = 1..m + 1  BY <1>2, <3>1 DEF NoBatch
    <3> QED BY <3>1, <3>2, <2>0 DEF IdsInv
  <2> QED BY <2>1, <2>2, <2>3
<1>7. CASE MoveStep(e) \/ StoreStep(e)
  <2>1. movement.id = e.batch /\ e.batch # NoBatch
    BY <1>7, <1>1 DEF MoveStep, StoreStep, MayMove, MayStore, EventOK, ByAod, AodKinds
  <2>2. movement'.id \in {NoBatch, movement.id}
    <3>1. MoveStep(e) => movement'.id = movement.id  BY <1>4 DEF MoveStep, MovementType
    <3>2. StoreStep(e) /\ e.atoms = Held => movement'.id = NoBatch
      BY DEF StoreStep, NoMovement
    <3>3. StoreStep(e) /\ e.atoms # Held => movement'.id = movement.id
      BY <1>4 DEF StoreStep, MovementType
    <3> QED BY <1>7, <3>1, <3>2, <3>3
  <2>3. e.batch \in 1..n  BY <1>3, <2>1 DEF NoBatch
  <2>4. BatchIds' = 1..n  BY <1>2, <1>3, <2>3
  <2> QED BY <2>1, <2>2, <2>3, <2>4 DEF IdsInv, NoBatch
<1> QED BY <1>5, <1>6, <1>7 DEF EventStep

-----------------------------------------------------------------------------
\* A batch that is over keeps its store.
LEMMA StoredKept ==
  ASSUME MovementInv, StoredInv, NEW e, EventStep(e), EventOK(e),
         Events(history)' = Events(history) \cup {e}
  PROVE  StoredInv'
<1>1. movement \in MovementType  BY DEF MovementInv
<1> SUFFICES ASSUME NEW b \in BatchIds', b # movement'.id
             PROVE  \E s \in Events(history) \cup {e} : s.kind = "store" /\ s.batch = b
  BY DEF StoredInv
<1>2. b \in BatchIds \/ b = e.batch  BY DEF BatchIds
<1>3. b # NoBatch  BY DEF BatchIds
<1>4. CASE GateStep(e)
  <2>1. e.batch = NoBatch  BY <1>4 DEF GateStep, IsGate, EventOK, ByAod, AodKinds
  <2> QED BY <1>2, <1>3, <1>4, <2>1 DEF GateStep, StoredInv
<1>5. CASE LoadStep(e)
  <2>1. movement'.id = e.batch  BY <1>1, <1>5 DEF LoadStep, MovementType
  <2>2. movement.id \in {NoBatch, e.batch}
    BY <1>5 DEF LoadStep, MayLoad, NoMovement
  <2> QED BY <1>2, <1>3, <2>1, <2>2 DEF StoredInv
<1>6. CASE MoveStep(e)
  <2>1. movement'.id = movement.id /\ movement.id = e.batch
    BY <1>1, <1>6 DEF MoveStep, MayMove, MovementType
  <2> QED BY <1>2, <2>1 DEF StoredInv
<1>7. CASE StoreStep(e)
  <2>1. e.kind = "store" /\ movement.id = e.batch  BY <1>7 DEF StoreStep, MayStore
  <2>2. CASE b = e.batch  BY <2>1, <2>2
  <2>3. CASE b # e.batch  BY <1>2, <2>1, <2>3 DEF StoredInv
  <2> QED BY <2>2, <2>3
<1> QED BY <1>4, <1>5, <1>6, <1>7 DEF EventStep

-----------------------------------------------------------------------------
(* No gate works on what is carried: what is held has had its gates before  *)
(* it was loaded, and a gate that comes later finds it at rest.             *)
LEMMA GateAfterStore ==
  ASSUME NEW d, NEW e, EventOK(d), EventOK(e), d.kind # "move", e.kind # "move",
         \A q \in Touched(e) \cap Touched(d) : Timed(d) /\ Timed(e) => d.end <= e.start,
         d.atoms \cap e.atoms # {}
  PROVE  d.end <= e.start
<1>1. Timed(d) /\ Timed(e)  BY DEF EventOK, Timed
<1>2. PICK q : q \in d.atoms \cap e.atoms  OBVIOUS
<1> QED BY <1>1, <1>2 DEF Touched

\* What is held keeps its past.
LEMMA HeldKept ==
  ASSUME IInv, NEW e, EventStep(e), e.index = Len(history), EventOK(e),
         Events(history)' = Events(history) \cup {e},
         \A d \in Events(history) : \A q \in Touched(e) \cap Touched(d) :
            Timed(d) /\ Timed(e) => d.end <= e.start
  PROVE  HeldInv'
<1>1. \A d \in Events(history) : EventOK(d)  BY DEF IInv, HistoryInv
<1>2. movement \in MovementType  BY DEF IInv, MovementInv
<1> SUFFICES ASSUME NEW l \in Events(history) \cup {e}, NEW q \in l.atoms, l.kind = "load",
                    ~StoredSince(q, l)'
             PROVE  /\ q \in movement'.held
                    /\ \A g \in Events(history) \cup {e} :
                         IsGate(g) /\ q \in g.atoms => g.end <= l.start
  BY DEF HeldInv, Held
<1>3. CASE l = e
  <2>1. LoadStep(e)  BY <1>3 DEF EventStep, GateStep, IsGate, MoveStep, StoreStep
  <2>2. q \in movement'.held  BY <1>2, <1>3, <2>1 DEF LoadStep, MovementType
  <2>3. ASSUME NEW g \in Events(history), IsGate(g), q \in g.atoms PROVE g.end <= e.start
    BY <2>3, <1>1, <1>3, GateAfterStore DEF IsGate
  <2> QED BY <1>3, <2>2, <2>3 DEF IsGate
<1>4. CASE l # e
  <2>1. l \in Events(history)  BY <1>4
  <2>2. ~StoredSince(q, l)  BY DEF StoredSince
  <2>3. /\ q \in movement.held
        /\ \A g \in Events(history) : IsGate(g) /\ q \in g.atoms => g.end <= l.start
    BY <2>1, <2>2 DEF IInv, HeldInv, Held
  <2>4. CASE GateStep(e)
    BY <2>3, <2>4 DEF GateStep, AtRest, Held
  <2>5. CASE LoadStep(e)
    BY <2>3, <2>5, <1>2 DEF LoadStep, MovementType, IsGate
  <2>6. CASE MoveStep(e)
    BY <2>3, <2>6, <1>2 DEF MoveStep, MovementType, IsGate
  <2>7. CASE StoreStep(e)
    <3>1. e.kind = "store"  BY <2>7 DEF StoreStep
    <3>2. l.index < e.index  BY <2>1 DEF IInv, IndexInv
    <3>3. q \notin e.atoms  BY <3>1, <3>2 DEF StoredSince
    <3>4. e.atoms # Held  BY <2>3, <3>3 DEF Held
    <3>5. q \in movement'.held  BY <2>3, <2>7, <3>3, <3>4, <1>2 DEF StoreStep, MovementType
    <3> QED BY <2>3, <3>1, <3>5 DEF IsGate
  <2> QED BY <2>4, <2>5, <2>6, <2>7 DEF EventStep
<1> QED BY <1>3, <1>4

\* The gates stay where nothing is carried.
LEMMA GatesKept ==
  ASSUME IInv, NEW e, EventStep(e), e.index = Len(history), EventOK(e),
         Events(history)' = Events(history) \cup {e},
         \A d \in Events(history) : \A q \in Touched(e) \cap Touched(d) :
            Timed(d) /\ Timed(e) => d.end <= e.start
  PROVE  GatesAtRest'
<1>1. \A d \in Events(history) : EventOK(d)  BY DEF IInv, HistoryInv
<1> SUFFICES ASSUME NEW l \in Events(history) \cup {e}, NEW s \in Events(history) \cup {e},
                    NEW g \in Events(history) \cup {e}, NEW q \in l.atoms \cap s.atoms \cap g.atoms,
                    IsGate(g), Carry(q, l, s)'
             PROVE  g.end <= l.start \/ s.end <= g.start
  BY DEF GatesAtRest
<1>2. l.kind = "load" /\ s.kind = "store" /\ l.index < s.index /\ Carry(q, l, s)
  BY DEF Carry, OfKind
<1>3. CASE g # e /\ l # e /\ s # e
  BY <1>2, <1>3 DEF IInv, GatesAtRest
<1>4. CASE g = e
  <2>1. s \in Events(history)  BY <1>2, <1>4 DEF IsGate
  <2> QED BY <2>1, <1>1, <1>2, <1>4, GateAfterStore DEF IsGate
<1>5. CASE l = e
  <2>1. s \in Events(history)  BY <1>2, <1>5
  <2>2. s.index < l.index  BY <1>5, <2>1 DEF IInv, IndexInv
  <2>3. s.index \in Int /\ l.index \in Int
    BY <1>5, <2>1 DEF IInv, IndexInv, HistoryInv
  <2> QED BY <1>2, <2>2, <2>3
<1>6. CASE s = e /\ l # e /\ g # e
  <2>1. l \in Events(history) /\ g \in Events(history)  BY <1>6
  <2>2. ASSUME StoredSince(q, l) PROVE FALSE
    <3>1. PICK d \in Events(history) : d.kind = "store" /\ q \in d.atoms /\ l.index < d.index
      BY <2>2 DEF StoredSince
    <3>2. d.index < l.index \/ s.index <= d.index
      BY <1>2, <3>1 DEF Carry, OfKind
    <3>3. d.index < s.index  BY <1>6, <3>1 DEF IInv, IndexInv
    <3>4. d.index \in Int /\ l.index \in Int /\ s.index \in Int
      BY <1>6, <2>1, <3>1 DEF IInv, IndexInv, HistoryInv
    <3> QED BY <3>1, <3>2, <3>3, <3>4
  <2> QED BY <1>2, <2>1, <2>2 DEF IInv, HeldInv
<1> QED BY <1>2, <1>3, <1>4, <1>5, <1>6

-----------------------------------------------------------------------------
\* The invariant at first,
LEMMA InitHolds == Init => IInv
<1> SUFFICES ASSUME Init PROVE IInv  OBVIOUS
<1>1. order \in {"chronological", "dependency"}  BY StreamAssumption DEF Init
<1>2. Events(history) = {} /\ history \in Seq(Events(history))  BY DEF Init, Events
<1>3. NoMovement \in MovementType  BY DEF NoMovement, MovementType, NoBatch
<1>4. BatchIds = 1..0  BY <1>2 DEF BatchIds
<1>5. MirrorInv
  <2>1. DOMAIN NoBatches = {}  BY DEF NoBatches
  <2> QED BY <2>1 DEF Init, MirrorInv, ScorerFollows, NoMovement
<1>6. IdsInv  BY <1>4 DEF Init, IdsInv, NoMovement, NoBatch
<1>7. ClockInv  BY <1>1 DEF Init, ClockInv
<1> QED BY <1>2, <1>3, <1>5, <1>6, <1>7
     DEF Init, IInv, HistoryInv, EndsInv, MovementInv, HeldInv, GatesAtRest, StoredInv, IndexInv,
         BatchIds

(* What an accepted event brings about, for the invariant and for the       *)
(* bookings.                                                                *)
LEMMA EventStepAdds ==
  ASSUME IInv, NEW e, EventStep(e)
  PROVE  /\ HistoryInv' /\ ClockInv' /\ EndsInv'
         /\ Events(history)' = Events(history) \cup {e} /\ order' = order
         /\ EventOK(e)
         /\ \A d \in Events(history) : \A q \in Touched(e) \cap Touched(d) :
              Timed(d) /\ Timed(e) => d.end <= e.start
<1>1. Stepped(e)  BY DEF EventStep, GateStep, LoadStep, MoveStep, StoreStep
<1>2. EventOK(e) /\ Observe(e) /\ history' = Append(history, e) /\ order' = order
      /\ (e.kind = "1q" => e.start >= beamEnd)
      /\ beamEnd' = (IF e.kind = "1q" THEN e.end ELSE beamEnd)
      /\ (ByAod(e) => AodInOrder(e))
      /\ aodEnd' = IF ByAod(e) /\ InDependency THEN e.end ELSE aodEnd
  BY <1>1 DEF Stepped, Consume
<1>3. HistoryInv /\ ClockInv /\ EndsInv  BY DEF IInv
<1> QED BY <1>2, <1>3, ClocksAhead

\* after every step,
LEMMA NextHolds == IInv /\ [Next]_vars => IInv'
<1> SUFFICES ASSUME IInv, [Next]_vars PROVE IInv'  OBVIOUS
<1>1. ASSUME NEW e, EventStep(e), e.index = Len(history) PROVE IInv'
  <2>1. HistoryInv' /\ ClockInv' /\ EndsInv'  BY <1>1, EventStepAdds
  <2>2. MovementInv' /\ MirrorInv'  BY <1>1, MovementKept, MirrorKept DEF IInv
  <2>3. IdsInv'  BY <1>1, EventStepAdds, IdsKept DEF IInv
  <2>4. HeldInv' /\ GatesAtRest'  BY <1>1, EventStepAdds, HeldKept, GatesKept
  <2>5. StoredInv'  BY <1>1, EventStepAdds, StoredKept DEF IInv
  <2>6. IndexInv'
    <3>1. Len(history') = Len(history) + 1 /\ Len(history) \in Nat
      BY <1>1 DEF IInv, HistoryInv, EventStep, GateStep, LoadStep, MoveStep, StoreStep, Stepped, Consume
    <3> QED BY <3>1, <1>1, EventStepAdds DEF IInv, IndexInv
  <2> QED BY <2>1, <2>2, <2>3, <2>4, <2>5, <2>6 DEF IInv
<1>2. CASE Finalize
  <2>1. stage' = "final"  BY <1>2 DEF Finalize, IInv, MirrorInv, ScorerFollows
  <2> QED BY <1>2, <2>1
       DEF Finalize, validator, IInv, HistoryInv, ClockInv, EndsInv, MovementInv, MirrorInv,
           ScorerFollows, IdsInv, BatchIds, HeldInv, Held, GatesAtRest, Timed, InDependency,
       StoredInv, IndexInv, StoredSince, Carry, OfKind
<1>3. CASE UNCHANGED vars
  BY <1>3
   DEF vars, validator, IInv, HistoryInv, ClockInv, EndsInv, MovementInv, MirrorInv,
       ScorerFollows, IdsInv, BatchIds, HeldInv, Held, GatesAtRest, Timed, InDependency,
       StoredInv, IndexInv, StoredSince, Carry, OfKind
<1>4. CASE Next
  <2>1. (\E e : EventStep(e) /\ e.index = Len(history)) \/ Finalize
    BY <1>4, StepsAppend DEF IInv, Offered
  <2> QED BY <2>1, <1>1, <1>2
<1> QED BY <1>3, <1>4

\* and so in every state.
LEMMA Invariant == Spec => []IInv
<1> QED BY InitHolds, NextHolds, PTL DEF Spec

(* The scorer, which keeps its own record of the open batch and its own     *)
(* clocks, never refuses what the validator accepted and never parts from   *)
(* it, for any number of atoms and events and in both orders.               *)
THEOREM ScorerNeverParts == Spec => []ScorerFollows
<1>1. IInv => ScorerFollows  BY DEF IInv, MirrorInv
<1> QED BY <1>1, Invariant, PTL

(* No gate works on an atom between the load and the store that carry it,   *)
(* in whichever order the three events came, and whichever batches, their   *)
(* numbers used again or not, they belong to.                               *)
THEOREM NoGateInTheAir == Spec => []GatesAtRest
<1>1. IInv => GatesAtRest  BY DEF IInv
<1> QED BY <1>1, Invariant, PTL

(* The atoms, the beam and, in the order of dependencies, the AOD are booked*)
(* without overlap, and no booking is ever moved: remembering one number    *)
(* per resource is enough.                                                  *)
THEOREM PipelineImplementsTimeline == Spec => ImplementsTimeline
<1>1. Init => Timeline!Init
  BY DEF Init, Timeline!Init, Bookings, Events
<1>2. IInv /\ [Next]_vars => [Timeline!Book]_Bookings
  <2> SUFFICES ASSUME IInv, [Next]_vars PROVE [Timeline!Book]_Bookings  OBVIOUS
  <2>1. ASSUME UNCHANGED <<order, history>> PROVE Bookings' = Bookings
    BY <2>1 DEF Bookings, Events, Slots, Uses, Timed, InDependency
  <2>2. ASSUME NEW e, EventStep(e) PROVE Timeline!Book
    <3>1. Events(history)' = Events(history) \cup {e} /\ order' = order /\ EventOK(e)
      BY <2>2, EventStepAdds
    <3>2. \A d : Slots(d)' = Slots(d)
      BY <3>1 DEF Slots, Uses, Timed, InDependency
    <3>3. Bookings' = Bookings \cup Slots(e)
      BY <3>1, <3>2 DEF Bookings
    <3>4. ASSUME NEW b \in Slots(e), NEW c \in Bookings', b # c
          PROVE  ~Timeline!Overlap(b, c)
      <4>1. PICK r \in Uses(e) : b = [res |-> r, by |-> e.index, from |-> e.start, to |-> e.end]
        BY DEF Slots
      <4>2. CASE c \in Slots(e)
        <5>1. PICK u \in Uses(e) : c = [res |-> u, by |-> e.index, from |-> e.start, to |-> e.end]
          BY <4>2 DEF Slots
        <5>2. u # r  BY <3>4, <4>1, <5>1
        <5>3. b.res = r /\ c.res = u  BY <4>1, <5>1
        <5> QED BY <5>2, <5>3 DEF Timeline!Overlap
      <4>3. CASE c \in Bookings
        <5>1. PICK d \in Events(history) : c \in Slots(d)  BY <4>3 DEF Bookings
        <5>2. PICK u \in Uses(d) : c = [res |-> u, by |-> d.index, from |-> d.start, to |-> d.end]
          BY <5>1 DEF Slots
        <5>3. ASSUME u = r PROVE d.end <= e.start
          <6>0. EventOK(d)  BY DEF IInv, HistoryInv
          <6>1. CASE \E q \in Touched(e) : r = <<"atom", q>> /\ Timed(e)
            <7>1. PICK q \in Touched(e) : r = <<"atom", q>> /\ Timed(e)  BY <6>1
            <7>2. q \in Touched(d) /\ Timed(d)  BY <5>2, <5>3, <7>1 DEF Uses
            <7> QED BY <7>1, <7>2, <2>2, EventStepAdds
          <6>2. CASE r = <<"beam", 0>> /\ e.kind = "1q"
            <7>1. d.kind = "1q"  BY <5>2, <5>3, <6>2 DEF Uses
            <7>2. e.start >= beamEnd
              BY <2>2, <6>2 DEF EventStep, GateStep, LoadStep, MoveStep, StoreStep, Stepped
            <7> QED BY <7>1, <7>2, <6>0, <3>1 DEF IInv, EndsInv, ClockInv, EventOK
          <6>3. CASE r = <<"aod", 0>> /\ ByAod(e) /\ InDependency
            <7>1. ByAod(d)  BY <5>2, <5>3, <6>3 DEF Uses
            <7>2. e.start >= aodEnd
              BY <2>2, <6>3 DEF EventStep, GateStep, LoadStep, MoveStep, StoreStep, Stepped,
                 AodInOrder, InDependency
            <7> QED BY <7>1, <7>2, <6>0, <6>3, <3>1 DEF IInv, EndsInv, ClockInv, EventOK
          <6> QED BY <4>1, <6>1, <6>2, <6>3 DEF Uses
        <5>4. EventOK(d)  BY DEF IInv, HistoryInv
        <5> QED BY <4>1, <5>2, <5>3, <5>4, <3>1 DEF Timeline!Overlap, EventOK
      <4> QED BY <3>3, <4>2, <4>3
    <3> QED BY <3>3, <3>4 DEF Timeline!Book
  <2>3. CASE Next
    <3>1. (\E e : EventStep(e)) \/ Finalize  BY <2>3, StepsAppend DEF IInv
    <3>2. Finalize => UNCHANGED <<order, history>>  BY DEF Finalize
    <3> QED BY <3>1, <3>2, <2>1, <2>2
  <2>4. CASE UNCHANGED vars  BY <2>4, <2>1 DEF vars
  <2> QED BY <2>3, <2>4
<1> QED BY <1>1, <1>2, Invariant, PTL DEF Spec, ImplementsTimeline, Timeline!Spec

-----------------------------------------------------------------------------
(* The reference replays one event after the other.                         *)

\* Values a replay may have: times, places and batches of the events it replays.
ReplayType(T, P, B) ==
  [ok : BOOLEAN, beamEnd : T, aodEnd : T, useEnd : [Atoms -> T],
   position : [Atoms -> P], done : SUBSET B, active : B,
   held : SUBSET Atoms, loaded : SUBSET Atoms, moved : BOOLEAN, storing : BOOLEAN]

ReplayedFrom(e, T, P, B) ==
  /\ e.kind \in {"1q", "2q", "load", "move", "store"}
  /\ e.end \in T /\ e.batch \in B /\ e.atoms \subseteq Atoms
  /\ e.kind = "move" => \A q \in e.atoms : e.to[q] \in P

\* Replaying an event leads from values to values.
LEMMA ReplayTyped ==
  ASSUME NEW T, NEW P, NEW B, NoBatch \in B, NEW r \in ReplayType(T, P, B),
         NEW e, ReplayedFrom(e, T, P, B)
  PROVE  Replay(r, e) \in ReplayType(T, P, B)
<1>1. [r EXCEPT !.ok = FALSE] \in ReplayType(T, P, B)
  BY DEF ReplayType
<1> DEFINE s == IF ByAod(e) THEN AfterAod(r, e) ELSE r
<1>2. s \in ReplayType(T, P, B)
  <2>1. CASE ~ByAod(e)
    BY <2>1
  <2>2. CASE e.kind = "load"
    BY <2>2 DEF AfterAod, ReplayType, ReplayedFrom, ByAod, AodKinds
  <2>3. CASE e.kind = "move"
    <3>1. After(e, r.position) \in [Atoms -> P]
      BY <2>3 DEF After, ReplayType, ReplayedFrom
    <3>2. AfterAod(r, e) = [r EXCEPT !.aodEnd = e.end, !.moved = TRUE,
                                      !.position = After(e, r.position)]
      BY <2>3 DEF AfterAod
    <3> QED BY <2>3, <3>1, <3>2 DEF ReplayType, ReplayedFrom, ByAod, AodKinds
  <2>4. CASE e.kind = "store" /\ e.atoms # r.held
    BY <2>4 DEF AfterAod, ReplayType, ReplayedFrom, ByAod, AodKinds
  <2>5. CASE e.kind = "store" /\ e.atoms = r.held
    BY <2>5 DEF AfterAod, ReplayType, ReplayedFrom, ByAod, AodKinds
  <2> QED BY <2>1, <2>2, <2>3, <2>4, <2>5 DEF ByAod, AodKinds
<1> HIDE DEF s
<1> DEFINE u == [q \in Atoms |-> IF Lasts(e) /\ q \in Touched(e) THEN e.end ELSE s.useEnd[q]]
           b == IF e.kind = "1q" THEN e.end ELSE s.beamEnd
<1>3. u \in [Atoms -> T] /\ b \in T
  BY <1>2 DEF ReplayType, ReplayedFrom
<1>4. [s EXCEPT !.useEnd = u, !.beamEnd = b] \in ReplayType(T, P, B)
  <2> HIDE DEF u, b
  <2> QED BY <1>2, <1>3 DEF ReplayType
<1>5. Replay(r, e) = [r EXCEPT !.ok = FALSE] \/ Replay(r, e) = [s EXCEPT !.useEnd = u, !.beamEnd = b]
  BY DEF Replay, s
<1> QED BY <1>1, <1>4, <1>5

Replayable(s, n, T, P, B) == DOMAIN s = 1 .. n /\ \A i \in 1 .. n : ReplayedFrom(s[i], T, P, B)

ReplayOf(f, s, n) ==
  f[0] = Fresh /\ \A i \in 1 .. n : f[i] = Replay(f[i - 1], s[i])

\* The fold of a sequence is a replay of one event after the other.
LEMMA FoldIsReplay ==
  ASSUME NEW n \in Nat, NEW s, NEW T, NEW P, NEW B, Replayable(s, n, T, P, B),
         NoBatch \in B, Fresh \in ReplayType(T, P, B)
  PROVE  \E f \in [0 .. n -> ReplayType(T, P, B)] :
           ReplayOf(f, s, n) /\ FoldLeft(Replay, Fresh, s) = f[n]
<1> DEFINE S == 1 .. n
           V == ReplayType(T, P, B)
           ch == [t \in SUBSET S |-> Max(t)]
           step == [i \in S |-> [v \in V |-> Replay(v, s[i])]]
<1>1. IsFiniteSet(S) /\ S \in SUBSET Nat
  BY FS_Interval
<1>2. \A t \in SUBSET S : t # {} => Max(t) \in t /\ \A y \in t : Max(t) >= y
  <2> SUFFICES ASSUME NEW t \in SUBSET S, t # {} PROVE \E x \in t : \A y \in t : x >= y
    BY DEF Max
  <2> DEFINE D == {n - x : x \in t}
  <2>1. D \in SUBSET Nat /\ D # {}
    <3>1. \A x \in t : x \in 1 .. n
      OBVIOUS
    <3>2. \A x \in 1 .. n : n - x \in Nat
      OBVIOUS
    <3> QED BY <3>1, <3>2
  <2>2. PICK d \in D : \A y \in D : d <= y
    <3> HIDE DEF D
    <3> QED BY <2>1, LeastElement
  <2>3. PICK x \in t : d = n - x
    OBVIOUS
  <2>4. \A y \in t : n - x <= n - y
    BY <2>2, <2>3
  <2>5. \A y \in t : x >= y
    BY <2>4
  <2> QED BY <2>5
<1>3. Chooses(ch, S)
  BY <1>2 DEF Chooses
<1>4. step \in [S -> [V -> V]]
  <2>1. \A i \in S, v \in V : Replay(v, s[i]) \in V
    BY ReplayTyped DEF Replayable
  <2> HIDE DEF V, S
  <2> QED BY <2>1
<1>5. PICK g \in [SUBSET S -> V] : OverSubsets(g, S, Fresh, ch, step)
  <2> HIDE DEF S, V, ch, step
  <2> QED BY <1>1, <1>3, <1>4, SetRecursion DEF V
<1> DEFINE Line(h, t) == IF t = {} THEN Fresh ELSE Replay(h[t \ {Max(t)}], s[Max(t)])
           Fold(h) == h = [t \in SUBSET S |-> Line(h, t)]
<1>6. \A t \in SUBSET S : g[t] = Line(g, t)
  <2> SUFFICES ASSUME NEW t \in SUBSET S PROVE g[t] = Line(g, t)
    OBVIOUS
  <2>1. g[t] = SetStep(g, t, Fresh, ch, step)
    BY <1>5 DEF OverSubsets
  <2>2. CASE t = {}
    BY <2>1, <2>2 DEF SetStep
  <2>3. CASE t # {}
    <3>1. Max(t) \in S /\ t \ {Max(t)} \in SUBSET S
      BY <2>3, <1>2
    <3>2. g[t \ {Max(t)}] \in V
      BY <3>1, <1>5
    <3>3. step[Max(t)][g[t \ {Max(t)}]] = Replay(g[t \ {Max(t)}], s[Max(t)])
      <4> HIDE DEF V, S
      <4> QED BY <3>1, <3>2
    <3>4. ch[t] = Max(t)
      OBVIOUS
    <3> QED BY <2>1, <2>3, <3>3, <3>4 DEF SetStep
  <2> QED BY <2>2, <2>3
<1>7. Fold(g)
  <2> HIDE DEF Line, S, V
  <2> QED BY <1>6
<1> DEFINE c == CHOOSE h : Fold(h)
<1>8. Fold(c)
  <2> HIDE DEF Fold
  <2> QED BY <1>7
<1>9. FoldLeft(Replay, Fresh, s) = c[S]
  BY DEF FoldLeft, MapThenFoldSet, Replayable
<1> HIDE DEF c
<1>10. \A t \in SUBSET S : c[t] = Line(c, t)
  <2> HIDE DEF Line, S
  <2> QED BY <1>8
<1> DEFINE f == [i \in 0 .. n |-> c[1 .. i]]
<1>11. f[0] = Fresh /\ f[n] = c[S]
  <2>1. 0 \in 0 .. n /\ n \in 0 .. n /\ 1 .. 0 = {} /\ {} \in SUBSET S
    OBVIOUS
  <2>2. c[{}] = Fresh
    BY <1>10, <2>1
  <2> QED BY <2>1, <2>2
<1>12. \A i \in 1 .. n : f[i] = Replay(f[i - 1], s[i])
  <2> SUFFICES ASSUME NEW i \in 1 .. n PROVE f[i] = Replay(f[i - 1], s[i])
    OBVIOUS
  <2>1. 1 .. i \in SUBSET S /\ 1 .. i # {} /\ i - 1 \in 0 .. n /\ i \in 0 .. n
    OBVIOUS
  <2>2. Max(1 .. i) = i
    <3>1. PICK t \in SUBSET S : t = 1 .. i /\ t # {}
      BY <2>1
    <3>2. Max(t) \in t /\ \A y \in t : Max(t) >= y
      BY <1>2, <3>1
    <3>3. Max(t) \in 1 .. i /\ Max(t) >= i
      <4>1. i \in t
        BY <3>1
      <4> QED BY <3>1, <3>2, <4>1
    <3>4. Max(t) = i
      BY <3>3
    <3> QED BY <3>1, <3>4
  <2>3. (1 .. i) \ {i} = 1 .. (i - 1)
    OBVIOUS
  <2>4. c[1 .. i] = Replay(c[(1 .. i) \ {Max(1 .. i)}], s[Max(1 .. i)])
    BY <1>10, <2>1
  <2>5. c[1 .. i] = Replay(c[1 .. (i - 1)], s[i])
    BY <2>2, <2>3, <2>4
  <2> QED BY <2>1, <2>5
<1>13. f \in [0 .. n -> V]
  <2> DEFINE Good == {i \in 0 .. n : f[i] \in V}
  <2>1. 0 \in Good
    BY <1>11
  <2>2. ASSUME NEW i \in Nat, i < n, i \in Good PROVE i + 1 \in Good
    <3>1. i + 1 \in 1 .. n /\ (i + 1) - 1 = i /\ i + 1 \in 0 .. n
      BY <2>2
    <3> HIDE DEF f
    <3>2. f[i + 1] = Replay(f[i], s[i + 1])
      BY <3>1, <1>12
    <3>3. f[i] \in V
      BY <2>2
    <3>4. Replay(f[i], s[i + 1]) \in V
      BY <3>1, <3>3, ReplayTyped DEF Replayable
    <3> QED BY <3>1, <3>2, <3>4
  <2> HIDE DEF Good
  <2>3. \A i \in 0 .. n : i \in Good
    BY <2>1, <2>2, IntervalInduction
  <2>4. \A i \in 0 .. n : f[i] \in V
    <3> HIDE DEF f
    <3> QED BY <2>3 DEF Good
  <2> QED BY <2>4
<1> HIDE DEF f, V
<1> QED BY <1>9, <1>11, <1>12, <1>13 DEF ReplayOf, V

-----------------------------------------------------------------------------
(* The four sums of a score.                                                *)

PairWeights(S) == [e \in S |-> Cardinality(e.pairs)]

\* The pairs of a set of pulses, added up.
LEMMA PairsTotal ==
  ASSUME NEW S, IsFiniteSet(S), PairWeights(S) \in [S -> Nat]
  PROVE  \E f : IsTotal(f, S, PairWeights(S)) /\ MapThenSumSet(LAMBDA e : Cardinality(e.pairs), S) = f[S]
<1> DEFINE w == PairWeights(S)
           Line(h, t) == IF t = {} THEN 0 ELSE LET x == CHOOSE x \in t : TRUE
                                               IN Cardinality(x.pairs) + h[t \ {x}]
           Fold(h) == h = [t \in SUBSET S |-> Line(h, t)]
<1>1. ASSUME NEW h, NEW t \in SUBSET S PROVE Line(h, t) = SetSumLine(h, t, w)
  <2>1. CASE t = {}
    BY <2>1 DEF SetSumLine
  <2>2. CASE t # {}
    <3>1. OneOf(t) \in S
      BY <2>2 DEF OneOf
    <3> QED BY <2>2, <3>1 DEF SetSumLine, OneOf, PairWeights
  <2> QED BY <2>1, <2>2
<1> HIDE DEF Line
<1>2. PICK g \in [SUBSET S -> Nat] : \A t \in SUBSET S : g[t] = SetSumLine(g, t, w)
  <2> HIDE DEF w
  <2> QED BY SumExists DEF w
<1>3. Fold(g)
  BY <1>1, <1>2
<1> DEFINE c == CHOOSE h : Fold(h)
<1>4. Fold(c)
  <2> HIDE DEF Fold
  <2> QED BY <1>3
<1>5. MapThenSumSet(LAMBDA e : Cardinality(e.pairs), S) = c[S]
  BY DEF MapThenSumSet, MapThenFoldSet, Line
<1> HIDE DEF c
<1>6. Summed(c, S, w)
  BY <1>1, <1>4 DEF Summed
<1> HIDE DEF w
<1>7. PICK f : IsTotal(f, S, w) /\ f[S] = c[S]
  BY <1>6, SummedIsTotal DEF w
<1> QED BY <1>5, <1>7 DEF w

ExcitationWeights(S) == [e \in S |-> Cardinality(Illuminated(e) \ Participants(e))]

\* The atoms that are illuminated for nothing, added up.
LEMMA ExcitationsTotal ==
  ASSUME NEW S, IsFiniteSet(S), ExcitationWeights(S) \in [S -> Nat]
  PROVE  \E f : /\ IsTotal(f, S, ExcitationWeights(S))
                /\ MapThenSumSet(LAMBDA e : Cardinality(Illuminated(e) \ Participants(e)), S) = f[S]
<1> DEFINE w == ExcitationWeights(S)
           Line(h, t) == IF t = {} THEN 0 ELSE LET x == CHOOSE x \in t : TRUE
                                               IN Cardinality(Illuminated(x) \ Participants(x)) + h[t \ {x}]
           Fold(h) == h = [t \in SUBSET S |-> Line(h, t)]
<1>1. ASSUME NEW h, NEW t \in SUBSET S PROVE Line(h, t) = SetSumLine(h, t, w)
  <2>1. CASE t = {}
    BY <2>1 DEF SetSumLine
  <2>2. CASE t # {}
    <3>1. OneOf(t) \in S
      BY <2>2 DEF OneOf
    <3> QED BY <2>2, <3>1 DEF SetSumLine, OneOf, ExcitationWeights
  <2> QED BY <2>1, <2>2
<1> HIDE DEF Line
<1>2. PICK g \in [SUBSET S -> Nat] : \A t \in SUBSET S : g[t] = SetSumLine(g, t, w)
  <2> HIDE DEF w
  <2> QED BY SumExists DEF w
<1>3. Fold(g)
  BY <1>1, <1>2
<1> DEFINE c == CHOOSE h : Fold(h)
<1>4. Fold(c)
  <2> HIDE DEF Fold
  <2> QED BY <1>3
<1>5. MapThenSumSet(LAMBDA e : Cardinality(Illuminated(e) \ Participants(e)), S) = c[S]
  BY DEF MapThenSumSet, MapThenFoldSet, Line
<1> HIDE DEF c
<1>6. Summed(c, S, w)
  BY <1>1, <1>4 DEF Summed
<1> HIDE DEF w
<1>7. PICK f : IsTotal(f, S, w) /\ f[S] = c[S]
  BY <1>6, SummedIsTotal DEF w
<1> QED BY <1>5, <1>7 DEF w

TransferWeights(S) == [e \in S |-> Cardinality(e.atoms)]

\* The atoms of a set of transfers, added up.
LEMMA TransfersTotal ==
  ASSUME NEW S, IsFiniteSet(S), TransferWeights(S) \in [S -> Nat]
  PROVE  \E f : IsTotal(f, S, TransferWeights(S)) /\ MapThenSumSet(LAMBDA e : Cardinality(e.atoms), S) = f[S]
<1> DEFINE w == TransferWeights(S)
           Line(h, t) == IF t = {} THEN 0 ELSE LET x == CHOOSE x \in t : TRUE
                                               IN Cardinality(x.atoms) + h[t \ {x}]
           Fold(h) == h = [t \in SUBSET S |-> Line(h, t)]
<1>1. ASSUME NEW h, NEW t \in SUBSET S PROVE Line(h, t) = SetSumLine(h, t, w)
  <2>1. CASE t = {}
    BY <2>1 DEF SetSumLine
  <2>2. CASE t # {}
    <3>1. OneOf(t) \in S
      BY <2>2 DEF OneOf
    <3> QED BY <2>2, <3>1 DEF SetSumLine, OneOf, TransferWeights
  <2> QED BY <2>1, <2>2
<1> HIDE DEF Line
<1>2. PICK g \in [SUBSET S -> Nat] : \A t \in SUBSET S : g[t] = SetSumLine(g, t, w)
  <2> HIDE DEF w
  <2> QED BY SumExists DEF w
<1>3. Fold(g)
  BY <1>1, <1>2
<1> DEFINE c == CHOOSE h : Fold(h)
<1>4. Fold(c)
  <2> HIDE DEF Fold
  <2> QED BY <1>3
<1>5. MapThenSumSet(LAMBDA e : Cardinality(e.atoms), S) = c[S]
  BY DEF MapThenSumSet, MapThenFoldSet, Line
<1> HIDE DEF c
<1>6. Summed(c, S, w)
  BY <1>1, <1>4 DEF Summed
<1> HIDE DEF w
<1>7. PICK f : IsTotal(f, S, w) /\ f[S] = c[S]
  BY <1>6, SummedIsTotal DEF w
<1> QED BY <1>5, <1>7 DEF w

TimeWeights(S) == [e \in S |-> (e.end - e.start)]

\* The durations of a set of events, added up.
LEMMA MoveTimeTotal ==
  ASSUME NEW S, IsFiniteSet(S), TimeWeights(S) \in [S -> Nat]
  PROVE  \E f : IsTotal(f, S, TimeWeights(S)) /\ MapThenSumSet(LAMBDA e : (e.end - e.start), S) = f[S]
<1> DEFINE w == TimeWeights(S)
           Line(h, t) == IF t = {} THEN 0 ELSE LET x == CHOOSE x \in t : TRUE
                                               IN (x.end - x.start) + h[t \ {x}]
           Fold(h) == h = [t \in SUBSET S |-> Line(h, t)]
<1>1. ASSUME NEW h, NEW t \in SUBSET S PROVE Line(h, t) = SetSumLine(h, t, w)
  <2>1. CASE t = {}
    BY <2>1 DEF SetSumLine
  <2>2. CASE t # {}
    <3>1. OneOf(t) \in S
      BY <2>2 DEF OneOf
    <3> QED BY <2>2, <3>1 DEF SetSumLine, OneOf, TimeWeights
  <2> QED BY <2>1, <2>2
<1> HIDE DEF Line
<1>2. PICK g \in [SUBSET S -> Nat] : \A t \in SUBSET S : g[t] = SetSumLine(g, t, w)
  <2> HIDE DEF w
  <2> QED BY SumExists DEF w
<1>3. Fold(g)
  BY <1>1, <1>2
<1> DEFINE c == CHOOSE h : Fold(h)
<1>4. Fold(c)
  <2> HIDE DEF Fold
  <2> QED BY <1>3
<1>5. MapThenSumSet(LAMBDA e : (e.end - e.start), S) = c[S]
  BY DEF MapThenSumSet, MapThenFoldSet, Line
<1> HIDE DEF c
<1>6. Summed(c, S, w)
  BY <1>1, <1>4 DEF Summed
<1> HIDE DEF w
<1>7. PICK f : IsTotal(f, S, w) /\ f[S] = c[S]
  BY <1>6, SummedIsTotal DEF w
<1> QED BY <1>5, <1>7 DEF w

PairSum(S) == MapThenSumSet(LAMBDA e : Cardinality(e.pairs), S)
ExcitationSum(S) == MapThenSumSet(LAMBDA e : Cardinality(Illuminated(e) \ Participants(e)), S)
TransferSum(S) == MapThenSumSet(LAMBDA e : Cardinality(e.atoms), S)
TimeSum(S) == MapThenSumSet(LAMBDA e : e.end - e.start, S)

\* The score with its sums named.
LEMMA ScoreIs ==
  ASSUME NEW h
  PROVE  Score(h) =
    [ones |-> Cardinality(OfKind(h, {"1q"})),
     twos |-> PairSum(OfKind(h, {"2q"})),
     excitations |-> ExcitationSum(OfKind(h, {"2q"})),
     transfers |-> TransferSum(OfKind(h, {"load", "store"})),
     duration |-> Length(h),
     batches |-> Cardinality({e.batch : e \in OfKind(h, AodKinds)}),
     moveTime |-> TimeSum(OfKind(h, AodKinds)),
     busy |-> [q \in Atoms |-> BusyTime(h, q)]]
  BY DEF Score, PairSum, ExcitationSum, TransferSum, TimeSum

-----------------------------------------------------------------------------
(* It sorts them first.                                                     *)

\* What sorting asks of the events: their times and their places in the stream
\* are numbers.
Sortable(e) ==
  /\ e.kind \in {"1q", "2q", "load", "move", "store"}
  /\ e.start \in Int /\ e.end \in Int /\ e.index \in Int

\* The order of the sort, key by key.
LEMMA BeforeIs ==
  ASSUME NEW d, NEW e, Sortable(d), Sortable(e)
  PROVE  /\ KindRank(d) \in Int /\ KindRank(e) \in Int
         /\ Before(d, e) <=>
             \/ d.start < e.start
             \/ d.start = e.start /\ d.end < e.end
             \/ d.start = e.start /\ d.end = e.end /\ KindRank(d) < KindRank(e)
             \/ /\ d.start = e.start /\ d.end = e.end /\ KindRank(d) = KindRank(e)
                /\ d.index < e.index
<1>1. KindRank(d) \in Int /\ KindRank(e) \in Int
  BY DEF Sortable, KindRank
<1> DEFINE a == <<d.start, d.end, KindRank(d), d.index>>
           b == <<e.start, e.end, KindRank(e), e.index>>
           L(i) == a[i] < b[i] /\ \A j \in 1 .. (i - 1) : a[j] = b[j]
<1>2. Before(d, e) <=> \E i \in 1 .. 4 : L(i)
  BY DEF Before, SortKey
<1>3. (\E i \in 1 .. 4 : L(i)) <=> (L(1) \/ L(2) \/ L(3) \/ L(4))
  <2> HIDE DEF L
  <2>1. \A i \in 1 .. 4 : i = 1 \/ i = 2 \/ i = 3 \/ i = 4
    OBVIOUS
  <2> QED BY <2>1
<1>4. /\ 1 .. (1 - 1) = {} /\ 1 .. (2 - 1) = {1} /\ 1 .. (3 - 1) = {1, 2} /\ 1 .. (4 - 1) = {1, 2, 3}
  OBVIOUS
<1>5. L(1) <=> d.start < e.start
  BY <1>4
<1>6. L(2) <=> d.end < e.end /\ d.start = e.start
  BY <1>4
<1>7. L(3) <=> KindRank(d) < KindRank(e) /\ d.start = e.start /\ d.end = e.end
  BY <1>4
<1>8. L(4) <=> d.index < e.index /\ d.start = e.start /\ d.end = e.end /\ KindRank(d) = KindRank(e)
  BY <1>4
<1> HIDE DEF L
<1> QED BY <1>1, <1>2, <1>3, <1>5, <1>6, <1>7, <1>8

\* It is a strict order, and total on events of different places in the stream.
LEMMA BeforeOrders ==
  ASSUME NEW c, NEW d, NEW e, Sortable(c), Sortable(d), Sortable(e)
  PROVE  /\ ~Before(e, e)
         /\ Before(c, d) /\ Before(d, e) => Before(c, e)
         /\ d.index # e.index => Before(d, e) \/ Before(e, d)
<1>1. KindRank(c) \in Int /\ KindRank(d) \in Int /\ KindRank(e) \in Int
  BY BeforeIs
<1>2. ~Before(e, e)
  BY <1>1, BeforeIs DEF Sortable
<1>3. ASSUME Before(c, d), Before(d, e) PROVE Before(c, e)
  BY <1>1, <1>3, BeforeIs DEF Sortable
<1>4. ASSUME d.index # e.index PROVE Before(d, e) \/ Before(e, d)
  BY <1>1, <1>4, BeforeIs DEF Sortable
<1> QED BY <1>2, <1>3, <1>4

Stream(h, n) ==
  DOMAIN h = 1 .. n /\ \A i \in 1 .. n : Sortable(h[i]) /\ h[i].index = i - 1

\* The place every event of a stream is sorted to.
Placed(rk, h, n) ==
  /\ rk \in [1 .. n -> 1 .. n]
  /\ DOMAIN Sorted(h) = 1 .. n
  /\ \A i \in 1 .. n : Sorted(h)[rk[i]] = h[i]
  /\ \A k \in 1 .. n : \E i \in 1 .. n : rk[i] = k
  /\ \A i, j \in 1 .. n : (rk[i] = rk[j] => i = j) /\ (rk[i] < rk[j] <=> Before(h[i], h[j]))

\* Sorting gives every event one place, and the order of the places is that of the keys.
LEMMA SortedPlaces ==
  ASSUME NEW n \in Nat, NEW h, Stream(h, n)
  PROVE  \E rk : Placed(rk, h, n)
<1> DEFINE E == Events(h)
           Less(e) == {d \in E : Before(d, e)}
           pl == [i \in 1 .. n |-> h[i]]
<1>1. E = {h[i] : i \in 1 .. n}
  BY DEF Stream, Events
<1>2. \A e \in E : Sortable(e)
  BY <1>1 DEF Stream
<1>3. \A i, j \in 1 .. n : h[i] = h[j] => i = j
  <2> SUFFICES ASSUME NEW i \in 1 .. n, NEW j \in 1 .. n, h[i] = h[j] PROVE i = j
    OBVIOUS
  <2>1. h[i].index = i - 1 /\ h[j].index = j - 1
    BY DEF Stream
  <2> QED BY <2>1
<1>4. \A d, e \in E : d.index = e.index => d = e
  <2> SUFFICES ASSUME NEW d \in E, NEW e \in E, d.index = e.index PROVE d = e
    OBVIOUS
  <2>1. PICK i, j \in 1 .. n : d = h[i] /\ e = h[j]
    BY <1>1
  <2>2. h[i].index = i - 1 /\ h[j].index = j - 1
    BY DEF Stream
  <2> QED BY <2>1, <2>2
<1>5. IsFiniteSet(E) /\ Cardinality(E) = n
  <2>1. pl \in Bijection(1 .. n, E)
    <3>1. pl \in [1 .. n -> E]
      BY <1>1
    <3>2. pl \in Injection(1 .. n, E)
      BY <3>1, <1>3 DEF Injection, IsInjective
    <3>3. pl \in Surjection(1 .. n, E)
      BY <3>1, <1>1 DEF Surjection
    <3> QED BY <3>2, <3>3 DEF Bijection
  <2>2. ExistsBijection(1 .. n, E)
    BY <2>1 DEF ExistsBijection
  <2>3. IsFiniteSet(1 .. n) /\ Cardinality(1 .. n) = n
    BY FS_Interval
  <2> HIDE DEF E
  <2> QED BY <2>2, <2>3, FS_Bijection
<1> HIDE DEF E, pl
<1>6. \A e \in E : /\ IsFiniteSet(Less(e)) /\ Cardinality(Less(e)) \in Nat
                   /\ Cardinality(Less(e)) < n
  <2> SUFFICES ASSUME NEW e \in E
               PROVE /\ IsFiniteSet(Less(e)) /\ Cardinality(Less(e)) \in Nat
                     /\ Cardinality(Less(e)) < n
    OBVIOUS
  <2>1. Less(e) \in SUBSET E /\ Less(e) # E
    BY <1>2, BeforeOrders
  <2> HIDE DEF Less
  <2>2. IsFiniteSet(Less(e)) /\ Cardinality(Less(e)) <= n /\ Cardinality(Less(e)) # n
    BY <2>1, <1>5, FS_Subset
  <2>3. Cardinality(Less(e)) \in Nat
    BY <2>2, FS_CardinalityType
  <2> QED BY <2>2, <2>3
<1>7. ASSUME NEW d \in E, NEW e \in E, Before(d, e)
      PROVE  Cardinality(Less(d)) < Cardinality(Less(e))
  <2>1. Less(d) \subseteq Less(e)
    <3> SUFFICES ASSUME NEW c \in Less(d) PROVE c \in Less(e)
      OBVIOUS
    <3>1. c \in E /\ Before(c, d)
      OBVIOUS
    <3>2. Before(c, e)
      BY <3>1, <1>2, <1>7, BeforeOrders
    <3> QED BY <3>1, <3>2
  <2>2. d \in Less(e) /\ d \notin Less(d)
    BY <1>2, <1>7, BeforeOrders
  <2> HIDE DEF Less
  <2>3. Cardinality(Less(d)) <= Cardinality(Less(e)) /\ Cardinality(Less(d)) # Cardinality(Less(e))
    BY <2>1, <2>2, <1>6, FS_Subset
  <2> QED BY <2>3, <1>6
<1>8. \A d, e \in E : d # e => Before(d, e) \/ Before(e, d)
  BY <1>2, <1>4, BeforeOrders
<1> DEFINE r == [e \in E |-> Cardinality(Less(e)) + 1]
<1>9. r \in [E -> 1 .. n]
  <2> HIDE DEF Less
  <2> QED BY <1>6
<1>10. \A d, e \in E : r[d] < r[e] <=> Before(d, e)
  <2> SUFFICES ASSUME NEW d \in E, NEW e \in E PROVE r[d] < r[e] <=> Before(d, e)
    OBVIOUS
  <2> DEFINE cd == Cardinality(Less(d))
             ce == Cardinality(Less(e))
  <2>1. r[d] = cd + 1 /\ r[e] = ce + 1 /\ cd \in Nat /\ ce \in Nat
    BY <1>6
  <2>2. (Before(d, e) => cd < ce) /\ (Before(e, d) => ce < cd)
    BY <1>7
  <2>3. d = e => cd = ce
    OBVIOUS
  <2> HIDE DEF cd, ce, r
  <2> QED BY <2>1, <2>2, <2>3, <1>8
<1>11. \A d, e \in E : r[d] = r[e] => d = e
  <2> SUFFICES ASSUME NEW d \in E, NEW e \in E, r[d] = r[e], d # e PROVE FALSE
    OBVIOUS
  <2>1. ~(r[d] < r[e]) /\ ~(r[e] < r[d])
    BY <1>9
  <2> HIDE DEF r
  <2> QED BY <2>1, <1>8, <1>10
<1>12. r \in Surjection(E, 1 .. n)
  <2>1. r \in Injection(E, 1 .. n)
    <3> HIDE DEF r
    <3> QED BY <1>9, <1>11 DEF Injection, IsInjective
  <2>2. IsFiniteSet(1 .. n) /\ Cardinality(1 .. n) = n
    BY FS_Interval
  <2> HIDE DEF r
  <2> QED BY <2>1, <2>2, <1>5, FS_Injection
<1> DEFINE rk == [i \in 1 .. n |-> r[h[i]]]
<1>13. \A i \in 1 .. n : h[i] \in E
  BY <1>1
<1>14. rk \in [1 .. n -> 1 .. n]
  <2> HIDE DEF r
  <2> QED BY <1>9, <1>13
<1>15. ASSUME NEW k \in 1 .. n PROVE \E i \in 1 .. n : rk[i] = k
  <2>1. PICK e \in E : r[e] = k
    <3> HIDE DEF r
    <3> QED BY <1>12 DEF Surjection
  <2>2. PICK i \in 1 .. n : e = h[i]
    BY <1>1
  <2> HIDE DEF r
  <2> QED BY <2>1, <2>2
<1>16. \A i, j \in 1 .. n : (rk[i] = rk[j] => i = j) /\ (rk[i] < rk[j] <=> Before(h[i], h[j]))
  <2> HIDE DEF r
  <2> QED BY <1>3, <1>10, <1>11, <1>13
<1>17. DOMAIN Sorted(h) = 1 .. n
  BY DEF Sorted, Stream
<1>18. ASSUME NEW i \in 1 .. n PROVE Sorted(h)[rk[i]] = h[i]
  <2>1. PICK k \in 1 .. n : k = rk[i]
    BY <1>14
  <2>2. Sorted(h)[k] = CHOOSE e \in E : Cardinality({d \in E : Before(d, e)}) = k - 1
    BY DEF Sorted, Stream, E
  <2>3. h[i] \in E /\ k = Cardinality(Less(h[i])) + 1
    BY <2>1, <1>13
  <2>4. Cardinality(Less(h[i])) = k - 1
    <3> DEFINE c == Cardinality(Less(h[i]))
    <3>1. c \in Nat /\ k = c + 1
      BY <2>3, <1>6
    <3> HIDE DEF c
    <3>2. c = k - 1
      BY <3>1
    <3> QED BY <3>2 DEF c
  <2>5. \A e \in E : Cardinality(Less(e)) = k - 1 => e = h[i]
    <3> SUFFICES ASSUME NEW e \in E, Cardinality(Less(e)) = k - 1 PROVE e = h[i]
      OBVIOUS
    <3>1. r[e] = k /\ r[h[i]] = k
      BY <2>3, <2>4
    <3> HIDE DEF r
    <3> QED BY <3>1, <2>3, <1>11
  <2>6. (CHOOSE e \in E : Cardinality(Less(e)) = k - 1) = h[i]
    <3> HIDE DEF Less
    <3> QED BY <2>3, <2>4, <2>5
  <2> QED BY <2>1, <2>2, <2>6
<1> HIDE DEF rk
<1> QED BY <1>14, <1>15, <1>16, <1>17, <1>18 DEF Placed

-----------------------------------------------------------------------------
(* The history, and the scenes between its events.                          *)

\* An event of the history, whichever step let it through.
Fit(e) ==
  /\ EventOK(e) /\ e.start \in Nat
  /\ e.kind = "2q" => e.atoms = UNION e.pairs
  /\ e.kind # "2q" => e.pairs = {} /\ e.region = {}
  /\ e.kind = "move" => e.to \in [e.atoms -> Places]

StreamInv == \A i \in DOMAIN history : Fit(history[i]) /\ history[i].index = i - 1

\* Of two events that need one thing the later one in the stream starts when the
\* earlier one has ended.
InTurn(d, e) ==
  /\ Timed(d) /\ Timed(e) /\ Touched(d) \cap Touched(e) # {} => d.end <= e.start
  /\ d.kind = "1q" /\ e.kind = "1q" => d.end <= e.start
  /\ InDependency /\ ByAod(d) /\ ByAod(e) => d.end <= e.start

TurnsInv == \A i, j \in DOMAIN history : i < j => InTurn(history[i], history[j])

\* Where the atoms are and what the AOD carries, as the validator has it.
Scene == [position |-> position, movement |-> movement]

Apart(pos) == \A p, q \in Atoms : pos[p] = pos[q] => p = q

SceneOK(a) ==
  /\ a.position \in [Atoms -> Places] /\ Apart(a.position)
  /\ a.movement \in MovementType
  /\ a.movement.id = NoBatch => a.movement = NoMovement

\* What an event asks of the scene before it and what it leaves, by kind.
PassesGate(e, a, b) == IsGate(e) /\ b = a /\ e.atoms \cap a.movement.held = {}

PassesLoad(e, a, b) ==
  /\ e.kind = "load"
  /\ a.movement = NoMovement \/ (a.movement.id = e.batch /\ ~a.movement.storing)
  /\ e.atoms \cap (a.movement.held \cup a.movement.loaded) = {}
  /\ \A q \in e.atoms : a.position[q] = e.from[q]
  /\ b.position = a.position
  /\ b.movement = [a.movement EXCEPT !.id = e.batch, !.held = @ \cup e.atoms,
                                     !.loaded = @ \cup e.atoms]

PassesMove(e, a, b) ==
  /\ e.kind = "move"
  /\ a.movement.id = e.batch /\ ~a.movement.storing
  /\ e.atoms \subseteq a.movement.held
  /\ \A q \in e.atoms : a.position[q] = e.from[q]
  /\ Clean(e, a.position)
  /\ b.position = After(e, a.position)
  /\ b.movement = [a.movement EXCEPT !.moved = TRUE]

PassesStore(e, a, b) ==
  /\ e.kind = "store"
  /\ a.movement.id = e.batch /\ a.movement.moved
  /\ e.atoms \subseteq a.movement.held
  /\ \A q \in e.atoms : a.position[q] = e.to[q]
  /\ b.position = a.position
  /\ b.movement = IF e.atoms = a.movement.held THEN NoMovement
                  ELSE [a.movement EXCEPT !.held = @ \ e.atoms, !.storing = TRUE]

Passes(e, a, b) ==
  PassesGate(e, a, b) \/ PassesLoad(e, a, b) \/ PassesMove(e, a, b) \/ PassesStore(e, a, b)

\* The scenes between the events of a history.
Chain(g, h, n) ==
  /\ g[1] = [position |-> Homes, movement |-> NoMovement]
  /\ \A i \in 1 .. n + 1 : SceneOK(g[i])
  /\ \A i \in 1 .. n : Passes(h[i], g[i], g[i + 1])

ChainTo(g, h, n, a) == Chain(g, h, n) /\ g[n + 1] = a

ChainInv == \E g : ChainTo(g, history, Len(history), Scene)

-----------------------------------------------------------------------------
\* A move or a store to free places keeps the atoms at places of their own.
LEMMA MovedApart ==
  ASSUME SceneOK(Scene), NEW e, e.atoms \subseteq Atoms, EndsFree(e), e.to \in [e.atoms -> Places]
  PROVE  After(e, position) \in [Atoms -> Places] /\ Apart(After(e, position))
<1>0. position \in [Atoms -> Places] /\ Apart(position)
  BY DEF SceneOK, Scene
<1>1. After(e, position) \in [Atoms -> Places]
  BY <1>0 DEF After
<1>2. ASSUME NEW p \in Atoms, NEW q \in Atoms, After(e, position)[p] = After(e, position)[q]
      PROVE  p = q
  <2>1. CASE p \in e.atoms /\ q \in e.atoms
    BY <1>2, <2>1 DEF After, EndsFree
  <2>2. CASE p \in e.atoms /\ q \notin e.atoms
    BY <1>2, <2>2 DEF After, EndsFree
  <2>3. CASE p \notin e.atoms /\ q \in e.atoms
    BY <1>2, <2>3 DEF After, EndsFree
  <2>4. CASE p \notin e.atoms /\ q \notin e.atoms
    BY <1>0, <1>2, <2>4 DEF After, Apart
  <2> QED BY <2>1, <2>2, <2>3, <2>4
<1> QED BY <1>1, <1>2 DEF Apart

\* An accepted event passes from the scene before it to the one after it.
LEMMA EventPasses ==
  ASSUME IInv, SceneOK(Scene), NEW e, EventStep(e), Offered(e)
  PROVE  SceneOK(Scene') /\ Passes(e, Scene, Scene')
<1>0. MovementInv' /\ EventOK(e)
  BY MovementKept, EventStepAdds DEF IInv
<1>1. /\ Scene.position = position /\ Scene.movement = movement
      /\ Scene'.position = position' /\ Scene'.movement = movement'
      /\ position \in [Atoms -> Places] /\ Apart(position)
  BY DEF Scene, SceneOK
<1>2. SceneOK(Scene') <=> position' \in [Atoms -> Places] /\ Apart(position')
  BY <1>0, <1>1 DEF SceneOK, MovementInv
<1>3. CASE GateStep(e)
  <2>1. position' = position /\ movement' = movement
    BY <1>3 DEF GateStep, IsGate, Offered
  <2>2. Scene' = Scene
    BY <2>1 DEF Scene
  <2> QED BY <1>1, <1>2, <1>3, <2>1, <2>2 DEF GateStep, AtRest, Held, Passes, PassesGate
<1>4. CASE LoadStep(e)
  <2>1. position' = position
    BY <1>4 DEF LoadStep, Offered
  <2> QED BY <1>1, <1>2, <1>4, <2>1 DEF LoadStep, MayLoad, Held, Passes, PassesLoad
<1>5. CASE MoveStep(e)
  <2>1. EndsFree(e) /\ position' = After(e, position) /\ e.to \in [e.atoms -> Places]
    BY <1>5 DEF MoveStep, Offered
  <2>2. e.atoms \subseteq Atoms
    BY <1>0 DEF EventOK
  <2>3. SceneOK(Scene')
    BY <1>2, <2>1, <2>2, MovedApart
  <2> QED BY <1>1, <1>5, <2>1, <2>3 DEF MoveStep, MayMove, Held, Passes, PassesMove
<1>6. CASE StoreStep(e)
  <2>1. position' = After(e, position) /\ \A q \in e.atoms : e.to[q] = position[q]
    BY <1>6 DEF StoreStep, Offered
  <2>2. position' = position
    BY <2>1, <1>1 DEF After
  <2> QED BY <1>1, <1>2, <1>6, <2>1, <2>2 DEF StoreStep, MayStore, Held, Passes, PassesStore
<1> QED BY <1>3, <1>4, <1>5, <1>6 DEF EventStep

\* One more scene.
LEMMA ChainGrows ==
  ASSUME NEW n \in Nat, NEW h, NEW g, NEW a, NEW b, NEW e, NEW k,
         ChainTo(g, h, n, a), SceneOK(b), Passes(e, a, b),
         k[n + 1] = e, \A i \in 1 .. n : k[i] = h[i]
  PROVE  \E f : ChainTo(f, k, n + 1, b)
<1> DEFINE f == [i \in 1 .. n + 2 |-> IF i = n + 2 THEN b ELSE g[i]]
<1>1. f[1] = g[1] /\ f[n + 1] = a /\ f[n + 2] = b /\ \A i \in 1 .. n + 1 : f[i] = g[i]
  BY DEF ChainTo
<1>2. \A i \in 1 .. (n + 1) + 1 : SceneOK(f[i])
  <2>1. \A i \in 1 .. (n + 1) + 1 : i = n + 2 \/ i \in 1 .. n + 1
    OBVIOUS
  <2> HIDE DEF f
  <2> QED BY <1>1, <2>1 DEF ChainTo, Chain
<1>3. ASSUME NEW i \in 1 .. n + 1 PROVE Passes(k[i], f[i], f[i + 1])
  <2> HIDE DEF f
  <2>1. CASE i = n + 1
    <3>1. i + 1 = n + 2
      BY <2>1
    <3> QED BY <1>1, <2>1, <3>1
  <2>2. CASE i # n + 1
    <3>1. i \in 1 .. n /\ i + 1 \in 1 .. n + 1 /\ i \in 1 .. n + 1
      BY <2>2
    <3>2. f[i] = g[i] /\ f[i + 1] = g[i + 1] /\ k[i] = h[i]
      BY <1>1, <3>1
    <3> QED BY <3>1, <3>2 DEF ChainTo, Chain
  <2> QED BY <2>1, <2>2
<1>4. (n + 1) + 1 = n + 2
  OBVIOUS
<1> HIDE DEF f
<1>5. ChainTo(f, k, n + 1, b)
  BY <1>1, <1>2, <1>3, <1>4 DEF ChainTo, Chain
<1> QED BY <1>5

HistoryKept == StreamInv /\ TurnsInv /\ SceneOK(Scene) /\ ChainInv

\* At first nothing has happened.
LEMMA HistoryStarts == Init => HistoryKept
<1> SUFFICES ASSUME Init PROVE HistoryKept
  OBVIOUS
<1>1. history = <<>> /\ position = Homes /\ movement = NoMovement /\ Len(history) = 0
      /\ DOMAIN history = {}
  BY DEF Init
<1>2. StreamInv /\ TurnsInv
  BY <1>1 DEF StreamInv, TurnsInv
<1>3. SceneOK(Scene)
  BY <1>1, TraceAssumption DEF SceneOK, Scene, Apart, NoMovement, MovementType, NoBatch
<1>4. ChainInv
  <2> DEFINE g == [i \in 1 .. 1 |-> Scene]
  <2>1. g[1] = Scene /\ g[0 + 1] = Scene /\ 1 .. 0 = {} /\ 1 .. 0 + 1 = {1}
    OBVIOUS
  <2>2. Scene = [position |-> Homes, movement |-> NoMovement]
    BY <1>1 DEF Scene
  <2> HIDE DEF g
  <2>3. ChainTo(g, history, 0, Scene)
    BY <1>3, <2>1, <2>2 DEF ChainTo, Chain
  <2> QED BY <1>1, <2>3 DEF ChainInv
<1> QED BY <1>2, <1>3, <1>4 DEF HistoryKept

\* An event that is let through adds itself and the scene it leaves.
LEMMA HistoryGrows ==
  ASSUME IInv, HistoryKept, NEW e, EventStep(e), Offered(e)
  PROVE  HistoryKept'
<1> DEFINE n == Len(history)
<1>0. /\ history' = Append(history, e) /\ order' = order /\ EventOK(e)
      /\ HistoryInv /\ HistoryInv'
  BY EventStepAdds DEF IInv, EventStep, GateStep, LoadStep, MoveStep, StoreStep, Stepped, Consume
<1>1. PICK m \in Nat : m = Len(history) /\ DOMAIN history = 1 .. m
  BY <1>0 DEF HistoryInv
<1>2. /\ DOMAIN history' = 1 .. m + 1 /\ Len(history') = m + 1
      /\ history'[m + 1] = e /\ \A i \in 1 .. m : history'[i] = history[i]
  BY <1>0, <1>1 DEF HistoryInv
<1>3. Events(history) = {history[i] : i \in 1 .. m}
  BY <1>1 DEF Events
<1>4. StreamInv'
  <2>1. e.index = (m + 1) - 1
    BY <1>1 DEF Offered
  <2>2. e.start \in Nat
    <3>1. e.start = 0 \/ \E i \in 1 .. m : e.start = history[i].end
      BY <1>1 DEF Offered
    <3>2. ASSUME NEW i \in 1 .. m PROVE history[i].end \in Nat
      <4>1. history[i].start \in Nat /\ history[i].end \in Int /\ history[i].start <= history[i].end
        BY <1>1 DEF HistoryKept, StreamInv, Fit, EventOK
      <4> QED BY <4>1
    <3> QED BY <3>1, <3>2
  <2>3. Fit(e)
    BY <1>0, <2>2 DEF Fit, Offered
  <2>4. \A i \in 1 .. m + 1 : i = m + 1 \/ i \in 1 .. m
    OBVIOUS
  <2> QED BY <1>1, <1>2, <2>1, <2>3, <2>4 DEF StreamInv, HistoryKept
<1>5. TurnsInv'
  <2>1. \A d : Timed(d)' = Timed(d) /\ InDependency' = InDependency
    BY <1>0 DEF Timed, InDependency
  <2>2. ASSUME NEW i \in 1 .. m PROVE InTurn(history[i], e)
    <3>1. history[i] \in Events(history) /\ EventOK(history[i])
      BY <1>0, <1>3 DEF HistoryInv
    <3>2. \A q \in Touched(e) \cap Touched(history[i]) : Timed(history[i]) /\ Timed(e) =>
             history[i].end <= e.start
      BY <3>1, EventStepAdds
    <3>3. history[i].kind = "1q" /\ e.kind = "1q" => history[i].end <= e.start
      <4>1. e.kind = "1q" => e.start >= beamEnd
        BY DEF EventStep, GateStep, LoadStep, MoveStep, StoreStep, Stepped
      <4> QED BY <4>1, <1>0, <3>1 DEF IInv, EndsInv, ClockInv, EventOK
    <3>4. InDependency /\ ByAod(history[i]) /\ ByAod(e) => history[i].end <= e.start
      <4>1. InDependency /\ ByAod(e) => e.start >= aodEnd
        BY DEF EventStep, GateStep, LoadStep, MoveStep, StoreStep, Stepped, AodInOrder, InDependency
      <4> QED BY <4>1, <1>0, <3>1 DEF IInv, EndsInv, ClockInv, EventOK
    <3> QED BY <3>2, <3>3, <3>4 DEF InTurn
  <2>3. \A d, c : InTurn(d, c)' <=> InTurn(d, c)
    BY <2>1 DEF InTurn
  <2>4. \A i, j \in 1 .. m + 1 : i < j => i \in 1 .. m /\ (j = m + 1 \/ j \in 1 .. m)
    OBVIOUS
  <2>5. \A i, j \in 1 .. m : i < j => InTurn(history[i], history[j])
    BY <1>1 DEF HistoryKept, TurnsInv
  <2>6. \A i, j \in 1 .. m + 1 : i < j => InTurn(history'[i], history'[j])
    BY <1>2, <2>2, <2>4, <2>5
  <2> QED BY <1>2, <2>3, <2>6 DEF TurnsInv
<1>6. SceneOK(Scene') /\ Passes(e, Scene, Scene')
  BY EventPasses DEF HistoryKept
<1>7. ChainInv'
  <2>1. PICK g : ChainTo(g, history, m, Scene)
    BY <1>1 DEF HistoryKept, ChainInv
  <2>2. \E f : ChainTo(f, history', m + 1, Scene')
    BY <1>2, <1>6, <2>1, ChainGrows
  <2> QED BY <1>2, <2>2 DEF ChainInv
<1> QED BY <1>4, <1>5, <1>6, <1>7 DEF HistoryKept

\* The history and the scenes between its events, in every state.
LEMMA HistoryInvariant == Spec => []HistoryKept
<1>1. IInv /\ HistoryKept /\ [Next]_vars => HistoryKept'
  <2> SUFFICES ASSUME IInv, HistoryKept, [Next]_vars PROVE HistoryKept'
    OBVIOUS
  <2>1. ASSUME UNCHANGED <<order, history, position, movement>> PROVE HistoryKept'
    BY <2>1 DEF HistoryKept, StreamInv, TurnsInv, InTurn, Timed, InDependency, Scene, ChainInv
  <2>2. CASE Next
    <3>1. (\E e : EventStep(e) /\ Offered(e)) \/ Finalize
      BY <2>2, StepsAppend DEF IInv
    <3>2. Finalize => UNCHANGED <<order, history, position, movement>>
      BY DEF Finalize, validator
    <3> QED BY <3>1, <3>2, <2>1, HistoryGrows
  <2>3. CASE UNCHANGED vars
    BY <2>1, <2>3 DEF vars, validator
  <2> QED BY <2>2, <2>3
<1> QED BY <1>1, HistoryStarts, Invariant, PTL DEF Spec

-----------------------------------------------------------------------------
(* A stream that came to its end.                                           *)

\* A history that came to its end, with the scenes between its events: what it
\* tells of the order of its events, that nothing is illuminated while carried and
\* that no batch is loaded again.
IsTransfer(e, q) == e.kind \in {"load", "store"} /\ q \in e.atoms

Turned(h, n) ==
  \A i, j \in 1 .. n : i < j =>
    /\ Lasts(h[i]) /\ Lasts(h[j]) /\ Touched(h[i]) \cap Touched(h[j]) # {} => h[i].end <= h[j].start
    /\ h[i].kind = "1q" /\ h[j].kind = "1q" => h[i].end <= h[j].start
    /\ ByAod(h[i]) /\ ByAod(h[j]) => h[i].end <= h[j].start

NoneReused(h, n) ==
  \A i, j \in 1 .. n : i < j /\ h[i].kind = "store" /\ h[j].kind = "load" => h[i].batch # h[j].batch

Judged(h, n, g) ==
  /\ DOMAIN h = 1 .. n
  /\ \A i \in 1 .. n : Fit(h[i]) /\ h[i].index = i - 1
  /\ Turned(h, n)
  /\ Chain(g, h, n) /\ g[n + 1].movement = NoMovement
  /\ \A i \in 1 .. n : h[i].region \cap g[i].movement.held = {}
  /\ NoneReused(h, n)

-----------------------------------------------------------------------------
(* Scenes that last.                                                        *)

\* Without an event of the AOD the scene stays.
LEMMA SceneStays ==
  ASSUME NEW n \in Nat, NEW h, NEW g, Chain(g, h, n),
         NEW a \in 1 .. n + 1, NEW b \in 1 .. n + 1, a <= b,
         \A i \in a .. (b - 1) : ~ByAod(h[i])
  PROVE  g[b] = g[a]
<1> DEFINE T == {i \in 0 .. (b - a) : g[a + i] = g[a]}
<1>1. 0 \in T /\ b - a \in Nat
  OBVIOUS
<1>2. ASSUME NEW i \in Nat, i < b - a, i \in T PROVE i + 1 \in T
  <2>1. a + i \in 1 .. n /\ a + i \in a .. (b - 1) /\ (a + i) + 1 = a + (i + 1) /\ i + 1 \in 0 .. (b - a)
    BY <1>2
  <2>2. Passes(h[a + i], g[a + i], g[(a + i) + 1]) /\ ~ByAod(h[a + i])
    BY <2>1 DEF Chain
  <2>3. g[(a + i) + 1] = g[a + i]
    BY <2>2 DEF Passes, PassesGate, PassesLoad, PassesMove, PassesStore, ByAod, AodKinds
  <2> QED BY <1>2, <2>1, <2>3
<1> HIDE DEF T
<1>3. b - a \in T
  BY <1>1, <1>2, IntervalInduction
<1> QED BY <1>3 DEF T

\* Without a transfer of an atom it stays held or at rest.
LEMMA HoldStays ==
  ASSUME NEW n \in Nat, NEW h, NEW g, Chain(g, h, n), NEW q,
         NEW a \in 1 .. n + 1, NEW b \in 1 .. n + 1, a <= b,
         \A i \in a .. (b - 1) : ~IsTransfer(h[i], q)
  PROVE  q \in g[b].movement.held <=> q \in g[a].movement.held
<1> DEFINE H(i) == q \in g[i].movement.held
           T == {i \in 0 .. (b - a) : H(a + i) <=> H(a)}
<1>1. 0 \in T /\ b - a \in Nat
  OBVIOUS
<1>2. ASSUME NEW i \in Nat, i < b - a, i \in T PROVE i + 1 \in T
  <2>1. a + i \in 1 .. n /\ a + i \in a .. (b - 1) /\ (a + i) + 1 = a + (i + 1) /\ i + 1 \in 0 .. (b - a)
        /\ a + i \in 1 .. n + 1
    BY <1>2
  <2> DEFINE e == h[a + i]
             x == g[a + i]
             y == g[(a + i) + 1]
  <2>2. Passes(e, x, y) /\ ~IsTransfer(e, q) /\ SceneOK(x)
    BY <2>1 DEF Chain
  <2> HIDE DEF e, x, y
  <2>3. x.movement \in MovementType
    BY <2>2 DEF SceneOK
  <2>4. q \in y.movement.held <=> q \in x.movement.held
    <3>1. CASE PassesGate(e, x, y)
      BY <3>1 DEF PassesGate
    <3>2. CASE PassesLoad(e, x, y)
      BY <2>2, <2>3, <3>2 DEF PassesLoad, IsTransfer, MovementType
    <3>3. CASE PassesMove(e, x, y)
      BY <2>3, <3>3 DEF PassesMove, MovementType
    <3>4. CASE PassesStore(e, x, y)
      BY <2>2, <2>3, <3>4 DEF PassesStore, IsTransfer, MovementType, NoMovement
    <3> QED BY <2>2, <3>1, <3>2, <3>3, <3>4 DEF Passes
  <2> QED BY <1>2, <2>1, <2>4 DEF x, y
<1> HIDE DEF T
<1>3. b - a \in T
  BY <1>1, <1>2, IntervalInduction
<1> QED BY <1>3 DEF T

-----------------------------------------------------------------------------
(* Sorting keeps the order of events that wait for one another.             *)
LEMMA SortedInTurn ==
  ASSUME NEW n \in Nat, NEW h, NEW g, Judged(h, n, g), NEW rk, Placed(rk, h, n),
         NEW i \in 1 .. n, NEW j \in 1 .. n, i < j, h[i].end <= h[j].start
  PROVE  rk[i] < rk[j]
<1> DEFINE d == h[i]
           e == h[j]
<1>1. Fit(d) /\ Fit(e) /\ d.index = i - 1 /\ e.index = j - 1
  BY DEF Judged
<1>2. Sortable(d) /\ Sortable(e)
  BY <1>1 DEF Sortable, Fit, EventOK, Kinds
<1>3. d.start <= d.end /\ d.end <= e.start /\ e.start <= e.end
      /\ d.start \in Int /\ d.end \in Int /\ e.start \in Int /\ e.end \in Int
  BY <1>1 DEF Fit, EventOK
<1>4. d.index < e.index
  BY <1>1
<1>5. d.start = e.start /\ d.end = e.end => KindRank(d) = KindRank(e)
  BY <1>1, <1>3 DEF Fit, EventOK, Lasts, KindRank
<1> HIDE DEF d, e
<1>6. Before(d, e)
  BY <1>2, <1>3, <1>4, <1>5, BeforeIs DEF Sortable
<1> QED BY <1>6 DEF Placed, d, e

\* Of the events that touch an atom and last, of the pulses of the beam and of the
\* operations of the AOD the sorted order is the order of the stream.
Bound(d, e) ==
  \/ Lasts(d) /\ Lasts(e) /\ Touched(d) \cap Touched(e) # {}
  \/ d.kind = "1q" /\ e.kind = "1q"
  \/ ByAod(d) /\ ByAod(e)

\* Two events of which one has to wait for the other.
LEMMA BoundKeepOrder ==
  ASSUME NEW n \in Nat, NEW h, NEW g, Judged(h, n, g), NEW rk, Placed(rk, h, n),
         NEW i \in 1 .. n, NEW j \in 1 .. n, i # j, Bound(h[i], h[j])
  PROVE  /\ i < j <=> rk[i] < rk[j]
         /\ rk[i] < rk[j] => h[i].end <= h[j].start
<1>1. i < j => h[i].end <= h[j].start
  BY DEF Judged, Turned, Bound
<1>2. j < i => h[j].end <= h[i].start
  BY DEF Judged, Turned, Bound
<1>3. i < j => rk[i] < rk[j]
  BY <1>1, SortedInTurn
<1>4. j < i => rk[j] < rk[i]
  BY <1>2, SortedInTurn
<1>5. rk[i] \in Nat /\ rk[j] \in Nat
  <2>1. rk[i] \in 1 .. n /\ rk[j] \in 1 .. n
    BY DEF Placed
  <2> QED BY <2>1
<1> QED BY <1>1, <1>3, <1>4, <1>5

-----------------------------------------------------------------------------
(* The replay of the first k sorted events.                                 *)

\* A place in the history that parts the events of the AOD, or the transfers of
\* an atom, as the sorted prefix does.
Cut(rk, k, h, n, m) == \A j \in 1 .. n : ByAod(h[j]) => (rk[j] <= k <=> j < m)
CutOf(rk, k, h, n, m, q) == \A j \in 1 .. n : IsTransfer(h[j], q) => (rk[j] <= k <=> j < m)

Done(rk, k, h, n) == {h[j] : j \in {i \in 1 .. n : rk[i] <= k}}

\* The ends a replay remembers are ends of events it has seen.
EndsSeen(r, D) ==
  /\ \A q \in Atoms : r.useEnd[q] = 0 \/ \E d \in D : Lasts(d) /\ q \in Touched(d) /\ r.useEnd[q] = d.end
  /\ r.beamEnd = 0 \/ \E d \in D : d.kind = "1q" /\ r.beamEnd = d.end
  /\ r.aodEnd = 0 \/ \E d \in D : ByAod(d) /\ r.aodEnd = d.end
  /\ \A b \in r.done : \E d \in D : d.kind = "store" /\ d.batch = b

\* It is in the scene that the validator was in.
InScene(r, a) ==
  /\ r.position = a.position /\ r.active = a.movement.id
  /\ r.held = a.movement.held /\ r.loaded = a.movement.loaded
  /\ r.moved = a.movement.moved /\ r.storing = a.movement.storing

Follows(r, k, rk, h, n, g) ==
  /\ r.ok
  /\ EndsSeen(r, Done(rk, k, h, n))
  /\ \A m \in 1 .. n + 1 : Cut(rk, k, h, n, m) => InScene(r, g[m])
  /\ \A m \in 1 .. n + 1, q \in Atoms :
       CutOf(rk, k, h, n, m, q) => (q \in r.held <=> q \in g[m].movement.held)

\* The event that comes next when k have been replayed.
Comes(i, k, rk, h, n, g) ==
  /\ n \in Nat /\ k \in Nat /\ i \in 1 .. n /\ rk[i] = k + 1
  /\ Judged(h, n, g) /\ Placed(rk, h, n)

\* What the replay has seen when an event comes, and what of it the event waits for.
LEMMA ComesAfter ==
  ASSUME NEW n, NEW k, NEW i, NEW rk, NEW h, NEW g, Comes(i, k, rk, h, n, g)
  PROVE  /\ \A j \in 1 .. n : rk[j] \in Nat /\ (rk[j] <= k <=> rk[j] < rk[i])
                              /\ (rk[j] <= k + 1 <=> rk[j] <= k \/ j = i)
         /\ Done(rk, k + 1, h, n) = Done(rk, k, h, n) \cup {h[i]}
         /\ \A j \in 1 .. n : j # i /\ Bound(h[i], h[j]) =>
              /\ rk[j] <= k <=> j < i
              /\ rk[j] <= k => h[j].end <= h[i].start
<1>0. n \in Nat /\ k \in Nat /\ i \in 1 .. n /\ rk[i] = k + 1 /\ Judged(h, n, g) /\ Placed(rk, h, n)
  BY DEF Comes
<1>1. \A j \in 1 .. n : rk[j] \in Nat /\ (rk[j] = k + 1 => j = i)
  <2> SUFFICES ASSUME NEW j \in 1 .. n PROVE rk[j] \in Nat /\ (rk[j] = k + 1 => j = i)
    OBVIOUS
  <2>1. rk[j] \in 1 .. n
    BY <1>0 DEF Placed
  <2>2. rk[j] = rk[i] => j = i
    BY <1>0 DEF Placed
  <2> QED BY <1>0, <2>1, <2>2
<1>2. \A j \in 1 .. n : (rk[j] <= k <=> rk[j] < rk[i]) /\ (rk[j] <= k + 1 <=> rk[j] <= k \/ j = i)
  BY <1>0, <1>1
<1>3. Done(rk, k + 1, h, n) = Done(rk, k, h, n) \cup {h[i]}
  <2>1. {j \in 1 .. n : rk[j] <= k + 1} = {j \in 1 .. n : rk[j] <= k} \cup {i}
    BY <1>0, <1>2
  <2> QED BY <2>1 DEF Done
<1>4. ASSUME NEW j \in 1 .. n, j # i, Bound(h[i], h[j])
      PROVE  /\ rk[j] <= k <=> j < i
             /\ rk[j] <= k => h[j].end <= h[i].start
  <2>1. Bound(h[j], h[i])
    BY <1>4 DEF Bound
  <2>2. (j < i <=> rk[j] < rk[i]) /\ (rk[j] < rk[i] => h[j].end <= h[i].start)
    BY <1>0, <1>4, <2>1, BoundKeepOrder
  <2> QED BY <1>2, <2>2
<1> QED BY <1>1, <1>2, <1>3, <1>4

\* It is reached with the scene it had in the stream, and finds an atom held if
\* it was held then.
LEMMA CutsAt ==
  ASSUME NEW n, NEW k, NEW i, NEW rk, NEW h, NEW g, Comes(i, k, rk, h, n, g)
  PROVE  /\ ByAod(h[i]) => Cut(rk, k, h, n, i)
         /\ IsGate(h[i]) => \A q \in Touched(h[i]) : CutOf(rk, k, h, n, i, q)
<1>0. n \in Nat /\ i \in 1 .. n /\ \A j \in 1 .. n : Fit(h[j])
  BY DEF Comes, Judged
<1>1. ~(rk[i] <= k)
  BY DEF Comes
<1>2. ASSUME ByAod(h[i]), NEW j \in 1 .. n, ByAod(h[j]) PROVE rk[j] <= k <=> j < i
  <2>1. CASE j = i
    BY <1>0, <1>1, <2>1
  <2>2. CASE j # i
    BY <1>2, <2>2, ComesAfter DEF Bound
  <2> QED BY <2>1, <2>2
<1>3. ASSUME IsGate(h[i]), NEW q \in Touched(h[i]), NEW j \in 1 .. n, IsTransfer(h[j], q)
      PROVE  rk[j] <= k <=> j < i
  <2>1. j # i
    BY <1>3 DEF IsGate, IsTransfer
  <2>2. Lasts(h[i]) /\ Lasts(h[j]) /\ q \in Touched(h[j])
    BY <1>0, <1>3 DEF Fit, EventOK, IsGate, IsTransfer, Touched
  <2>3. Bound(h[i], h[j])
    BY <1>3, <2>2 DEF Bound
  <2> QED BY <2>1, <2>3, ComesAfter
<1> QED BY <1>2, <1>3 DEF Cut, CutOf

\* The replay permits the event: it asks what the validator asked in the stream.
LEMMA PermittedNext ==
  ASSUME NEW n, NEW k, NEW i, NEW rk, NEW h, NEW g, Comes(i, k, rk, h, n, g),
         NEW r, Follows(r, k, rk, h, n, g)
  PROVE  Permitted(r, h[i])
<1> DEFINE e == h[i]
           a == g[i]
           b == g[i + 1]
<1>0. /\ n \in Nat /\ i \in 1 .. n /\ i \in 1 .. n + 1 /\ Fit(e) /\ Passes(e, a, b) /\ SceneOK(a)
      /\ e.region \cap a.movement.held = {}
  <2>1. n \in Nat /\ i \in 1 .. n /\ Judged(h, n, g)
    BY DEF Comes
  <2>2. i \in 1 .. n + 1
    BY <2>1
  <2> QED BY <2>1, <2>2 DEF Judged, Chain
<1>1. EndsSeen(r, Done(rk, k, h, n))
  BY DEF Follows
<1>2. ASSUME NEW d \in Done(rk, k, h, n), Bound(e, d) PROVE e.start >= d.end
  <2>1. PICK j \in 1 .. n : rk[j] <= k /\ d = h[j]
    BY DEF Done
  <2>2. j # i
    BY <2>1 DEF Comes
  <2>3. h[j].end <= h[i].start
    BY <1>2, <2>1, <2>2, ComesAfter
  <2>4. Fit(h[j])
    BY DEF Comes, Judged
  <2> QED BY <1>0, <2>1, <2>3, <2>4 DEF Fit, EventOK
<1>3. ByAod(e) => InScene(r, a)
  BY <1>0, CutsAt DEF Follows
<1>4. IsGate(e) => Touched(e) \cap r.held = {}
  <2> SUFFICES ASSUME IsGate(e), NEW q \in Touched(e) PROVE q \notin r.held
    OBVIOUS
  <2>1. q \in Atoms
    BY <1>0 DEF Fit, EventOK, Touched
  <2>2. q \in r.held <=> q \in a.movement.held
    BY <1>0, <2>1, CutsAt DEF Follows
  <2>3. e.atoms \cap a.movement.held = {}
    BY <1>0 DEF Passes, PassesGate, PassesLoad, PassesMove, PassesStore, IsGate
  <2> QED BY <1>0, <2>2, <2>3 DEF Touched
<1> HIDE DEF e, a, b
<1>5. Lasts(e) => \A q \in Touched(e) : e.start >= r.useEnd[q]
  <2> SUFFICES ASSUME Lasts(e), NEW q \in Touched(e) PROVE e.start >= r.useEnd[q]
    OBVIOUS
  <2>1. q \in Atoms /\ e.start \in Nat
    BY <1>0 DEF Fit, EventOK, Touched
  <2>2. CASE r.useEnd[q] = 0
    BY <2>1, <2>2
  <2>3. CASE \E d \in Done(rk, k, h, n) : Lasts(d) /\ q \in Touched(d) /\ r.useEnd[q] = d.end
    BY <1>2, <2>3 DEF Bound
  <2> QED BY <1>1, <2>1, <2>2, <2>3 DEF EndsSeen
<1>6. e.kind = "1q" => e.start >= r.beamEnd
  BY <1>0, <1>1, <1>2 DEF EndsSeen, Bound, Fit
<1>7. ByAod(e) => e.start >= r.aodEnd
  BY <1>0, <1>1, <1>2 DEF EndsSeen, Bound, Fit
<1>8. ASSUME e.kind = "load"
      PROVE  /\ IF r.active = NoBatch THEN e.batch \notin r.done
                                      ELSE e.batch = r.active /\ ~r.storing
             /\ e.atoms \cap (r.held \cup r.loaded) = {}
             /\ \A q \in e.atoms : r.position[q] = e.from[q]
  <2>1. ByAod(e) /\ InScene(r, a) /\ PassesLoad(e, a, b)
    BY <1>0, <1>3, <1>8 DEF ByAod, AodKinds, Passes, PassesGate, PassesMove, PassesStore, IsGate
  <2>2. a.movement = NoMovement <=> r.active = NoBatch
    BY <1>0, <2>1 DEF InScene, SceneOK, NoMovement
  <2>3. a.movement = NoMovement => e.batch \notin r.done
    <3> SUFFICES ASSUME a.movement = NoMovement, e.batch \in r.done PROVE FALSE
      OBVIOUS
    <3>1. PICK d \in Done(rk, k, h, n) : d.kind = "store" /\ d.batch = e.batch
      BY <1>1 DEF EndsSeen
    <3>2. PICK j \in 1 .. n : rk[j] <= k /\ d = h[j]
      BY <3>1 DEF Done
    <3>3. j # i
      BY <3>2 DEF Comes
    <3>4. j < i
      BY <2>1, <3>1, <3>2, <3>3, ComesAfter DEF Bound, e, ByAod, AodKinds
    <3>5. NoneReused(h, n) /\ i \in 1 .. n
      BY DEF Comes, Judged
    <3> QED BY <1>8, <3>1, <3>2, <3>4, <3>5 DEF NoneReused, e
  <2> QED BY <2>1, <2>2, <2>3 DEF PassesLoad, InScene
<1>9. ASSUME e.kind = "move"
      PROVE  /\ r.active = e.batch /\ ~r.storing
             /\ e.atoms \subseteq r.held
             /\ \A q \in e.atoms : r.position[q] = e.from[q]
             /\ Clean(e, r.position)
  <2>1. InScene(r, a) /\ PassesMove(e, a, b)
    BY <1>0, <1>3, <1>9 DEF ByAod, AodKinds, Passes, PassesGate, PassesLoad, PassesStore, IsGate
  <2> QED BY <2>1 DEF PassesMove, InScene
<1>10. ASSUME e.kind = "store"
       PROVE  /\ r.active = e.batch /\ r.moved
              /\ e.atoms \subseteq r.held
              /\ \A q \in e.atoms : r.position[q] = e.to[q]
              /\ \A p, q \in Atoms \ (r.held \ e.atoms) :
                   r.position[p] = r.position[q] => p = q
  <2>1. InScene(r, a) /\ PassesStore(e, a, b)
    BY <1>0, <1>3, <1>10 DEF ByAod, AodKinds, Passes, PassesGate, PassesLoad, PassesMove, IsGate
  <2>2. Apart(r.position)
    BY <1>0, <2>1 DEF InScene, SceneOK
  <2> QED BY <2>1, <2>2 DEF PassesStore, InScene, Apart
<1>11. Permitted(r, e)
  BY <1>4, <1>5, <1>6, <1>7, <1>8, <1>9, <1>10 DEF Permitted, e
<1> QED BY <1>11 DEF e

-----------------------------------------------------------------------------
(* What the replay of one event changes.                                    *)

ReplayShape(r) == \E T, P, B : r \in ReplayType(T, P, B)

Replayed(x, r, e) ==
  /\ x.ok
  /\ x.useEnd = [q \in Atoms |-> IF Lasts(e) /\ q \in Touched(e) THEN e.end ELSE r.useEnd[q]]
  /\ x.beamEnd = IF e.kind = "1q" THEN e.end ELSE r.beamEnd
  /\ x.aodEnd = IF ByAod(e) THEN e.end ELSE r.aodEnd
  /\ x.done = IF e.kind = "store" /\ e.atoms = r.held THEN r.done \cup {e.batch} ELSE r.done
  /\ ~ByAod(e) => /\ x.position = r.position /\ x.active = r.active /\ x.held = r.held
                  /\ x.loaded = r.loaded /\ x.moved = r.moved /\ x.storing = r.storing
  /\ e.kind = "load" =>
       /\ x.position = r.position /\ x.active = e.batch /\ x.held = r.held \cup e.atoms
       /\ x.loaded = r.loaded \cup e.atoms /\ x.moved = r.moved /\ x.storing = r.storing
  /\ e.kind = "move" =>
       /\ x.position = After(e, r.position) /\ x.active = r.active /\ x.held = r.held
       /\ x.loaded = r.loaded /\ x.moved = TRUE /\ x.storing = r.storing
  /\ e.kind = "store" /\ e.atoms # r.held =>
       /\ x.position = r.position /\ x.active = r.active /\ x.held = r.held \ e.atoms
       /\ x.loaded = r.loaded /\ x.moved = r.moved /\ x.storing = TRUE
  /\ e.kind = "store" /\ e.atoms = r.held =>
       /\ x.position = r.position /\ x.active = NoBatch /\ x.held = {}
       /\ x.loaded = {} /\ x.moved = FALSE /\ x.storing = FALSE

\* The fields of the replay after an event, by the kind of the event.
LEMMA ReplayedFields ==
  ASSUME NEW r, ReplayShape(r), r.ok, NEW e, Permitted(r, e)
  PROVE  Replayed(Replay(r, e), r, e)
<1> DEFINE x == Replay(r, e)
<1>0. PICK T, P, B : r \in ReplayType(T, P, B)
  BY DEF ReplayShape
<1> DEFINE s == IF ByAod(e) THEN AfterAod(r, e) ELSE r
           u == [q \in Atoms |-> IF Lasts(e) /\ q \in Touched(e) THEN e.end ELSE s.useEnd[q]]
           b == IF e.kind = "1q" THEN e.end ELSE s.beamEnd
           Fields == {"ok", "beamEnd", "aodEnd", "useEnd", "position", "done", "active",
                      "held", "loaded", "moved", "storing"}
<1>1. x = [s EXCEPT !.useEnd = u, !.beamEnd = b]
  BY DEF Replay
<1>2. DOMAIN r = Fields
  BY <1>0 DEF ReplayType
<1> HIDE DEF Fields
<1>3. /\ DOMAIN s = Fields /\ s.ok = r.ok /\ s.useEnd = r.useEnd /\ s.beamEnd = r.beamEnd
      /\ s.aodEnd = IF ByAod(e) THEN e.end ELSE r.aodEnd
      /\ s.done = IF e.kind = "store" /\ e.atoms = r.held THEN r.done \cup {e.batch} ELSE r.done
      /\ ~ByAod(e) => s = r
      /\ e.kind = "load" =>
           /\ s.position = r.position /\ s.active = e.batch /\ s.held = r.held \cup e.atoms
           /\ s.loaded = r.loaded \cup e.atoms /\ s.moved = r.moved /\ s.storing = r.storing
      /\ e.kind = "move" =>
           /\ s.position = After(e, r.position) /\ s.active = r.active /\ s.held = r.held
           /\ s.loaded = r.loaded /\ s.moved = TRUE /\ s.storing = r.storing
      /\ e.kind = "store" /\ e.atoms # r.held =>
           /\ s.position = r.position /\ s.active = r.active /\ s.held = r.held \ e.atoms
           /\ s.loaded = r.loaded /\ s.moved = r.moved /\ s.storing = TRUE
      /\ e.kind = "store" /\ e.atoms = r.held =>
           /\ s.position = r.position /\ s.active = NoBatch /\ s.held = {}
           /\ s.loaded = {} /\ s.moved = FALSE /\ s.storing = FALSE
  <2>1. CASE ~ByAod(e)
    BY <1>2, <2>1 DEF ByAod, AodKinds
  <2>2. CASE e.kind = "load"
    <3>1. s = [r EXCEPT !.aodEnd = e.end, !.active = e.batch,
                        !.held = r.held \cup e.atoms, !.loaded = r.loaded \cup e.atoms]
      BY <2>2 DEF AfterAod, ByAod, AodKinds
    <3> HIDE DEF s
    <3> QED BY <1>2, <2>2, <3>1 DEF ByAod, AodKinds, Fields
  <2>3. CASE e.kind = "move"
    <3>1. s = [r EXCEPT !.aodEnd = e.end, !.moved = TRUE, !.position = After(e, r.position)]
      BY <2>3 DEF AfterAod, ByAod, AodKinds
    <3> HIDE DEF s
    <3> QED BY <1>2, <2>3, <3>1 DEF ByAod, AodKinds, Fields
  <2>4. CASE e.kind = "store" /\ e.atoms # r.held
    <3>1. s = [r EXCEPT !.aodEnd = e.end, !.storing = TRUE, !.held = r.held \ e.atoms]
      BY <2>4 DEF AfterAod, ByAod, AodKinds
    <3> HIDE DEF s
    <3> QED BY <1>2, <2>4, <3>1 DEF ByAod, AodKinds, Fields
  <2>5. CASE e.kind = "store" /\ e.atoms = r.held
    <3>1. s = [r EXCEPT !.aodEnd = e.end, !.done = r.done \cup {e.batch}, !.active = NoBatch,
                        !.held = {}, !.loaded = {}, !.moved = FALSE, !.storing = FALSE]
      BY <2>5 DEF AfterAod, ByAod, AodKinds
    <3> HIDE DEF s
    <3> QED BY <1>2, <2>5, <3>1 DEF ByAod, AodKinds, Fields
  <2> QED BY <2>1, <2>2, <2>3, <2>4, <2>5 DEF ByAod, AodKinds
<1>4. /\ u = [q \in Atoms |-> IF Lasts(e) /\ q \in Touched(e) THEN e.end ELSE r.useEnd[q]]
      /\ b = IF e.kind = "1q" THEN e.end ELSE r.beamEnd
  BY <1>3
<1> HIDE DEF s, u, b
<1>5. /\ x.useEnd = u /\ x.beamEnd = b /\ x.ok = s.ok /\ x.aodEnd = s.aodEnd /\ x.done = s.done
      /\ x.position = s.position /\ x.active = s.active /\ x.held = s.held
      /\ x.loaded = s.loaded /\ x.moved = s.moved /\ x.storing = s.storing
  BY <1>1, <1>3 DEF Fields
<1> HIDE DEF x
<1>6. Replayed(x, r, e)
  BY <1>3, <1>4, <1>5 DEF Replayed
<1> QED BY <1>6 DEF x

\* In the scene of the stream an event of the AOD leads to its next scene.
LEMMA SceneNext ==
  ASSUME NEW r, NEW x, NEW e, Fit(e), Replayed(x, r, e),
         NEW a, SceneOK(a), InScene(r, a), NEW b, Passes(e, a, b), ByAod(e)
  PROVE  InScene(x, b)
<1>1. a.movement \in MovementType /\ e.batch # NoBatch
  BY DEF SceneOK, Fit, EventOK
<1>2. CASE PassesLoad(e, a, b)
  <2>1. /\ b.movement.id = e.batch /\ b.movement.held = a.movement.held \cup e.atoms
        /\ b.movement.loaded = a.movement.loaded \cup e.atoms
        /\ b.movement.moved = a.movement.moved /\ b.movement.storing = a.movement.storing
    BY <1>1, <1>2 DEF PassesLoad, MovementType
  <2> QED BY <1>2, <2>1 DEF Replayed, ByAod, AodKinds, PassesLoad, InScene
<1>3. CASE PassesMove(e, a, b)
  <2>1. /\ b.movement.id = a.movement.id /\ b.movement.held = a.movement.held
        /\ b.movement.loaded = a.movement.loaded
        /\ b.movement.moved = TRUE /\ b.movement.storing = a.movement.storing
    BY <1>1, <1>3 DEF PassesMove, MovementType
  <2>2. e.kind = "move" /\ b.position = After(e, a.position)
    BY <1>3 DEF PassesMove
  <2>3. /\ x.position = After(e, r.position) /\ x.active = r.active /\ x.held = r.held
        /\ x.loaded = r.loaded /\ x.moved = TRUE /\ x.storing = r.storing
    BY <2>2 DEF Replayed
  <2>4. /\ r.position = a.position /\ r.active = a.movement.id /\ r.held = a.movement.held
        /\ r.loaded = a.movement.loaded /\ r.storing = a.movement.storing
    BY DEF InScene
  <2> QED BY <2>1, <2>2, <2>3, <2>4 DEF InScene
<1>4. CASE PassesStore(e, a, b)
  <2>1. CASE e.atoms = a.movement.held
    <3>1. b.movement = NoMovement
      BY <1>4, <2>1 DEF PassesStore
    <3>2. e.kind = "store" /\ e.atoms = r.held /\ x.position = r.position /\ b.position = a.position
      BY <1>4, <2>1 DEF Replayed, PassesStore, InScene
    <3>3. /\ x.active = NoBatch /\ x.held = {} /\ x.loaded = {} /\ x.moved = FALSE /\ x.storing = FALSE
      BY <3>2 DEF Replayed
    <3>4. /\ b.movement.id = NoBatch /\ b.movement.held = {} /\ b.movement.loaded = {}
          /\ b.movement.moved = FALSE /\ b.movement.storing = FALSE
      BY <3>1 DEF NoMovement
    <3>5. r.position = a.position
      BY DEF InScene
    <3> QED BY <3>2, <3>3, <3>4, <3>5 DEF InScene
  <2>2. CASE e.atoms # a.movement.held
    <3>1. /\ b.movement.id = a.movement.id /\ b.movement.held = a.movement.held \ e.atoms
          /\ b.movement.loaded = a.movement.loaded
          /\ b.movement.moved = a.movement.moved /\ b.movement.storing = TRUE
      BY <1>1, <1>4, <2>2 DEF PassesStore, MovementType
    <3> QED BY <1>4, <2>2, <3>1 DEF Replayed, ByAod, AodKinds, PassesStore, InScene
  <2> QED BY <2>1, <2>2
<1> QED BY <1>2, <1>3, <1>4 DEF Passes, PassesGate, IsGate, ByAod, AodKinds

\* The ends it remembers are again ends of events it has seen.
LEMMA EndsNext ==
  ASSUME NEW r, NEW x, NEW e, Fit(e), Replayed(x, r, e), NEW D, EndsSeen(r, D)
  PROVE  EndsSeen(x, D \cup {e})
<1>1. /\ x.useEnd = [q \in Atoms |-> IF Lasts(e) /\ q \in Touched(e) THEN e.end ELSE r.useEnd[q]]
      /\ x.beamEnd = IF e.kind = "1q" THEN e.end ELSE r.beamEnd
      /\ x.aodEnd = IF ByAod(e) THEN e.end ELSE r.aodEnd
      /\ x.done = IF e.kind = "store" /\ e.atoms = r.held THEN r.done \cup {e.batch} ELSE r.done
  BY DEF Replayed
<1>2. ASSUME NEW q \in Atoms
      PROVE  x.useEnd[q] = 0 \/ \E d \in D \cup {e} : Lasts(d) /\ q \in Touched(d) /\ x.useEnd[q] = d.end
  BY <1>1 DEF EndsSeen
<1>3. x.beamEnd = 0 \/ \E d \in D \cup {e} : d.kind = "1q" /\ x.beamEnd = d.end
  BY <1>1 DEF EndsSeen
<1>4. x.aodEnd = 0 \/ \E d \in D \cup {e} : ByAod(d) /\ x.aodEnd = d.end
  BY <1>1 DEF EndsSeen
<1>5. \A b \in x.done : \E d \in D \cup {e} : d.kind = "store" /\ d.batch = b
  BY <1>1 DEF EndsSeen
<1> QED BY <1>2, <1>3, <1>4, <1>5 DEF EndsSeen

\* The replay of the next event follows the stream again.
LEMMA FollowsNext ==
  ASSUME NEW n, NEW k, NEW i, NEW rk, NEW h, NEW g, Comes(i, k, rk, h, n, g),
         NEW r, ReplayShape(r), Follows(r, k, rk, h, n, g), NEW x, x = Replay(r, h[i])
  PROVE  Follows(x, k + 1, rk, h, n, g)
<1> DEFINE e == h[i]
           a == g[i]
           b == g[i + 1]
<1>0. /\ n \in Nat /\ k \in Nat /\ i \in 1 .. n /\ rk[i] = k + 1
      /\ Fit(e) /\ Passes(e, a, b) /\ SceneOK(a) /\ SceneOK(b) /\ Chain(g, h, n)
  <2>1. n \in Nat /\ k \in Nat /\ i \in 1 .. n /\ rk[i] = k + 1 /\ Judged(h, n, g)
    BY DEF Comes
  <2>2. i \in 1 .. n + 1 /\ i + 1 \in 1 .. n + 1
    BY <2>1
  <2> QED BY <2>1, <2>2 DEF Judged, Chain
<1>1. r.ok /\ EndsSeen(r, Done(rk, k, h, n)) /\ Permitted(r, e)
  BY PermittedNext DEF Follows
<1> HIDE DEF e, a, b
<1>2. Replayed(x, r, e)
  BY <1>1, ReplayedFields DEF e
<1>3. x.ok
  BY <1>2 DEF Replayed
<1>4. EndsSeen(x, Done(rk, k + 1, h, n))
  <2>1. Done(rk, k + 1, h, n) = Done(rk, k, h, n) \cup {e}
    BY ComesAfter DEF e
  <2> QED BY <1>0, <1>1, <1>2, <2>1, EndsNext
<1>5. ASSUME NEW j \in 1 .. n
      PROVE  rk[j] \in Nat /\ (rk[j] <= k + 1 <=> rk[j] <= k \/ j = i) /\ (rk[j] <= k <=> rk[j] < rk[i])
  BY ComesAfter
<1>6. ByAod(e) => InScene(x, b)
  <2> SUFFICES ASSUME ByAod(e) PROVE InScene(x, b)
    OBVIOUS
  <2>1. Cut(rk, k, h, n, i) /\ i \in 1 .. n + 1
    BY <1>0, CutsAt DEF e
  <2>2. InScene(r, a)
    BY <2>1 DEF Follows, a
  <2> QED BY <1>0, <1>1, <1>2, <2>2, SceneNext
<1>7. ASSUME NEW m \in 1 .. n + 1, Cut(rk, k + 1, h, n, m) PROVE InScene(x, g[m])
  <2>1. CASE ByAod(e)
    <3>1. i < m
      BY <1>0, <1>5, <1>7, <2>1 DEF Cut, e
    <3>2. ASSUME NEW j \in i + 1 .. (m - 1) PROVE ~ByAod(h[j])
      <4>1. j \in 1 .. n /\ j # i /\ i < j /\ j < m
        BY <1>0
      <4> SUFFICES ASSUME ByAod(h[j]) PROVE FALSE
        OBVIOUS
      <4>2. rk[j] <= k + 1
        BY <1>7, <4>1 DEF Cut
      <4>3. rk[j] <= k
        BY <1>5, <4>1, <4>2
      <4>4. Bound(h[i], h[j])
        BY <2>1 DEF Bound, e
      <4>5. j < i
        BY <4>1, <4>3, <4>4, ComesAfter
      <4> QED BY <1>0, <4>1, <4>5
    <3>3. i + 1 \in 1 .. n + 1 /\ i + 1 <= m
      BY <1>0, <3>1
    <3>4. g[m] = b
      BY <1>0, <3>2, <3>3, SceneStays DEF b
    <3> QED BY <1>6, <2>1, <3>4
  <2>2. CASE ~ByAod(e)
    <3>1. Cut(rk, k, h, n, m)
      <4> SUFFICES ASSUME NEW j \in 1 .. n, ByAod(h[j]) PROVE rk[j] <= k <=> j < m
        BY DEF Cut
      <4>1. j # i
        BY <2>2 DEF e
      <4>2. rk[j] <= k + 1 <=> j < m
        BY <1>7 DEF Cut
      <4> QED BY <1>5, <4>1, <4>2
    <3>2. InScene(r, g[m])
      BY <3>1 DEF Follows
    <3> QED BY <1>2, <2>2, <3>2 DEF InScene, Replayed
  <2> QED BY <2>1, <2>2
<1>8. ASSUME NEW m \in 1 .. n + 1, NEW q \in Atoms, CutOf(rk, k + 1, h, n, m, q)
      PROVE  q \in x.held <=> q \in g[m].movement.held
  <2>1. CASE IsTransfer(e, q)
    <3>0. ByAod(e)
      BY <2>1 DEF IsTransfer, ByAod, AodKinds
    <3>1. i < m
      BY <1>0, <1>5, <1>8, <2>1 DEF CutOf, e
    <3>2. ASSUME NEW j \in i + 1 .. (m - 1) PROVE ~IsTransfer(h[j], q)
      <4>1. j \in 1 .. n /\ j # i /\ i < j /\ j < m
        BY <1>0
      <4> SUFFICES ASSUME IsTransfer(h[j], q) PROVE FALSE
        OBVIOUS
      <4>2. rk[j] <= k + 1
        BY <1>8, <4>1 DEF CutOf
      <4>3. rk[j] <= k
        BY <1>5, <4>1, <4>2
      <4>4. Bound(h[i], h[j])
        BY <3>0 DEF Bound, e, IsTransfer, ByAod, AodKinds
      <4>5. j < i
        BY <4>1, <4>3, <4>4, ComesAfter
      <4> QED BY <1>0, <4>1, <4>5
    <3>3. i + 1 \in 1 .. n + 1 /\ i + 1 <= m
      BY <1>0, <3>1
    <3>4. q \in g[m].movement.held <=> q \in b.movement.held
      BY <1>0, <3>2, <3>3, HoldStays DEF b
    <3> QED BY <1>6, <3>0, <3>4 DEF InScene
  <2>2. CASE ~IsTransfer(e, q)
    <3>1. CutOf(rk, k, h, n, m, q)
      <4> SUFFICES ASSUME NEW j \in 1 .. n, IsTransfer(h[j], q) PROVE rk[j] <= k <=> j < m
        BY DEF CutOf
      <4>1. j # i
        BY <2>2 DEF e
      <4>2. rk[j] <= k + 1 <=> j < m
        BY <1>8 DEF CutOf
      <4> QED BY <1>5, <4>1, <4>2
    <3>2. q \in r.held <=> q \in g[m].movement.held
      BY <3>1 DEF Follows
    <3>3. q \in x.held <=> q \in r.held
      <4>1. CASE ~ByAod(e)
        BY <1>2, <4>1 DEF Replayed
      <4>2. CASE e.kind = "load"
        <5>1. x.held = r.held \cup e.atoms
          BY <1>2, <4>2 DEF Replayed
        <5> QED BY <2>2, <4>2, <5>1 DEF IsTransfer
      <4>3. CASE e.kind = "move"
        BY <1>2, <4>3 DEF Replayed
      <4>4. CASE e.kind = "store" /\ e.atoms # r.held
        <5>1. x.held = r.held \ e.atoms
          BY <1>2, <4>4 DEF Replayed
        <5> QED BY <2>2, <4>4, <5>1 DEF IsTransfer
      <4>5. CASE e.kind = "store" /\ e.atoms = r.held
        <5>1. x.held = {}
          BY <1>2, <4>5 DEF Replayed
        <5> QED BY <2>2, <4>5, <5>1 DEF IsTransfer
      <4> QED BY <4>1, <4>2, <4>3, <4>4, <4>5 DEF ByAod, AodKinds
    <3> QED BY <3>2, <3>3
  <2> QED BY <2>1, <2>2
<1> QED BY <1>3, <1>4, <1>7, <1>8 DEF Follows

\* Before the first event the replay is in the first scene.
LEMMA FollowsFirst ==
  ASSUME NEW n \in Nat, NEW rk, NEW h, NEW g, Judged(h, n, g), Placed(rk, h, n)
  PROVE  Follows(Fresh, 0, rk, h, n, g)
<1>1. /\ Chain(g, h, n) /\ g[1].position = Homes /\ g[1].movement = NoMovement
  BY DEF Judged, Chain
<1>2. /\ Fresh.ok /\ Fresh.beamEnd = 0 /\ Fresh.aodEnd = 0 /\ Fresh.useEnd = [q \in Atoms |-> 0]
      /\ Fresh.position = Homes /\ Fresh.done = {} /\ Fresh.active = NoBatch
      /\ Fresh.held = {} /\ Fresh.loaded = {} /\ Fresh.moved = FALSE /\ Fresh.storing = FALSE
  BY DEF Fresh
<1>3. EndsSeen(Fresh, Done(rk, 0, h, n))
  BY <1>2 DEF EndsSeen
<1>4. ASSUME NEW j \in 1 .. n PROVE ~(rk[j] <= 0)
  <2>1. rk[j] \in 1 .. n
    BY DEF Placed
  <2> QED BY <2>1
<1>5. /\ NoMovement.id = NoBatch /\ NoMovement.held = {} /\ NoMovement.loaded = {}
      /\ NoMovement.moved = FALSE /\ NoMovement.storing = FALSE
  BY DEF NoMovement
<1>6. ASSUME NEW m \in 1 .. n + 1, Cut(rk, 0, h, n, m) PROVE InScene(Fresh, g[m])
  <2>1. ASSUME NEW j \in 1 .. (m - 1) PROVE ~ByAod(h[j])
    <3>1. j \in 1 .. n /\ j < m
      OBVIOUS
    <3> QED BY <1>4, <1>6, <3>1 DEF Cut
  <2>2. 1 \in 1 .. n + 1 /\ 1 <= m
    OBVIOUS
  <2>3. g[m] = g[1]
    BY <1>1, <2>1, <2>2, SceneStays
  <2> QED BY <1>1, <1>2, <1>5, <2>3 DEF InScene
<1>7. ASSUME NEW m \in 1 .. n + 1, NEW q \in Atoms, CutOf(rk, 0, h, n, m, q)
      PROVE  q \in Fresh.held <=> q \in g[m].movement.held
  <2>1. ASSUME NEW j \in 1 .. (m - 1) PROVE ~IsTransfer(h[j], q)
    <3>1. j \in 1 .. n /\ j < m
      OBVIOUS
    <3> QED BY <1>4, <1>7, <3>1 DEF CutOf
  <2>2. 1 \in 1 .. n + 1 /\ 1 <= m
    OBVIOUS
  <2>3. q \in g[m].movement.held <=> q \in g[1].movement.held
    BY <1>1, <2>1, <2>2, HoldStays
  <2> QED BY <1>1, <1>2, <1>5, <2>3
<1> QED BY <1>2, <1>3, <1>6, <1>7 DEF Follows

\* A replay starts with values.
LEMMA FreshTyped == Fresh \in ReplayType(Int, Places, Nat)
BY TraceAssumption DEF Fresh, ReplayType, NoBatch

\* The sorted events can be replayed.
LEMMA JudgedReplayable ==
  ASSUME NEW n \in Nat, NEW h, NEW g, Judged(h, n, g), NEW rk, Placed(rk, h, n)
  PROVE  Replayable(Sorted(h), n, Int, Places, Nat)
<1> DEFINE s == Sorted(h)
<1>1. DOMAIN s = 1 .. n
  BY DEF Placed
<1>2. ASSUME NEW k \in 1 .. n PROVE ReplayedFrom(s[k], Int, Places, Nat)
  <2>1. PICK i \in 1 .. n : rk[i] = k
    BY DEF Placed
  <2>2. s[k] = h[i] /\ Fit(h[i])
    BY <2>1 DEF Placed, Judged
  <2> HIDE DEF s
  <2>3. EventOK(h[i]) /\ (h[i].kind = "move" => h[i].to \in [h[i].atoms -> Places])
    BY <2>2 DEF Fit
  <2>4. ReplayedFrom(h[i], Int, Places, Nat)
    BY <2>3 DEF EventOK, Kinds, ReplayedFrom
  <2> QED BY <2>2, <2>4
<1> QED BY <1>1, <1>2 DEF Replayable

\* The events of the history can be sorted.
LEMMA JudgedStream ==
  ASSUME NEW n \in Nat, NEW h, NEW g, Judged(h, n, g)
  PROVE  Stream(h, n)
<1>1. ASSUME NEW i \in 1 .. n PROVE Sortable(h[i]) /\ h[i].index = i - 1
  <2>1. Fit(h[i]) /\ h[i].index = i - 1
    BY DEF Judged
  <2>2. EventOK(h[i])
    BY <2>1 DEF Fit
  <2> QED BY <2>1, <2>2 DEF Sortable, EventOK, Kinds
<1> QED BY <1>1 DEF Stream, Judged

\* A stream that was let through in turn, and put down all it carried, is accepted
\* by the reference in sorted order.
LEMMA ReplayAccepts ==
  ASSUME NEW n \in Nat, NEW h, NEW g, Judged(h, n, g)
  PROVE  Accepted(h)
<1>1. PICK rk : Placed(rk, h, n)
  BY JudgedStream, SortedPlaces
<1>2. Replayable(Sorted(h), n, Int, Places, Nat)
  BY <1>1, JudgedReplayable
<1>3. NoBatch \in Nat
  BY DEF NoBatch
<1>4. PICK f \in [0 .. n -> ReplayType(Int, Places, Nat)] :
        ReplayOf(f, Sorted(h), n) /\ FoldLeft(Replay, Fresh, Sorted(h)) = f[n]
  BY <1>2, <1>3, FreshTyped, FoldIsReplay
<1> DEFINE T == {k \in 0 .. n : Follows(f[k], k, rk, h, n, g)}
<1>5. 0 \in T
  <2>1. f[0] = Fresh
    BY <1>4 DEF ReplayOf
  <2> QED BY <1>1, <2>1, FollowsFirst
<1>6. ASSUME NEW k \in Nat, k < n, k \in T PROVE k + 1 \in T
  <2>0. k + 1 \in 1 .. n /\ k \in 0 .. n
    BY <1>6
  <2>1. PICK i \in 1 .. n : rk[i] = k + 1
    BY <1>1, <2>0 DEF Placed
  <2>2. Comes(i, k, rk, h, n, g)
    BY <1>1, <2>1 DEF Comes
  <2>3. ReplayShape(f[k])
    <3>1. f[k] \in ReplayType(Int, Places, Nat)
      BY <1>4, <2>0
    <3> QED BY <3>1 DEF ReplayShape
  <2>4. f[k + 1] = Replay(f[k], h[i])
    <3>1. Sorted(h)[k + 1] = h[i]
      BY <1>1, <2>1 DEF Placed
    <3>2. f[k + 1] = Replay(f[k + 1 - 1], Sorted(h)[k + 1])
      BY <1>4, <2>0 DEF ReplayOf
    <3> QED BY <3>1, <3>2
  <2>5. Follows(f[k], k, rk, h, n, g)
    BY <1>6
  <2> HIDE DEF T
  <2>6. Follows(f[k + 1], k + 1, rk, h, n, g)
    BY <2>2, <2>3, <2>4, <2>5, FollowsNext
  <2> QED BY <2>0, <2>6 DEF T
<1> HIDE DEF T
<1>7. n \in T
  <2>1. \A i \in 0 .. n : i \in T
    BY <1>5, <1>6, IntervalInduction
  <2> QED BY <2>1
<1>8. Follows(f[n], n, rk, h, n, g)
  BY <1>7 DEF T
<1>9. Cut(rk, n, h, n, n + 1)
  <2>1. ASSUME NEW j \in 1 .. n PROVE rk[j] <= n /\ j < n + 1
    <3>1. rk[j] \in 1 .. n
      BY <1>1 DEF Placed
    <3> QED BY <3>1
  <2> QED BY <2>1 DEF Cut
<1>10. InScene(f[n], g[n + 1])
  <2>1. n + 1 \in 1 .. n + 1
    OBVIOUS
  <2> QED BY <1>8, <1>9, <2>1 DEF Follows
<1>11. f[n].ok /\ f[n].active = NoBatch
  BY <1>8, <1>10 DEF Follows, InScene, Judged, NoMovement
<1> QED BY <1>4, <1>11 DEF Accepted, Verdict

\* The maximum of a set of numbers that has one.
LEMMA MaxIs ==
  ASSUME NEW S \in SUBSET Int, NEW x \in S, \A y \in S : y <= x
  PROVE  Max(S) = x
<1>1. Max(S) \in S /\ \A y \in S : Max(S) >= y
  BY DEF Max
<1>2. Max(S) \in Int /\ x \in Int
  BY <1>1
<1> QED BY <1>1, <1>2

\* A set of numbers up to a bound has its maximum in it.
LEMMA MaxOfInterval ==
  ASSUME NEW k \in Nat, NEW S \in SUBSET (1 .. k), S # {}
  PROVE  Max(S) \in S /\ \A y \in S : y <= Max(S)
<1> DEFINE T == {k - x : x \in S}
<1>1. T \in SUBSET Nat /\ T # {}
  <2>1. \A x \in S : x \in Int /\ 1 <= x /\ x <= k
    OBVIOUS
  <2>2. \A x \in S : k - x \in Nat
    BY <2>1
  <2> QED BY <2>2
<1>2. PICK m \in T : \A y \in T : m <= y
  BY <1>1, LeastElement
<1>3. PICK x \in S : m = k - x
  BY <1>2
<1>4. \A y \in S : y <= x
  <2> TAKE y \in S
  <2>1. k - x <= k - y
    BY <1>2, <1>3
  <2>2. x \in Int /\ y \in Int
    OBVIOUS
  <2> QED BY <2>1, <2>2
<1>5. S \in SUBSET Int
  OBVIOUS
<1>6. Max(S) = x
  BY <1>4, <1>5, MaxIs
<1> QED BY <1>4, <1>6

-----------------------------------------------------------------------------
\* A stream ends with nothing in the air.
EndInv == stage = "final" => movement = NoMovement

\* A stream is not ended while a batch is carried.
LEMMA EndKept == IInv /\ EndInv /\ [Next]_vars => EndInv'
<1> SUFFICES ASSUME IInv, EndInv, [Next]_vars PROVE EndInv'
  OBVIOUS
<1>1. CASE UNCHANGED vars
  BY <1>1 DEF EndInv, vars, validator
<1>2. CASE Next
  <2>1. (\E e : EventStep(e) /\ Offered(e)) \/ Finalize
    BY <1>2, StepsAppend DEF IInv
  <2>2. CASE Finalize
    BY <2>2 DEF Finalize, EndInv, validator
  <2>3. ASSUME NEW e, EventStep(e) PROVE EndInv'
    <3>1. Consume(e)
      BY <2>3 DEF EventStep, GateStep, LoadStep, MoveStep, StoreStep, Stepped
    <3>2. stage' # "final"
      BY <3>1 DEF Consume
    <3> QED BY <3>2 DEF EndInv
  <2> QED BY <2>1, <2>2, <2>3
<1> QED BY <1>1, <1>2

\* This holds in every state.
LEMMA EndInvariant == Spec => []EndInv
<1>1. Init => EndInv
  BY DEF Init, EndInv
<1> QED BY <1>1, EndKept, Invariant, PTL DEF Spec

-----------------------------------------------------------------------------
\* What the AOD carries it has loaded and not stored since.
LEMMA HeldIsCarried ==
  ASSUME NEW n \in Nat, NEW g, Chain(g, history, n), NEW i \in 1 .. n, NEW q,
         q \in g[i].movement.held
  PROVE  CarriedAt(q, i - 1)
<1> DEFINE S == {j \in 1 .. (i - 1) : history[j].kind \in {"load", "store"} /\ q \in history[j].atoms}
<1>0. i - 1 \in Nat /\ i \in 1 .. n + 1 /\ 1 \in 1 .. n + 1 /\ 1 <= i
  OBVIOUS
<1>1. \A j \in 1 .. (i - 1) : j \in S <=> IsTransfer(history[j], q)
  BY DEF IsTransfer
<1>2. S \in SUBSET (1 .. (i - 1))
  OBVIOUS
<1>3. CarriedAt(q, i - 1) <=> S # {} /\ history[Max(S)].kind = "load"
  BY DEF CarriedAt
<1> HIDE DEF S
<1>4. S # {}
  <2> SUFFICES ASSUME S = {} PROVE FALSE
    OBVIOUS
  <2>1. \A j \in 1 .. (i - 1) : ~IsTransfer(history[j], q)
    BY <1>1
  <2>2. q \in g[1].movement.held
    BY <1>0, <2>1, HoldStays
  <2>3. g[1].movement = NoMovement
    BY DEF Chain
  <2> QED BY <2>2, <2>3 DEF NoMovement
<1>5. PICK m : m = Max(S)
  OBVIOUS
<1>6. m \in S /\ \A y \in S : y <= m
  BY <1>0, <1>2, <1>4, <1>5, MaxOfInterval
<1>7. m \in 1 .. (i - 1)
  BY <1>2, <1>6
<1>8. \A j \in m + 1 .. (i - 1) : ~IsTransfer(history[j], q)
  <2> TAKE j \in m + 1 .. (i - 1)
  <2>1. j \in 1 .. (i - 1) /\ ~(j <= m)
    BY <1>7
  <2> QED BY <1>1, <1>6, <2>1
<1>9. m + 1 \in 1 .. n + 1 /\ m + 1 <= i /\ m \in 1 .. n
  BY <1>7
<1>10. q \in g[m + 1].movement.held
  <2>1. PICK a \in 1 .. n + 1 : a = m + 1
    BY <1>9
  <2>2. a <= i /\ \A j \in a .. (i - 1) : ~IsTransfer(history[j], q)
    BY <1>8, <1>9, <2>1
  <2>3. q \in g[i].movement.held <=> q \in g[a].movement.held
    BY <1>0, <2>2, HoldStays
  <2> QED BY <2>1, <2>3
<1>11. Passes(history[m], g[m], g[m + 1])
  BY <1>9 DEF Chain
<1>12. IsTransfer(history[m], q)
  BY <1>1, <1>6, <1>7
<1>13. SceneOK(g[m])
  BY <1>9 DEF Chain
<1>14. history[m].kind # "store"
  <2> SUFFICES ASSUME history[m].kind = "store" PROVE FALSE
    OBVIOUS
  <2>1. PassesStore(history[m], g[m], g[m + 1])
    BY <1>11 DEF Passes, PassesGate, PassesLoad, PassesMove, IsGate
  <2>2. g[m + 1].movement # NoMovement
    BY <1>10 DEF NoMovement
  <2>3. g[m + 1].movement.held = g[m].movement.held \ history[m].atoms
    BY <1>13, <2>1, <2>2 DEF PassesStore, SceneOK, MovementType
  <2> QED BY <1>10, <1>12, <2>3 DEF IsTransfer
<1> QED BY <1>3, <1>4, <1>5, <1>12, <1>14 DEF IsTransfer

\* What the reference asks of the history is so, but for the three gaps.
LEMMA FinalIsJudged ==
  ASSUME IInv, HistoryKept, EndInv, stage = "final", ~AodOverlaps, ~LitWhileCarried, ~BatchReused
  PROVE  \E n \in Nat : \E g : Judged(history, n, g)
<1>0. /\ history \in Seq(Events(history)) /\ order \in {"chronological", "dependency"}
      /\ StreamInv /\ TurnsInv /\ ChainInv
  BY DEF IInv, HistoryInv, ClockInv, HistoryKept
<1>1. PICK n : n = Len(history)
  OBVIOUS
<1>2. n \in Nat /\ DOMAIN history = 1 .. n
  BY <1>0, <1>1
<1>3. PICK g : ChainTo(g, history, n, Scene)
  BY <1>0, <1>1 DEF ChainInv
<1>4. Chain(g, history, n) /\ g[n + 1].movement = NoMovement
  BY <1>3 DEF ChainTo, Scene, EndInv
<1>5. \A i \in 1 .. n : Fit(history[i]) /\ history[i].index = i - 1
  BY <1>0, <1>2 DEF StreamInv
<1>6. Turned(history, n)
  <2> SUFFICES ASSUME NEW i \in 1 .. n, NEW j \in 1 .. n, i < j
               PROVE  /\ Lasts(history[i]) /\ Lasts(history[j]) /\ Touched(history[i]) \cap Touched(history[j]) # {}
                           => history[i].end <= history[j].start
                      /\ history[i].kind = "1q" /\ history[j].kind = "1q" => history[i].end <= history[j].start
                      /\ ByAod(history[i]) /\ ByAod(history[j]) => history[i].end <= history[j].start
    BY DEF Turned
  <2>1. InTurn(history[i], history[j])
    BY <1>0, <1>2 DEF TurnsInv
  <2>2. ASSUME ByAod(history[i]), ByAod(history[j]), ~InDependency
        PROVE  history[i].end <= history[j].start
    <3>1. order = "chronological"
      BY <1>0, <2>2 DEF InDependency
    <3>2. history[i] \in OfKind(history, AodKinds) /\ history[j] \in OfKind(history, AodKinds)
      BY <1>2, <2>2 DEF OfKind, Events, ByAod
    <3>3. history[i].index < history[j].index
      BY <1>5
    <3>4. ~(history[j].start < history[i].end)
      BY <3>1, <3>2, <3>3 DEF AodOverlaps
    <3>5. history[j].start \in Int /\ history[i].end \in Int
      BY <1>5 DEF Fit, EventOK
    <3> QED BY <3>4, <3>5
  <2> QED BY <2>1, <2>2 DEF InTurn, Timed
<1>7. \A i \in 1 .. n : history[i].region \cap g[i].movement.held = {}
  <2> SUFFICES ASSUME NEW i \in 1 .. n, NEW q \in history[i].region, q \in g[i].movement.held
               PROVE  FALSE
    OBVIOUS
  <2>1. history[i].kind = "2q"
    BY <1>5 DEF Fit
  <2>2. CarriedAt(q, i - 1)
    BY <1>2, <1>4, HeldIsCarried
  <2> QED BY <1>2, <2>1, <2>2 DEF LitWhileCarried
<1>8. NoneReused(history, n)
  <2> SUFFICES ASSUME NEW i \in 1 .. n, NEW j \in 1 .. n, i < j, history[i].kind = "store",
                      history[j].kind = "load", history[i].batch = history[j].batch
               PROVE  FALSE
    BY DEF NoneReused
  <2>1. history[i] \in Events(history) /\ history[j] \in Events(history)
    BY <1>2 DEF Events
  <2>2. history[i].index < history[j].index
    BY <1>5
  <2> QED BY <2>1, <2>2 DEF BatchReused
<1>9. Judged(history, n, g)
  BY <1>2, <1>4, <1>5, <1>6, <1>7, <1>8 DEF Judged
<1> QED BY <1>2, <1>9

-----------------------------------------------------------------------------
(* What one event more does to the four sums.                               *)
Pairs(e) == Cardinality(e.pairs)
Excited(e) == Cardinality(Illuminated(e) \ Participants(e))

\* One pulse more.
LEMMA PairSumGrows ==
  ASSUME NEW S, IsFiniteSet(S), NEW e, e \notin S, \A d \in S \cup {e} : Pairs(d) \in Nat
  PROVE  PairSum(S \cup {e}) = PairSum(S) + Pairs(e) /\ PairSum(S) \in Nat /\ PairSum({}) = 0
<1>1. /\ PairWeights(S) \in [S -> Nat] /\ PairWeights(S \cup {e}) \in [S \cup {e} -> Nat]
      /\ PairWeights({}) \in [{} -> Nat]
  BY DEF PairWeights, Pairs
<1>2. IsFiniteSet(S \cup {e}) /\ IsFiniteSet({})
  BY FS_AddElement, FS_EmptySet
<1>3. PICK f : IsTotal(f, S, PairWeights(S)) /\ PairSum(S) = f[S]
  BY <1>1, PairsTotal DEF PairSum
<1>4. PICK g : IsTotal(g, S \cup {e}, PairWeights(S \cup {e})) /\ PairSum(S \cup {e}) = g[S \cup {e}]
  BY <1>1, <1>2, PairsTotal DEF PairSum
<1>5. PICK z : IsTotal(z, {}, PairWeights({})) /\ PairSum({}) = z[{}]
  BY <1>1, <1>2, PairsTotal DEF PairSum
<1>6. SameWeights(S, PairWeights(S), PairWeights(S \cup {e}))
  BY DEF SameWeights, PairWeights
<1>7. g[S \cup {e}] = f[S] + PairWeights(S \cup {e})[e]
  <2>1. PICK w, u : w = PairWeights(S) /\ u = PairWeights(S \cup {e})
    OBVIOUS
  <2>2. /\ w \in [S -> Nat] /\ u \in [S \cup {e} -> Nat] /\ SameWeights(S, w, u)
        /\ IsTotal(f, S, w) /\ IsTotal(g, S \cup {e}, u)
    BY <1>1, <1>3, <1>4, <1>6, <2>1
  <2>3. g[S \cup {e}] = f[S] + u[e]
    BY <2>2, TotalOfOneMore
  <2> QED BY <2>1, <2>3
<1>8. PairWeights(S \cup {e})[e] = Pairs(e)
  BY DEF PairWeights, Pairs
<1> QED BY <1>3, <1>4, <1>5, <1>7, <1>8 DEF IsTotal

\* One pulse more.
LEMMA ExcitationSumGrows ==
  ASSUME NEW S, IsFiniteSet(S), NEW e, e \notin S, \A d \in S \cup {e} : Excited(d) \in Nat
  PROVE  ExcitationSum(S \cup {e}) = ExcitationSum(S) + Excited(e)
         /\ ExcitationSum(S) \in Nat /\ ExcitationSum({}) = 0
<1>1. /\ ExcitationWeights(S) \in [S -> Nat] /\ ExcitationWeights(S \cup {e}) \in [S \cup {e} -> Nat]
      /\ ExcitationWeights({}) \in [{} -> Nat]
  BY DEF ExcitationWeights, Excited
<1>2. IsFiniteSet(S \cup {e}) /\ IsFiniteSet({})
  BY FS_AddElement, FS_EmptySet
<1>3. PICK f : IsTotal(f, S, ExcitationWeights(S)) /\ ExcitationSum(S) = f[S]
  BY <1>1, ExcitationsTotal DEF ExcitationSum
<1>4. PICK g : /\ IsTotal(g, S \cup {e}, ExcitationWeights(S \cup {e}))
               /\ ExcitationSum(S \cup {e}) = g[S \cup {e}]
  BY <1>1, <1>2, ExcitationsTotal DEF ExcitationSum
<1>5. PICK z : IsTotal(z, {}, ExcitationWeights({})) /\ ExcitationSum({}) = z[{}]
  BY <1>1, <1>2, ExcitationsTotal DEF ExcitationSum
<1>6. SameWeights(S, ExcitationWeights(S), ExcitationWeights(S \cup {e}))
  BY DEF SameWeights, ExcitationWeights
<1>7. g[S \cup {e}] = f[S] + ExcitationWeights(S \cup {e})[e]
  <2>1. PICK w, u : w = ExcitationWeights(S) /\ u = ExcitationWeights(S \cup {e})
    OBVIOUS
  <2>2. /\ w \in [S -> Nat] /\ u \in [S \cup {e} -> Nat] /\ SameWeights(S, w, u)
        /\ IsTotal(f, S, w) /\ IsTotal(g, S \cup {e}, u)
    BY <1>1, <1>3, <1>4, <1>6, <2>1
  <2>3. g[S \cup {e}] = f[S] + u[e]
    BY <2>2, TotalOfOneMore
  <2> QED BY <2>1, <2>3
<1>8. ExcitationWeights(S \cup {e})[e] = Excited(e)
  BY DEF ExcitationWeights, Excited
<1> QED BY <1>3, <1>4, <1>5, <1>7, <1>8 DEF IsTotal

Transferred(e) == Cardinality(e.atoms)
Takes(e) == e.end - e.start

\* One transfer more.
LEMMA TransferSumGrows ==
  ASSUME NEW S, IsFiniteSet(S), NEW e, e \notin S, \A d \in S \cup {e} : Transferred(d) \in Nat
  PROVE  TransferSum(S \cup {e}) = TransferSum(S) + Transferred(e)
         /\ TransferSum(S) \in Nat /\ TransferSum({}) = 0
<1>1. /\ TransferWeights(S) \in [S -> Nat] /\ TransferWeights(S \cup {e}) \in [S \cup {e} -> Nat]
      /\ TransferWeights({}) \in [{} -> Nat]
  BY DEF TransferWeights, Transferred
<1>2. IsFiniteSet(S \cup {e}) /\ IsFiniteSet({})
  BY FS_AddElement, FS_EmptySet
<1>3. PICK f : IsTotal(f, S, TransferWeights(S)) /\ TransferSum(S) = f[S]
  BY <1>1, TransfersTotal DEF TransferSum
<1>4. PICK g : IsTotal(g, S \cup {e}, TransferWeights(S \cup {e})) /\ TransferSum(S \cup {e}) = g[S \cup {e}]
  BY <1>1, <1>2, TransfersTotal DEF TransferSum
<1>5. PICK z : IsTotal(z, {}, TransferWeights({})) /\ TransferSum({}) = z[{}]
  BY <1>1, <1>2, TransfersTotal DEF TransferSum
<1>6. SameWeights(S, TransferWeights(S), TransferWeights(S \cup {e}))
  BY DEF SameWeights, TransferWeights
<1>7. g[S \cup {e}] = f[S] + TransferWeights(S \cup {e})[e]
  <2>1. PICK w, u : w = TransferWeights(S) /\ u = TransferWeights(S \cup {e})
    OBVIOUS
  <2>2. /\ w \in [S -> Nat] /\ u \in [S \cup {e} -> Nat] /\ SameWeights(S, w, u)
        /\ IsTotal(f, S, w) /\ IsTotal(g, S \cup {e}, u)
    BY <1>1, <1>3, <1>4, <1>6, <2>1
  <2>3. g[S \cup {e}] = f[S] + u[e]
    BY <2>2, TotalOfOneMore
  <2> QED BY <2>1, <2>3
<1>8. TransferWeights(S \cup {e})[e] = Transferred(e)
  BY DEF TransferWeights, Transferred
<1> QED BY <1>3, <1>4, <1>5, <1>7, <1>8 DEF IsTotal

\* One event more.
LEMMA TimeSumGrows ==
  ASSUME NEW S, IsFiniteSet(S), NEW e, e \notin S, \A d \in S \cup {e} : Takes(d) \in Nat
  PROVE  TimeSum(S \cup {e}) = TimeSum(S) + Takes(e) /\ TimeSum(S) \in Nat /\ TimeSum({}) = 0
<1>1. /\ TimeWeights(S) \in [S -> Nat] /\ TimeWeights(S \cup {e}) \in [S \cup {e} -> Nat]
      /\ TimeWeights({}) \in [{} -> Nat]
  BY DEF TimeWeights, Takes
<1>2. IsFiniteSet(S \cup {e}) /\ IsFiniteSet({})
  BY FS_AddElement, FS_EmptySet
<1>3. PICK f : IsTotal(f, S, TimeWeights(S)) /\ TimeSum(S) = f[S]
  BY <1>1, MoveTimeTotal DEF TimeSum
<1>4. PICK g : IsTotal(g, S \cup {e}, TimeWeights(S \cup {e})) /\ TimeSum(S \cup {e}) = g[S \cup {e}]
  BY <1>1, <1>2, MoveTimeTotal DEF TimeSum
<1>5. PICK z : IsTotal(z, {}, TimeWeights({})) /\ TimeSum({}) = z[{}]
  BY <1>1, <1>2, MoveTimeTotal DEF TimeSum
<1>6. SameWeights(S, TimeWeights(S), TimeWeights(S \cup {e}))
  BY DEF SameWeights, TimeWeights
<1>7. g[S \cup {e}] = f[S] + TimeWeights(S \cup {e})[e]
  <2>1. PICK w, u : w = TimeWeights(S) /\ u = TimeWeights(S \cup {e})
    OBVIOUS
  <2>2. /\ w \in [S -> Nat] /\ u \in [S \cup {e} -> Nat] /\ SameWeights(S, w, u)
        /\ IsTotal(f, S, w) /\ IsTotal(g, S \cup {e}, u)
    BY <1>1, <1>3, <1>4, <1>6, <2>1
  <2>3. g[S \cup {e}] = f[S] + u[e]
    BY <2>2, TotalOfOneMore
  <2> QED BY <2>1, <2>3
<1>8. TimeWeights(S \cup {e})[e] = Takes(e)
  BY DEF TimeWeights, Takes
<1> QED BY <1>3, <1>4, <1>5, <1>7, <1>8 DEF IsTotal

-----------------------------------------------------------------------------
(* What the scorer has added up, as the meaning of the history so far.      *)

Open == movement # NoMovement
OpenTime == IF Open THEN scorer.open[movement.id].time ELSE 0

Counts(t, h) ==
  /\ t.ones = Cardinality(OfKind(h, {"1q"})) /\ t.twos = PairSum(OfKind(h, {"2q"}))
  /\ t.excitations = ExcitationSum(OfKind(h, {"2q"}))
  /\ t.transfers = TransferSum(OfKind(h, {"load", "store"}))

Longest(t, h) ==
  /\ t.duration \in Nat /\ t.duration \in {0} \cup {d.end : d \in Events(h)}
  /\ \A d \in Events(h) : d.end <= t.duration

\* A batch whose number is used again is counted again.
BatchesCounted ==
  BatchReused \/ scorer.totals.batches + (IF Open THEN 1 ELSE 0) = Cardinality(BatchIds)

TimeCounted == OpenTime \in Nat /\ scorer.totals.moveTime + OpenTime = TimeSum(OfKind(history, AodKinds))

\* The instants at which an atom is worked on.
Worked(h, q) ==
  {t \in Nat : \E d \in Events(h) : d.kind # "move" /\ q \in d.atoms /\ d.start <= t /\ t < d.end}

\* The open interval ends with the event that last worked on the atom.
BusyCounted(i, h, q) ==
  /\ i.closed \in Int /\ i.begin \in Int /\ i.end \in Int
  /\ i.begin < 0 => i.closed = 0
  /\ i.begin >= 0 => \E d \in Events(h) : d.kind # "move" /\ q \in d.atoms /\ i.end = d.end
  /\ IsFiniteSet(Worked(h, q)) /\ Cardinality(Worked(h, q)) = BusyOf(i)

BusyInv == \A q \in Atoms : BusyCounted(scorer.busy[q], history, q)

ScoreInv ==
  /\ IsFiniteSet(Events(history)) /\ scorer.totals.batches \in Int /\ scorer.totals.moveTime \in Int
  /\ Counts(scorer.totals, history) /\ Longest(scorer.totals, history)
  /\ BatchesCounted /\ TimeCounted /\ BusyInv

-----------------------------------------------------------------------------
\* What is counted of an event are numbers, and only pulses have pairs.
LEMMA EventCounts ==
  ASSUME NEW e, Fit(e)
  PROVE  /\ Pairs(e) \in Nat /\ Excited(e) \in Nat /\ Transferred(e) \in Nat /\ Takes(e) \in Nat
         /\ e.kind # "2q" => Pairs(e) = 0
         /\ e.end \in Nat /\ e.start \in Nat
<1>1. IsFiniteSet(Atoms)
  BY TraceAssumption
<1>2. /\ e.atoms \subseteq Atoms /\ e.region \subseteq Atoms /\ e.start \in Nat /\ e.end \in Int
      /\ e.start <= e.end
  BY DEF Fit, EventOK
<1>3. e.kind # "2q" => e.pairs = {}
  BY DEF Fit
<1>4. Cardinality({}) = 0 /\ IsFiniteSet({})
  BY FS_EmptySet
<1>5. IsFiniteSet(e.pairs)
  <2>1. CASE e.kind = "2q"
    <3>1. e.atoms = UNION e.pairs
      BY <2>1 DEF Fit
    <3>2. e.pairs \subseteq SUBSET Atoms
      BY <1>2, <3>1
    <3>3. IsFiniteSet(SUBSET Atoms)
      BY <1>1, FS_SUBSET
    <3> QED BY <3>2, <3>3, FS_Subset
  <2> QED BY <1>3, <1>4, <2>1
<1>6. IsFiniteSet(Illuminated(e) \ Participants(e))
  <2>1. Illuminated(e) \ Participants(e) \in SUBSET Atoms
    BY <1>2 DEF Illuminated
  <2> QED BY <1>1, <2>1, FS_Subset
<1>7. IsFiniteSet(e.atoms)
  BY <1>1, <1>2, FS_Subset
<1>8. Pairs(e) \in Nat /\ Excited(e) \in Nat /\ Transferred(e) \in Nat
  BY <1>5, <1>6, <1>7, FS_CardinalityType DEF Pairs, Excited, Transferred
<1>9. e.kind # "2q" => Pairs(e) = 0
  BY <1>3, <1>4 DEF Pairs
<1> QED BY <1>2, <1>8, <1>9 DEF Takes

\* One event more.
Longer(h, k, e) ==
  /\ Events(k) = Events(h) \cup {e} /\ e \notin Events(h) /\ IsFiniteSet(Events(h))
  /\ \A d \in Events(k) : Fit(d)

\* The events of some kinds after one event more.
LEMMA OfKindGrows ==
  ASSUME NEW h, NEW k, NEW e, Longer(h, k, e), NEW K
  PROVE  /\ OfKind(k, K) = IF e.kind \in K THEN OfKind(h, K) \cup {e} ELSE OfKind(h, K)
         /\ e \notin OfKind(h, K) /\ IsFiniteSet(OfKind(h, K))
         /\ Fit(e) /\ \A d \in OfKind(h, K) \cup {e} : Fit(d)
<1>1. OfKind(h, K) \in SUBSET Events(h)
  BY DEF OfKind
<1>2. IsFiniteSet(OfKind(h, K))
  BY <1>1, FS_Subset DEF Longer
<1> QED BY <1>1, <1>2 DEF Longer, OfKind

\* The counts follow.
LEMMA CountsGrow ==
  ASSUME NEW h, NEW k, NEW e, Longer(h, k, e), Counts(scorer.totals, h)
  PROVE  Counts(TotalsAfter(e), k)
<1> DEFINE t == scorer.totals
           u == TotalsAfter(e)
<1>1. /\ u.ones = t.ones + (IF e.kind = "1q" THEN 1 ELSE 0)
      /\ u.twos = t.twos + Pairs(e)
      /\ u.excitations = t.excitations + (IF e.kind = "2q" THEN Excited(e) ELSE 0)
      /\ u.transfers = t.transfers + (IF e.kind \in {"load", "store"} THEN Transferred(e) ELSE 0)
  BY DEF TotalsAfter, Pairs, Excited, Transferred
<1>2. Fit(e)
  BY OfKindGrows
<1>3. u.ones = Cardinality(OfKind(k, {"1q"}))
  <2> DEFINE S == OfKind(h, {"1q"})
  <2>1. /\ OfKind(k, {"1q"}) = IF e.kind \in {"1q"} THEN S \cup {e} ELSE S
        /\ e \notin S /\ IsFiniteSet(S) /\ \A d \in S \cup {e} : Fit(d)
    BY OfKindGrows
  <2>2. t.ones = Cardinality(S)
    BY DEF Counts
  <2> HIDE DEF S, t, u
  <2>3. Cardinality(S) \in Nat /\ Cardinality(S \cup {e}) = Cardinality(S) + 1
    BY <2>1, FS_CardinalityType, FS_AddElement
  <2> QED BY <1>1, <2>1, <2>2, <2>3
<1>4. u.twos = PairSum(OfKind(k, {"2q"}))
  <2> DEFINE S == OfKind(h, {"2q"})
  <2>1. /\ OfKind(k, {"2q"}) = IF e.kind \in {"2q"} THEN S \cup {e} ELSE S
        /\ e \notin S /\ IsFiniteSet(S) /\ \A d \in S \cup {e} : Fit(d)
    BY OfKindGrows
  <2>2. t.twos = PairSum(S)
    BY DEF Counts
  <2> HIDE DEF S, t, u
  <2>3. \A d \in S \cup {e} : Pairs(d) \in Nat
    BY <2>1, EventCounts
  <2>4. PairSum(S) \in Nat /\ PairSum(S \cup {e}) = PairSum(S) + Pairs(e)
    BY <2>1, <2>3, PairSumGrows
  <2>5. e.kind # "2q" => Pairs(e) = 0
    BY <1>2, EventCounts
  <2> QED BY <1>1, <2>1, <2>2, <2>4, <2>5
<1>5. u.excitations = ExcitationSum(OfKind(k, {"2q"}))
  <2> DEFINE S == OfKind(h, {"2q"})
  <2>1. /\ OfKind(k, {"2q"}) = IF e.kind \in {"2q"} THEN S \cup {e} ELSE S
        /\ e \notin S /\ IsFiniteSet(S) /\ \A d \in S \cup {e} : Fit(d)
    BY OfKindGrows
  <2>2. t.excitations = ExcitationSum(S)
    BY DEF Counts
  <2> HIDE DEF S, t, u
  <2>3. \A d \in S \cup {e} : Excited(d) \in Nat
    BY <2>1, EventCounts
  <2>4. ExcitationSum(S) \in Nat /\ ExcitationSum(S \cup {e}) = ExcitationSum(S) + Excited(e)
    BY <2>1, <2>3, ExcitationSumGrows
  <2> QED BY <1>1, <2>1, <2>2, <2>4
<1>6. u.transfers = TransferSum(OfKind(k, {"load", "store"}))
  <2> DEFINE S == OfKind(h, {"load", "store"})
  <2>1. /\ OfKind(k, {"load", "store"}) = IF e.kind \in {"load", "store"} THEN S \cup {e} ELSE S
        /\ e \notin S /\ IsFiniteSet(S) /\ \A d \in S \cup {e} : Fit(d)
    BY OfKindGrows
  <2>2. t.transfers = TransferSum(S)
    BY DEF Counts
  <2> HIDE DEF S, t, u
  <2>3. \A d \in S \cup {e} : Transferred(d) \in Nat
    BY <2>1, EventCounts
  <2>4. TransferSum(S) \in Nat /\ TransferSum(S \cup {e}) = TransferSum(S) + Transferred(e)
    BY <2>1, <2>3, TransferSumGrows
  <2> QED BY <1>1, <2>1, <2>2, <2>4
<1> QED BY <1>3, <1>4, <1>5, <1>6 DEF Counts

\* The greater of two numbers.
LEMMA MaxOfTwo ==
  ASSUME NEW a \in Int, NEW b \in Int
  PROVE  Max({a, b}) = IF a >= b THEN a ELSE b
<1>1. CASE a >= b
  BY <1>1, MaxIs
<1>2. CASE ~(a >= b)
  <2>1. \A y \in {a, b} : y <= b
    BY <1>2
  <2>2. Max({a, b}) = b
    BY <2>1, MaxIs
  <2> QED BY <1>2, <2>2
<1> QED BY <1>1, <1>2

\* The duration follows.
LEMMA LongestGrows ==
  ASSUME NEW h, NEW k, NEW e, Longer(h, k, e), Longest(scorer.totals, h)
  PROVE  Longest(TotalsAfter(e), k)
<1> DEFINE a == scorer.totals.duration
           x == TotalsAfter(e).duration
<1>1. x = Max({a, e.end})
  BY DEF TotalsAfter
<1>2. a \in Nat /\ a \in {0} \cup {d.end : d \in Events(h)} /\ \A d \in Events(h) : d.end <= a
  BY DEF Longest
<1>3. e.end \in Nat /\ Events(k) = Events(h) \cup {e} /\ \A d \in Events(h) : d.end \in Nat
  BY EventCounts DEF Longer
<1> HIDE DEF a, x
<1>4. x = IF a >= e.end THEN a ELSE e.end
  BY <1>1, <1>2, <1>3, MaxOfTwo
<1>5. x \in Nat /\ x \in {0} \cup {d.end : d \in Events(k)}
  BY <1>2, <1>3, <1>4
<1>6. ASSUME NEW d \in Events(k) PROVE d.end <= x
  BY <1>2, <1>3, <1>4
<1> QED BY <1>5, <1>6 DEF Longest, x

\* It is the latest end of the trace.
LEMMA LongestIsLength ==
  ASSUME NEW t, NEW h, Longest(t, h), \A d \in Events(h) : Fit(d)
  PROVE  Length(h) = t.duration
<1> DEFINE S == {0} \cup {d.end : d \in Events(h)}
<1>1. S \in SUBSET Int
  BY EventCounts
<1>2. t.duration \in S /\ \A y \in S : y <= t.duration
  BY DEF Longest
<1> HIDE DEF S
<1>3. Max(S) = t.duration
  BY <1>1, <1>2, MaxIs
<1> QED BY <1>3 DEF Length, S

-----------------------------------------------------------------------------
\* What an event that is let through finds and leaves.
Lengthens(e) ==
  /\ Longer(history, history', e)
  /\ scorer' = ScorerAfter(e)

\* The event is a new one, whichever came before, and the scorer follows it.
LEMMA EventLengthens ==
  ASSUME IInv, HistoryKept, IsFiniteSet(Events(history)), NEW e, EventStep(e), Offered(e)
  PROVE  Lengthens(e)
<1>1. HistoryKept'
  BY HistoryGrows
<1>2. StreamInv /\ StreamInv'
  BY <1>1 DEF HistoryKept
<1>3. ASSUME NEW d \in Events(history) PROVE d.index < Len(history) /\ d.index \in Int
  <2>1. PICK i \in DOMAIN history : d = history[i]
    BY DEF Events
  <2>2. history \in Seq(Events(history))
    BY DEF IInv, HistoryInv
  <2>3. i \in 1 .. Len(history) /\ d.index = i - 1
    BY <1>2, <2>1, <2>2 DEF StreamInv
  <2> QED BY <2>2, <2>3
<1>4. e \notin Events(history)
  <2>1. e.index = Len(history)
    BY DEF Offered
  <2> QED BY <1>3, <2>1
<1>5. Events(history)' = Events(history) \cup {e}
  BY EventStepAdds
<1>6. Events(history)' = Events(history')
  BY DEF Events
<1>7. \A d \in Events(history') : Fit(d)
  <2>1. \A i \in DOMAIN history' : Fit(history'[i])
    BY <1>2 DEF StreamInv
  <2> QED BY <2>1 DEF Events
<1>8. ScorerAccepts(e)
  BY ScorerAgrees DEF IInv
<1>9. Consume(e)
  BY DEF EventStep, GateStep, LoadStep, MoveStep, StoreStep, Stepped
<1>10. scorer' = ScorerAfter(e)
  BY <1>8, <1>9 DEF Consume
<1> QED BY <1>4, <1>5, <1>6, <1>7, <1>10 DEF Lengthens, Longer

\* The fields of the scorer after an event.
LEMMA TotalsGrow ==
  ASSUME NEW e, Lengthens(e)
  PROVE  /\ scorer'.totals = TotalsAfter(e)
         /\ \A q \in Atoms : scorer'.busy[q] = IF q \in Works(e) THEN Extend(scorer.busy[q], e)
                                               ELSE scorer.busy[q]
         /\ scorer'.open = OpenAfter(e)
BY DEF Lengthens, ScorerAfter

\* A batch is over when all that is held is stored.
LEMMA ClosesWhenEmpty ==
  ASSUME IInv, NEW e, EventStep(e)
  PROVE  /\ Closes(e) <=> e.kind = "store" /\ e.atoms = Held
         /\ e.kind = "store" => e.atoms \subseteq Held /\ Open /\ movement.id = e.batch
         /\ e.kind = "move" => Open /\ movement.id = e.batch
         /\ IsGate(e) => (Open' <=> Open) /\ movement' = movement
         /\ ByAod(e) => (Open' <=> ~Closes(e))
         /\ ByAod(e) /\ ~Closes(e) => movement'.id = e.batch
         /\ Open => movement.id # NoBatch
         /\ IsGate(e) \/ ByAod(e)
<1>1. MovementInv /\ MirrorInv
  BY DEF IInv
<1>2. EventOK(e)
  BY DEF EventStep, GateStep, LoadStep, MoveStep, StoreStep, Stepped
<1>3. movement \in MovementType /\ (movement.id = NoBatch => movement = NoMovement)
  BY <1>1 DEF MovementInv
<1>4. NoMovement.id = NoBatch
  BY DEF NoMovement
<1>5. Open => movement.id # NoBatch
  BY <1>3 DEF Open
<1>6. ByAod(e) => e.batch # NoBatch
  BY <1>2 DEF EventOK
<1>7. CASE GateStep(e)
  <2>1. IsGate(e) /\ movement' = movement /\ ~ByAod(e) /\ e.kind # "store" /\ e.kind # "move"
    BY <1>7 DEF GateStep, IsGate, ByAod, AodKinds
  <2>2. ~Closes(e)
    BY <2>1 DEF Closes
  <2> QED BY <1>5, <2>1, <2>2 DEF Open
<1>8. CASE LoadStep(e)
  <2>1. e.kind = "load" /\ ByAod(e) /\ ~IsGate(e)
    BY <1>8 DEF LoadStep, IsGate, ByAod, AodKinds
  <2>2. movement'.id = e.batch
    BY <1>3, <1>8 DEF LoadStep, MovementType
  <2>3. ~Closes(e)
    BY <2>1 DEF Closes
  <2>4. Open'
    BY <1>4, <1>6, <2>1, <2>2 DEF Open
  <2> QED BY <1>5, <2>1, <2>2, <2>3, <2>4
<1>9. CASE MoveStep(e)
  <2>1. e.kind = "move" /\ ByAod(e) /\ ~IsGate(e) /\ movement.id = e.batch
    BY <1>9 DEF MoveStep, MayMove, IsGate, ByAod, AodKinds
  <2>2. movement'.id = e.batch
    BY <1>3, <1>9, <2>1 DEF MoveStep, MovementType
  <2>3. ~Closes(e)
    BY <2>1 DEF Closes
  <2>4. Open /\ Open'
    BY <1>4, <1>6, <2>1, <2>2 DEF Open
  <2> QED BY <1>5, <2>1, <2>2, <2>3, <2>4
<1>10. CASE StoreStep(e)
  <2>1. e.kind = "store" /\ ByAod(e) /\ ~IsGate(e) /\ movement.id = e.batch /\ e.atoms \subseteq Held
    BY <1>10 DEF StoreStep, MayStore, IsGate, ByAod, AodKinds
  <2>2. BatchAfter(e).held = Held \ e.atoms
    <3>1. OpenBatch(e).held = Held
      BY <1>1, <2>1, OpenBatchMirrors
    <3> QED BY <2>1, <3>1 DEF BatchAfter
  <2>3. Closes(e) <=> e.atoms = Held
    BY <2>1, <2>2 DEF Closes
  <2>4. Open
    BY <1>4, <1>6, <2>1 DEF Open
  <2>5. CASE e.atoms = Held
    <3>1. movement' = NoMovement
      BY <1>10, <2>5 DEF StoreStep
    <3>2. ~Open'
      BY <3>1 DEF Open
    <3> QED BY <1>5, <2>1, <2>3, <2>4, <2>5, <3>2
  <2>6. CASE e.atoms # Held
    <3>1. movement'.id = movement.id
      BY <1>3, <1>10, <2>6 DEF StoreStep, MovementType
    <3>2. Open'
      BY <1>4, <1>6, <2>1, <3>1 DEF Open
    <3> QED BY <1>5, <2>1, <2>3, <2>4, <2>6, <3>1, <3>2
  <2> QED BY <2>5, <2>6
<1> QED BY <1>7, <1>8, <1>9, <1>10 DEF EventStep

\* A load that begins a batch with the number of one that is over uses it again,
\* and that remains so.
LEMMA ReuseShows ==
  ASSUME IInv, NEW e, EventStep(e), Offered(e)
  PROVE  /\ BatchReused => BatchReused'
         /\ LoadStep(e) /\ movement = NoMovement /\ e.batch \in BatchIds => BatchReused'
<1>1. Events(history)' = Events(history) \cup {e}
  BY EventStepAdds
<1>2. BatchReused => BatchReused'
  BY <1>1 DEF BatchReused
<1>3. ASSUME LoadStep(e), movement = NoMovement, e.batch \in BatchIds PROVE BatchReused'
  <2>1. movement.id = NoBatch /\ e.batch # NoBatch
    BY <1>3 DEF NoMovement, BatchIds
  <2>2. PICK d \in Events(history) : d.kind = "store" /\ d.batch = e.batch
    BY <1>3, <2>1 DEF IInv, StoredInv
  <2>3. d.index < e.index
    BY <2>2 DEF IInv, IndexInv, Offered
  <2>4. e.kind = "load"
    BY <1>3 DEF LoadStep
  <2> QED BY <1>1, <2>2, <2>3, <2>4 DEF BatchReused
<1> QED BY <1>2, <1>3

\* The batches that are over, and the one that is open, are the batches of the history.
LEMMA BatchesGrow ==
  ASSUME IInv, NEW e, EventStep(e), Offered(e), Lengthens(e), IsFiniteSet(Events(history)),
         scorer.totals.batches \in Int, BatchesCounted
  PROVE  BatchesCounted' /\ scorer'.totals.batches \in Int
<1>0. BatchReused => BatchReused'
  BY ReuseShows
<1>1. PICK n \in Nat : BatchIds = 1 .. n /\ movement.id \in 0 .. n
  BY DEF IInv, IdsInv
<1>2. Cardinality(BatchIds) = n
  <2>1. Cardinality(1 .. n) = n
    <3>1. 1 \in Int /\ n \in Int
      OBVIOUS
    <3>2. Cardinality(1 .. n) = IF 1 > n THEN 0 ELSE n - 1 + 1
      BY <3>1, FS_Interval
    <3> QED BY <3>2
  <2> QED BY <1>1, <2>1
<1>3. EventOK(e)
  BY DEF EventStep, GateStep, LoadStep, MoveStep, StoreStep, Stepped
<1>4. Events(history)' = Events(history) \cup {e}
  BY EventStepAdds
<1>5. BatchIds' = IF e.batch = NoBatch THEN BatchIds ELSE BatchIds \cup {e.batch}
  BY <1>4 DEF BatchIds
<1>6. scorer'.totals.batches = scorer.totals.batches + (IF Closes(e) THEN 1 ELSE 0)
  <2>1. scorer'.totals = TotalsAfter(e)
    BY TotalsGrow
  <2> QED BY <2>1 DEF TotalsAfter
<1>7. ByAod(e) <=> e.batch # NoBatch
  BY <1>3 DEF EventOK
<1>8. CASE IsGate(e)
  <2>1. ~ByAod(e) /\ ~Closes(e)
    BY <1>8 DEF IsGate, ByAod, AodKinds, Closes
  <2>2. Open' <=> Open
    BY <1>8, ClosesWhenEmpty
  <2> QED BY <1>0, <1>5, <1>6, <1>7, <2>1, <2>2 DEF BatchesCounted
<1>9. CASE ByAod(e) /\ Open /\ movement.id = e.batch
  <2>1. e.batch \in BatchIds
    <3>1. movement.id # NoBatch
      BY <1>9, ClosesWhenEmpty
    <3> QED BY <1>1, <1>9, <3>1 DEF NoBatch
  <2>2. BatchIds' = BatchIds
    BY <1>5, <2>1
  <2>3. Open' <=> ~Closes(e)
    BY <1>9, ClosesWhenEmpty
  <2> QED BY <1>0, <1>6, <1>9, <2>2, <2>3 DEF BatchesCounted
<1>10. CASE LoadStep(e) /\ ~Open /\ e.batch \notin BatchIds
  <2>1. ByAod(e) /\ ~Closes(e)
    BY <1>10 DEF LoadStep, ByAod, AodKinds, Closes
  <2>2. e.batch \notin BatchIds
    BY <1>10
  <2>3. BatchIds' = BatchIds \cup {e.batch} /\ Open'
    BY <1>5, <1>7, <2>1, ClosesWhenEmpty
  <2>4. IsFiniteSet(BatchIds)
    BY <1>1, FS_Interval
  <2>5. Cardinality(BatchIds') = Cardinality(BatchIds) + 1
    BY <2>2, <2>3, <2>4, FS_AddElement
  <2>6. Cardinality(BatchIds)' = Cardinality(BatchIds')
    OBVIOUS
  <2> QED BY <1>0, <1>2, <1>6, <1>10, <2>1, <2>3, <2>5, <2>6 DEF BatchesCounted
<1>11. CASE LoadStep(e) /\ ~Open /\ e.batch \in BatchIds
  <2>1. BatchReused'
    BY <1>11, ReuseShows DEF Open
  <2> QED BY <1>6, <2>1 DEF BatchesCounted
<1>12. \/ IsGate(e)
       \/ LoadStep(e) /\ ~Open
       \/ ByAod(e) /\ Open /\ movement.id = e.batch
  <2>1. CASE LoadStep(e)
    <3>1. ByAod(e)
      BY <2>1 DEF LoadStep, ByAod, AodKinds
    <3>2. movement = NoMovement \/ movement.id = e.batch
      BY <3>1, OpenBatchMirrors DEF IInv
    <3> QED BY <2>1, <3>1, <3>2 DEF Open
  <2>2. GateStep(e) => IsGate(e)
    BY DEF GateStep
  <2>3. CASE MoveStep(e) \/ StoreStep(e)
    <3>1. ByAod(e) /\ e.kind \in {"move", "store"}
      BY <2>3 DEF MoveStep, StoreStep, ByAod, AodKinds
    <3> QED BY <3>1, ClosesWhenEmpty
  <2> QED BY <2>1, <2>2, <2>3 DEF EventStep
<1> QED BY <1>8, <1>9, <1>10, <1>11, <1>12

\* The time of the batches that are over and of the open one is that of the AOD's events.
LEMMA TimeGrows ==
  ASSUME IInv, NEW e, EventStep(e), Lengthens(e), scorer.totals.moveTime \in Int, TimeCounted
  PROVE  TimeCounted' /\ scorer'.totals.moveTime \in Int
<1> DEFINE S == OfKind(history, AodKinds)
<1>1. /\ OfKind(history', AodKinds) = IF e.kind \in AodKinds THEN S \cup {e} ELSE S
      /\ e \notin S /\ IsFiniteSet(S) /\ Fit(e) /\ \A d \in S \cup {e} : Fit(d)
  BY OfKindGrows DEF Lengthens
<1>2. OfKind(history, AodKinds)' = OfKind(history', AodKinds)
  BY DEF OfKind, Events
<1>3. OpenTime \in Nat /\ scorer.totals.moveTime + OpenTime = TimeSum(S)
  BY DEF TimeCounted
<1>4. scorer'.totals.moveTime = scorer.totals.moveTime + (IF Closes(e) THEN BatchAfter(e).time ELSE 0)
  <2>1. scorer'.totals = TotalsAfter(e)
    BY TotalsGrow
  <2> QED BY <2>1 DEF TotalsAfter
<1>5. scorer'.open = OpenAfter(e)
  BY TotalsGrow
<1>6. Takes(e) \in Nat
  BY <1>1, EventCounts
<1> HIDE DEF S
<1>7. \A d \in S \cup {e} : Takes(d) \in Nat
  BY <1>1, EventCounts
<1>8. TimeSum(S) \in Nat /\ TimeSum(S \cup {e}) = TimeSum(S) + Takes(e)
  BY <1>1, <1>7, TimeSumGrows
<1>9. CASE IsGate(e)
  <2>1. ~ByAod(e) /\ ~Closes(e) /\ e.kind \notin AodKinds
    BY <1>9 DEF IsGate, ByAod, AodKinds, Closes
  <2>2. (Open' <=> Open) /\ movement' = movement
    BY <1>9, ClosesWhenEmpty
  <2>3. scorer'.open = scorer.open
    BY <1>5, <2>1 DEF OpenAfter
  <2>4. OpenTime' = OpenTime
    BY <2>2, <2>3 DEF OpenTime
  <2>5. scorer'.totals.moveTime = scorer.totals.moveTime
    BY <1>3, <1>4, <2>1
  <2>6. OfKind(history, AodKinds)' = S
    BY <1>1, <1>2, <2>1
  <2>7. TimeSum(OfKind(history, AodKinds))' = TimeSum(S)
    BY <2>6
  <2> QED BY <1>3, <2>4, <2>5, <2>7 DEF TimeCounted
<1>10. CASE ByAod(e)
  <2>1. OpenBatch(e).time = OpenTime
    <3>1. DOMAIN scorer.open \subseteq {e.batch}
      BY <1>10, OpenBatchMirrors DEF IInv
    <3>2. DOMAIN scorer.open = IF movement = NoMovement THEN {} ELSE {movement.id}
      BY DEF IInv, MirrorInv, ScorerFollows
    <3>3. CASE Open
      <4>1. movement.id = e.batch /\ e.batch \in DOMAIN scorer.open
        BY <3>1, <3>2, <3>3 DEF Open
      <4> QED BY <3>3, <4>1 DEF OpenBatch, OpenTime
    <3>4. CASE ~Open
      <4>1. e.batch \notin DOMAIN scorer.open
        BY <3>2, <3>4 DEF Open
      <4> QED BY <3>4, <4>1 DEF OpenBatch, OpenTime
    <3> QED BY <3>3, <3>4
  <2>2. BatchAfter(e).time = OpenTime + e.end - e.start
    BY <2>1 DEF BatchAfter
  <2>3. BatchAfter(e).time = OpenTime + Takes(e)
    <3>1. e.end \in Nat /\ e.start \in Nat
      BY <1>1, EventCounts
    <3> QED BY <1>3, <2>2, <3>1 DEF Takes
  <2>4. TimeSum(OfKind(history, AodKinds))' = TimeSum(S) + Takes(e)
    <3>1. OfKind(history, AodKinds)' = S \cup {e}
      BY <1>1, <1>2, <1>10 DEF ByAod
    <3>2. TimeSum(OfKind(history, AodKinds))' = TimeSum(S \cup {e})
      BY <3>1
    <3> QED BY <1>8, <3>2
  <2>5. CASE Closes(e)
    <3>1. ~Open'
      BY <1>10, <2>5, ClosesWhenEmpty
    <3>2. OpenTime' = 0
      BY <3>1 DEF OpenTime
    <3>3. scorer'.totals.moveTime = scorer.totals.moveTime + OpenTime + Takes(e)
      BY <1>3, <1>4, <1>6, <2>3, <2>5
    <3> QED BY <1>3, <1>6, <2>4, <3>2, <3>3 DEF TimeCounted
  <2>6. CASE ~Closes(e)
    <3>1. Open' /\ movement'.id = e.batch
      BY <1>10, <2>6, ClosesWhenEmpty
    <3>2. scorer'.open[e.batch] = BatchAfter(e)
      BY <1>5, <1>10, <2>6 DEF OpenAfter
    <3>3. OpenTime' = scorer'.open[e.batch].time
      BY <3>1 DEF OpenTime
    <3>4. OpenTime' = OpenTime + Takes(e)
      BY <2>3, <3>2, <3>3
    <3>5. scorer'.totals.moveTime = scorer.totals.moveTime
      BY <1>3, <1>4, <2>6
    <3> QED BY <1>3, <1>6, <2>4, <3>4, <3>5 DEF TimeCounted
  <2> QED BY <2>5, <2>6
<1> QED BY <1>9, <1>10, ClosesWhenEmpty

-----------------------------------------------------------------------------
\* The instants an event takes.
During(e) == e.start .. (e.end - 1)

\* They are as many as its duration.
LEMMA DuringCounts ==
  ASSUME NEW e, Fit(e)
  PROVE  /\ During(e) \in SUBSET Nat /\ IsFiniteSet(During(e)) /\ Cardinality(During(e)) = Takes(e)
         /\ \A t \in Nat : t \in During(e) <=> e.start <= t /\ t < e.end
<1>1. e.start \in Nat /\ e.end \in Int /\ e.start <= e.end
  BY DEF Fit, EventOK
<1>2. e.end - 1 \in Int /\ e.start \in Int
  BY <1>1
<1>3. /\ IsFiniteSet(During(e))
      /\ Cardinality(During(e)) = IF e.start > e.end - 1 THEN 0 ELSE e.end - 1 - e.start + 1
  BY <1>2, FS_Interval DEF During
<1>4. Cardinality(During(e)) = e.end - e.start
  BY <1>1, <1>3
<1> QED BY <1>1, <1>3, <1>4 DEF During, Takes

\* The instants at which an atom is worked on after one event more.
LEMMA WorkedGrows ==
  ASSUME NEW h, NEW k, NEW e, Longer(h, k, e), NEW q
  PROVE  Worked(k, q) = IF e.kind # "move" /\ q \in e.atoms THEN Worked(h, q) \cup During(e)
                        ELSE Worked(h, q)
<1>1. Events(k) = Events(h) \cup {e} /\ Fit(e)
  BY DEF Longer
<1>2. During(e) \in SUBSET Nat /\ \A t \in Nat : t \in During(e) <=> e.start <= t /\ t < e.end
  BY <1>1, DuringCounts
<1>3. Worked(k, q) \in SUBSET Nat /\ Worked(h, q) \in SUBSET Nat
  BY DEF Worked
<1>4. ASSUME NEW t \in Nat
      PROVE  t \in Worked(k, q) <=>
               t \in Worked(h, q) \/ (e.kind # "move" /\ q \in e.atoms /\ t \in During(e))
  BY <1>1, <1>2 DEF Worked
<1> QED BY <1>2, <1>3, <1>4

\* What works on an atom starts when all that has worked on it has ended.
Later(h, e, q) ==
  \A d \in Events(h) : d.kind # "move" /\ q \in d.atoms => d.end <= e.start

\* An interval that is kept open, or closed when a gap follows, counts every instant once.
LEMMA BusyExtends ==
  ASSUME NEW h, NEW k, NEW e, Longer(h, k, e), NEW q, e.kind # "move", q \in e.atoms,
         Later(h, e, q), NEW i, BusyCounted(i, h, q)
  PROVE  BusyCounted(Extend(i, e), k, q)
<1> DEFINE x == Extend(i, e)
<1>1. /\ Events(k) = Events(h) \cup {e} /\ Fit(e) /\ e \in Events(k)
      /\ \A d \in Events(h) : Fit(d)
  BY DEF Longer
<1>2. e.start \in Nat /\ e.end \in Nat /\ e.start < e.end /\ Takes(e) = e.end - e.start
  BY <1>1, EventCounts DEF Fit, EventOK, Lasts, Takes
<1>3. /\ IsFiniteSet(Worked(h, q)) /\ Cardinality(Worked(h, q)) = BusyOf(i)
      /\ i.closed \in Int /\ i.begin \in Int /\ i.end \in Int /\ (i.begin < 0 => i.closed = 0)
  BY DEF BusyCounted
<1>4. i.begin >= 0 => \E d \in Events(h) : d.kind # "move" /\ q \in d.atoms /\ i.end = d.end
  BY DEF BusyCounted
<1>5. i.begin >= 0 => i.end <= e.start
  BY <1>4 DEF Later
<1>6. /\ IsFiniteSet(During(e)) /\ Cardinality(During(e)) = Takes(e)
      /\ \A t \in Nat : t \in During(e) <=> e.start <= t /\ t < e.end
      /\ During(e) \in SUBSET Nat
  BY <1>1, DuringCounts
<1>7. Worked(k, q) = Worked(h, q) \cup During(e)
  BY WorkedGrows
<1>8. Worked(h, q) \cap During(e) = {}
  <2> SUFFICES ASSUME NEW t \in Worked(h, q), t \in During(e) PROVE FALSE
    OBVIOUS
  <2>1. PICK d \in Events(h) : t \in Nat /\ d.kind # "move" /\ q \in d.atoms /\ t < d.end
    BY DEF Worked
  <2>2. d.end \in Nat /\ d.end <= e.start
    BY <1>1, <2>1, EventCounts DEF Later
  <2> QED BY <1>2, <1>6, <2>1, <2>2
<1>9. /\ IsFiniteSet(Worked(k, q))
      /\ Cardinality(Worked(k, q)) = Cardinality(Worked(h, q)) + Cardinality(During(e))
  <2>1. Cardinality(Worked(h, q) \cap During(e)) = 0
    BY <1>8, FS_EmptySet
  <2>2. /\ IsFiniteSet(Worked(h, q) \cup During(e))
        /\ Cardinality(Worked(h, q) \cup During(e))
             = Cardinality(Worked(h, q)) + Cardinality(During(e)) - Cardinality(Worked(h, q) \cap During(e))
    BY <1>3, <1>6, FS_Union
  <2>3. Cardinality(Worked(h, q)) \in Nat /\ Cardinality(During(e)) \in Nat
    BY <1>3, <1>6, FS_CardinalityType
  <2> QED BY <1>7, <2>1, <2>2, <2>3
<1>10. Cardinality(Worked(k, q)) = BusyOf(i) + (e.end - e.start)
  BY <1>2, <1>3, <1>6, <1>9
<1>11. /\ x.closed \in Int /\ x.begin \in Nat /\ x.end = e.end
       /\ BusyOf(x) = BusyOf(i) + (e.end - e.start)
  <2>1. CASE i.begin < 0
    <3>1. x = [i EXCEPT !.begin = e.start, !.end = e.end]
      BY <2>1 DEF Extend
    <3>2. x.closed = i.closed /\ x.begin = e.start /\ x.end = e.end
      BY <3>1
    <3>3. BusyOf(i) = 0 /\ i.closed = 0
      BY <1>3, <2>1 DEF BusyOf
    <3> HIDE DEF x
    <3> QED BY <1>2, <1>3, <3>2, <3>3 DEF BusyOf
  <2>2. CASE ~(i.begin < 0) /\ e.start <= i.end
    <3>1. x = [i EXCEPT !.end = Max({i.end, e.end})]
      BY <2>2 DEF Extend
    <3>2. i.end = e.start
      BY <1>2, <1>3, <1>5, <2>2
    <3>3. Max({i.end, e.end}) = e.end
      BY <1>2, <1>3, <3>2, MaxOfTwo
    <3>4. x.closed = i.closed /\ x.begin = i.begin /\ x.end = e.end
      BY <3>1, <3>3
    <3> HIDE DEF x
    <3> QED BY <1>2, <1>3, <2>2, <3>2, <3>4 DEF BusyOf
  <2>3. CASE ~(i.begin < 0) /\ ~(e.start <= i.end)
    <3>1. x = [closed |-> i.closed + i.end - i.begin, begin |-> e.start, end |-> e.end]
      BY <2>3 DEF Extend
    <3>2. x.closed = i.closed + i.end - i.begin /\ x.begin = e.start /\ x.end = e.end
      BY <3>1
    <3> HIDE DEF x
    <3> QED BY <1>2, <1>3, <2>3, <3>2 DEF BusyOf
  <2> QED BY <2>1, <2>2, <2>3
<1> HIDE DEF x
<1>12. BusyCounted(x, k, q)
  BY <1>1, <1>2, <1>9, <1>10, <1>11 DEF BusyCounted
<1> QED BY <1>12 DEF x

\* An event that does not work on the atom leaves its intervals.
LEMMA BusyStays ==
  ASSUME NEW h, NEW k, NEW e, Longer(h, k, e), NEW q, ~(e.kind # "move" /\ q \in e.atoms),
         NEW i, BusyCounted(i, h, q)
  PROVE  BusyCounted(i, k, q)
<1>1. Worked(k, q) = Worked(h, q)
  BY WorkedGrows
<1>2. Events(k) = Events(h) \cup {e}
  BY DEF Longer
<1> QED BY <1>1, <1>2 DEF BusyCounted

\* The busy intervals follow.
LEMMA BusyGrows ==
  ASSUME IInv, HistoryKept, NEW e, EventStep(e), Offered(e), Lengthens(e), BusyInv
  PROVE  BusyInv'
<1>1. Longer(history, history', e)
  BY DEF Lengthens
<1>2. \A d \in Events(history) : \A q \in Touched(e) \cap Touched(d) : Timed(d) /\ Timed(e) => d.end <= e.start
  BY EventStepAdds
<1>3. ASSUME NEW q \in Atoms PROVE BusyCounted(scorer'.busy[q], history', q)
  <2>1. BusyCounted(scorer.busy[q], history, q)
    BY DEF BusyInv
  <2>2. CASE e.kind # "move" /\ q \in e.atoms
    <3>1. Later(history, e, q)
      <4> SUFFICES ASSUME NEW d \in Events(history), d.kind # "move", q \in d.atoms PROVE d.end <= e.start
        BY DEF Later
      <4>1. Fit(d) /\ Fit(e)
        BY <1>1 DEF Longer
      <4>2. Timed(d) /\ Timed(e)
        BY <2>2, <4>1 DEF Fit, EventOK, Timed
      <4>3. q \in Touched(e) \cap Touched(d)
        BY <2>2 DEF Touched
      <4> QED BY <1>2, <4>2, <4>3
    <3>2. scorer'.busy[q] = Extend(scorer.busy[q], e)
      <4>1. q \in Works(e)
        BY <2>2 DEF Works
      <4> QED BY <4>1, TotalsGrow
    <3> QED BY <1>1, <2>1, <2>2, <3>1, <3>2, BusyExtends
  <2>3. CASE ~(e.kind # "move" /\ q \in e.atoms)
    <3>1. scorer'.busy[q] = scorer.busy[q]
      <4>1. q \notin Works(e)
        BY <2>3 DEF Works
      <4> QED BY <4>1, TotalsGrow
    <3> QED BY <1>1, <2>1, <2>3, <3>1, BusyStays
  <2> QED BY <2>2, <2>3
<1> QED BY <1>3 DEF BusyInv

-----------------------------------------------------------------------------
\* At first there is nothing to count.
LEMMA NothingCounted ==
  /\ OfKind(<<>>, {"1q"}) = {} /\ OfKind(<<>>, {"2q"}) = {} /\ OfKind(<<>>, {"load", "store"}) = {}
  /\ OfKind(<<>>, AodKinds) = {} /\ Events(<<>>) = {}
  /\ PairSum({}) = 0 /\ ExcitationSum({}) = 0 /\ TransferSum({}) = 0 /\ TimeSum({}) = 0
<1>1. Events(<<>>) = {}
  BY DEF Events
<1>2. IsFiniteSet({})
  BY FS_EmptySet
<1>3. PICK e : e = [pairs |-> {}, atoms |-> {}, region |-> {}, start |-> 0, end |-> 0]
  OBVIOUS
<1>4. Cardinality({}) = 0
  BY FS_EmptySet
<1>5. Pairs(e) \in Nat /\ Excited(e) \in Nat /\ Transferred(e) \in Nat /\ Takes(e) \in Nat
  <2>1. e.pairs = {} /\ e.atoms = {} /\ e.start = 0 /\ e.end = 0 /\ e.region = {}
    BY <1>3
  <2>2. Illuminated(e) \ Participants(e) = {}
    BY <2>1 DEF Illuminated
  <2> QED BY <1>4, <2>1, <2>2 DEF Pairs, Excited, Transferred, Takes
<1>6. e \notin {} /\ (\A d \in {} \cup {e} : Pairs(d) \in Nat)
      /\ (\A d \in {} \cup {e} : Excited(d) \in Nat) /\ (\A d \in {} \cup {e} : Transferred(d) \in Nat)
      /\ (\A d \in {} \cup {e} : Takes(d) \in Nat)
  BY <1>5
<1>7. PairSum({}) = 0
  BY <1>2, <1>6, PairSumGrows
<1>8. ExcitationSum({}) = 0
  BY <1>2, <1>6, ExcitationSumGrows
<1>9. TransferSum({}) = 0
  BY <1>2, <1>6, TransferSumGrows
<1>10. TimeSum({}) = 0
  BY <1>2, <1>6, TimeSumGrows
<1> QED BY <1>1, <1>7, <1>8, <1>9, <1>10 DEF OfKind

\* The scorer starts with nothing scored.
LEMMA ScoreStarts == Init => ScoreInv
<1> SUFFICES ASSUME Init PROVE ScoreInv
  OBVIOUS
<1>1. /\ history = <<>> /\ movement = NoMovement /\ scorer.totals = NothingScored
      /\ scorer.busy = [q \in Atoms |-> [closed |-> 0, begin |-> -1, end |-> -1]]
  BY DEF Init
<1>2. Events(history) = {} /\ IsFiniteSet({}) /\ Cardinality({}) = 0
  BY <1>1, NothingCounted, FS_EmptySet
<1>3. Counts(scorer.totals, history)
  <2>1. /\ scorer.totals.ones = 0 /\ scorer.totals.twos = 0 /\ scorer.totals.excitations = 0
        /\ scorer.totals.transfers = 0
    BY <1>1 DEF NothingScored
  <2>2. /\ OfKind(history, {"1q"}) = {} /\ OfKind(history, {"2q"}) = {}
        /\ OfKind(history, {"load", "store"}) = {}
    BY <1>1, NothingCounted
  <2> QED BY <1>2, <2>1, <2>2, NothingCounted DEF Counts
<1>4. Longest(scorer.totals, history)
  BY <1>1, <1>2 DEF Longest, NothingScored
<1>5. BatchesCounted /\ scorer.totals.batches \in Int
  <2>1. BatchIds = {}
    BY <1>2 DEF BatchIds
  <2> QED BY <1>1, <1>2, <2>1 DEF BatchesCounted, NothingScored, Open
<1>6. TimeCounted /\ scorer.totals.moveTime \in Int
  BY <1>1, NothingCounted DEF TimeCounted, NothingScored, Open, OpenTime
<1>7. BusyInv
  <2> SUFFICES ASSUME NEW q \in Atoms PROVE BusyCounted(scorer.busy[q], history, q)
    BY DEF BusyInv
  <2>1. scorer.busy[q] = [closed |-> 0, begin |-> -1, end |-> -1]
    BY <1>1
  <2>2. Worked(history, q) = {}
    BY <1>2 DEF Worked
  <2> QED BY <1>2, <2>1, <2>2 DEF BusyCounted, BusyOf
<1> QED BY <1>2, <1>3, <1>4, <1>5, <1>6, <1>7 DEF ScoreInv

\* The scorer's fields keep their meaning when an event is let through.
LEMMA ScoreGrows ==
  ASSUME IInv, HistoryKept, ScoreInv, NEW e, EventStep(e), Offered(e)
  PROVE  ScoreInv'
<1>1. /\ IsFiniteSet(Events(history)) /\ scorer.totals.batches \in Int /\ scorer.totals.moveTime \in Int
      /\ Counts(scorer.totals, history) /\ Longest(scorer.totals, history)
      /\ BatchesCounted /\ TimeCounted /\ BusyInv
  BY DEF ScoreInv
<1>2. Lengthens(e)
  BY <1>1, EventLengthens
<1>3. Longer(history, history', e) /\ scorer'.totals = TotalsAfter(e)
  BY <1>2, TotalsGrow DEF Lengthens
<1>4. IsFiniteSet(Events(history'))
  BY <1>3, FS_AddElement DEF Longer
<1>5. Counts(scorer'.totals, history')
  BY <1>1, <1>3, CountsGrow
<1>6. Longest(scorer'.totals, history')
  BY <1>1, <1>3, LongestGrows
<1>7. BatchesCounted' /\ scorer.totals.batches' \in Int
  BY <1>1, <1>2, BatchesGrow
<1>8. TimeCounted' /\ scorer.totals.moveTime' \in Int
  BY <1>1, <1>2, TimeGrows
<1>9. BusyInv'
  BY <1>1, <1>2, BusyGrows
<1> QED BY <1>4, <1>5, <1>6, <1>7, <1>8, <1>9 DEF ScoreInv

\* They have their meaning in every state.
LEMMA ScoreInvariant == Spec => []ScoreInv
<1>1. IInv /\ HistoryKept /\ ScoreInv /\ [Next]_vars => ScoreInv'
  <2> SUFFICES ASSUME IInv, HistoryKept, ScoreInv, [Next]_vars PROVE ScoreInv'
    OBVIOUS
  <2>0. ASSUME UNCHANGED <<history, movement, scorer>> PROVE ScoreInv'
    <3>1. /\ Open' <=> Open
          /\ OpenTime' = OpenTime /\ BatchIds' = BatchIds
          /\ BatchReused' <=> BatchReused
      BY <2>0 DEF Open, OpenTime, BatchIds, BatchReused, Events
    <3>2. BatchesCounted' /\ TimeCounted'
      BY <2>0, <3>1 DEF ScoreInv, BatchesCounted, TimeCounted
    <3>3. BusyInv'
      BY <2>0 DEF ScoreInv, BusyInv
    <3> QED BY <2>0, <3>2, <3>3 DEF ScoreInv
  <2>1. CASE UNCHANGED vars
    BY <2>0, <2>1 DEF vars, validator
  <2>2. CASE Next
    <3>1. (\E e : EventStep(e) /\ Offered(e)) \/ Finalize
      BY <2>2, StepsAppend DEF IInv
    <3>2. CASE Finalize
      BY <2>0, <3>2 DEF Finalize, validator
    <3> QED BY <3>1, <3>2, ScoreGrows
  <2> QED BY <2>1, <2>2
<1> QED BY <1>1, ScoreStarts, Invariant, HistoryInvariant, PTL DEF Spec

-----------------------------------------------------------------------------
\* The reference's busy time counts the same instants.
LEMMA BusyIsCounted ==
  ASSUME NEW h, IsFiniteSet(Events(h)), \A d \in Events(h) : Fit(d), NEW t, Longest(t, h), NEW q
  PROVE  BusyTime(h, q) = Cardinality(Worked(h, q))
<1> DEFINE L == Length(h)
           S == {x \in 0 .. L - 1 : \E d \in OfKind(h, {"1q", "2q", "load", "store"}) :
                   q \in d.atoms /\ d.start <= x /\ x < d.end}
<1>1. L = t.duration /\ L \in Nat /\ \A d \in Events(h) : d.end <= L
  BY LongestIsLength DEF Longest
<1>2. \A d \in Events(h) : d.kind \in {"1q", "2q", "load", "store"} <=> d.kind # "move"
  BY DEF Fit, EventOK, Kinds
<1>3. \A d \in Events(h) : d.end \in Nat
  BY EventCounts
<1>4. BusyTime(h, q) = Cardinality(S)
  BY DEF BusyTime
<1> HIDE DEF L
<1>5. S = Worked(h, q)
  <2>1. ASSUME NEW x \in S PROVE x \in Worked(h, q)
    BY <1>1, <1>2 DEF Worked, OfKind
  <2>2. ASSUME NEW x \in Worked(h, q) PROVE x \in S
    <3>1. PICK d \in Events(h) : x \in Nat /\ d.kind # "move" /\ q \in d.atoms /\ d.start <= x /\ x < d.end
      BY DEF Worked
    <3>2. x \in 0 .. L - 1
      BY <1>1, <1>3, <3>1
    <3>3. d \in OfKind(h, {"1q", "2q", "load", "store"})
      BY <1>2, <3>1 DEF OfKind
    <3> QED BY <3>1, <3>2, <3>3
  <2> QED BY <2>1, <2>2
<1> QED BY <1>4, <1>5

\* At the end of a stream the score is the one of its meaning.
LEMMA FinalScore ==
  ASSUME IInv, HistoryKept, ScoreInv, EndInv, stage = "final", ~BatchReused
  PROVE  Score(history) = ScoreOf(scorer.totals)
<1> DEFINE t == scorer.totals
<1>1. ~Open
  BY DEF EndInv, Open
<1>2. /\ IsFiniteSet(Events(history)) /\ t.batches \in Int /\ t.moveTime \in Int
      /\ Counts(t, history) /\ Longest(t, history) /\ BatchesCounted /\ TimeCounted /\ BusyInv
  BY DEF ScoreInv
<1>3. \A d \in Events(history) : Fit(d)
  BY DEF HistoryKept, StreamInv, Events
<1>4. /\ t.ones = Cardinality(OfKind(history, {"1q"})) /\ t.twos = PairSum(OfKind(history, {"2q"}))
      /\ t.excitations = ExcitationSum(OfKind(history, {"2q"}))
      /\ t.transfers = TransferSum(OfKind(history, {"load", "store"}))
  BY <1>2 DEF Counts
<1>5. t.duration = Length(history)
  BY <1>2, <1>3, LongestIsLength
<1>6. t.moveTime = TimeSum(OfKind(history, AodKinds))
  BY <1>1, <1>2 DEF TimeCounted, OpenTime
<1>7. t.batches = Cardinality({e.batch : e \in OfKind(history, AodKinds)})
  <2>1. {e.batch : e \in OfKind(history, AodKinds)} = BatchIds
    <3>1. \A d \in Events(history) : d.kind \in AodKinds <=> d.batch # NoBatch
      BY <1>3 DEF Fit, EventOK, ByAod
    <3> QED BY <3>1 DEF OfKind, BatchIds
  <2>2. t.batches = Cardinality(BatchIds)
    BY <1>1, <1>2 DEF BatchesCounted
  <2> QED BY <2>1, <2>2
<1>8. ASSUME NEW q \in Atoms PROVE BusyTime(history, q) = BusyOf(scorer.busy[q])
  <2>1. BusyCounted(scorer.busy[q], history, q)
    BY <1>2 DEF BusyInv
  <2> QED BY <1>2, <1>3, <2>1, BusyIsCounted DEF BusyCounted
<1> HIDE DEF t
<1>9. [q \in Atoms |-> BusyTime(history, q)] = [q \in Atoms |-> BusyOf(scorer.busy[q])]
  BY <1>8
<1>10. Score(history) = ScoreOf(t)
  BY <1>4, <1>5, <1>6, <1>7, <1>9, ScoreIs DEF ScoreOf
<1> QED BY <1>10 DEF t

-----------------------------------------------------------------------------
(* The two programs agree.                                                  *)

(* A stream that comes to its end is accepted by the reference program too, *)
(* which sorts it first and replays it, and is given by the scorer what its *)
(* meaning is, for any number of atoms and events and in both orders: there *)
(* are no other gaps than operations of the AOD that overlap, an atom that  *)
(* is illuminated while it is carried and the number of a batch that is     *)
(* over used for another.                                                   *)
THEOREM ReferenceJudgesAlike == Spec => []ReferenceAgrees
<1>1. IInv /\ HistoryKept /\ EndInv /\ ScoreInv => ReferenceAgrees
  <2> SUFFICES ASSUME IInv, HistoryKept, EndInv, ScoreInv, stage = "final",
                      ~AodOverlaps, ~LitWhileCarried, ~BatchReused
               PROVE  Accepted(history) /\ Score(history) = ScoreOf(scorer.totals)
    BY DEF ReferenceAgrees
  <2>1. PICK n \in Nat : \E g : Judged(history, n, g)
    BY FinalIsJudged
  <2>2. PICK g : Judged(history, n, g)
    BY <2>1
  <2>3. Accepted(history)
    BY <2>2, ReplayAccepts
  <2> QED BY <2>3, FinalScore
<1> QED BY <1>1, Invariant, HistoryInvariant, EndInvariant, ScoreInvariant, PTL
==============================================================================
