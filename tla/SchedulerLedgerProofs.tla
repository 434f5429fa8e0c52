------------------------- MODULE SchedulerLedgerProofs -------------------------
(***************************************************************************)
(* Proofs about the scheduler ledger, for any set of atoms, AODs, zones,   *)
(* jobs, durations and any number of instructions.                         *)
(***************************************************************************)
EXTENDS SchedulerLedger, SequenceTheorems, FiniteSetTheorems, TLAPS

(* The clock that the device of an event, or of a timing, keeps.           *)
ClockAfter(e, t) ==
  /\ e.type = "one_qubit_gate" => e.resource = Beam /\ t <= oneQEnd
  /\ e.type = "two_qubit_gate" => e.resource \in Zones /\ t <= rydEnd[e.resource]
  /\ e.type \in {"load", "move", "store"} => e.resource \in Aods /\ t <= aodEnd[e.resource]

DeviceFree(t) ==
  /\ t.kind = "one_qubit" => t.resource = Beam /\ oneQEnd <= t.begin
  /\ t.kind = "cz"        => t.resource \in Zones /\ rydEnd[t.resource] <= t.begin
  /\ t.kind = "aod"       => t.resource \in Aods /\ aodEnd[t.resource] <= t.begin

(* The events of a call belong to its device, lie between its begin and    *)
(* its end and follow one another.                                         *)
EventOfCall(b, k, t) ==
  /\ b.id = nextId /\ b.phase = k /\ b.resource = t.resource
  /\ t.begin <= b.start /\ b.start <= b.stop /\ b.stop <= t.end
  /\ \/ t.kind = "one_qubit" /\ b.type = "one_qubit_gate"
     \/ t.kind = "cz" /\ b.type = "two_qubit_gate"
     \/ t.kind = "aod" /\ b.type \in {"load", "move", "store"}

CallInv ==
  Booking =>
    /\ call.done \in 0 .. Len(call.booking)
    /\ call.timing.begin <= call.timing.end
    /\ DeviceFree(call.timing)
    /\ \A k \in DOMAIN call.booking : EventOfCall(call.booking[k], k, call.timing)
    /\ InOrder(call.booking)

(* What is recorded of committed instructions lies before the clocks, what *)
(* is recorded of the call under way is the part of it already booked.     *)
HistoryInv ==
  call # Raised =>
    \A e \in events :
      /\ e.start <= e.stop
      /\ \A a \in ActiveAtoms(e) : e.stop <= atomEnd[a]
      /\ \/ e.id < nextId /\ ClockAfter(e, e.stop)
         \/ Booking /\ \E k \in 1 .. call.done : e = call.booking[k]

IInv == TypeOK /\ CallInv /\ HistoryInv /\ IdleWithinTrace

(* A multiple of a duration grows with its factor.                         *)
LEMMA Slots ==
  ASSUME NEW i \in Nat, NEW j \in Nat, NEW d \in Nat, i <= j
  PROVE  /\ i * d \in Nat
         /\ j * d \in Nat
         /\ i * d <= j * d
<1>1. j * d = i * d + (j - i) * d
  OBVIOUS
<1>2. (j - i) * d >= 0 /\ i * d \in Nat /\ j * d \in Nat
  <2>1. \A p, q \in Nat : p * q \in Nat
    OBVIOUS
  <2>2. j - i \in Nat
    OBVIOUS
  <2> QED BY <2>1, <2>2
<1> QED BY <1>1, <1>2

(* Distinct calls under way are told from the absence of one.              *)
LEMMA CallStates ==
  ASSUME TypeOK
  PROVE  /\ Booking <=> call \in Call
         /\ ~Booking <=> call \in {Idle, Raised}
         /\ Idle # Raised
         /\ ~Booking => call \notin Call
<1>1. Idle.state = "idle" /\ Raised.state = "raised"
  BY DEF Idle, Raised
<1>2. \A c \in Call : c.state = "booking"
  BY DEF Call
<1> QED BY <1>1, <1>2 DEF TypeOK, Booking

LEMMA InitIInv == Init => IInv
<1> SUFFICES ASSUME Init PROVE IInv
  OBVIOUS
<1> USE LedgerAssumption DEF Init
<1>1. TypeOK
  BY DEF TypeOK
<1>2. ~Booking
  BY DEF Booking, Idle
<1>3. CallInv /\ HistoryInv /\ IdleWithinTrace
  BY <1>2 DEF CallInv, HistoryInv, IdleWithinTrace
<1> QED BY <1>1, <1>3 DEF IInv

(* Opening a call keeps the invariant if its bookings have the right shape.*)
LEMMA EnterStep ==
  ASSUME IInv, call = Idle,
         NEW timing \in Timing, NEW booking \in Seq(Event),
         Enter(timing, booking),
         UNCHANGED <<instructions, nextId, traceEnd, activeUnion, atomEnd, clocks, events>>,
         timing.begin <= timing.end,
         DeviceFree(timing),
         \A k \in DOMAIN booking : EventOfCall(booking[k], k, timing),
         InOrder(booking)
  PROVE  IInv'
<1> USE DEF clocks
<1>1. /\ call' = [state |-> "booking", timing |-> timing, booking |-> booking, done |-> 0]
      /\ call' \in Call
      /\ Booking' /\ call'.timing = timing /\ call'.booking = booking /\ call'.done = 0
  BY DEF Enter, Call, Booking
<1>2. TypeOK'
  BY <1>1 DEF IInv, TypeOK
<1>3. CallInv'
  BY <1>1 DEF CallInv, DeviceFree, EventOfCall, InOrder
<1>4. ~Booking /\ call # Raised
  BY DEF Booking, Idle, Raised
<1>5. HistoryInv'
  BY <1>1, <1>4 DEF IInv, HistoryInv, ClockAfter, ActiveAtoms
<1>6. IdleWithinTrace'
  BY <1>4 DEF IInv, IdleWithinTrace
<1> QED BY <1>2, <1>3, <1>5, <1>6 DEF IInv

(* The next event of a call, with what the invariant says of it.           *)
LEMMA NextEventFacts ==
  ASSUME IInv, Pending
  PROVE  /\ call \in Call /\ call # Raised /\ Booking
         /\ call.done + 1 \in DOMAIN call.booking
         /\ NextEvent \in Event
         /\ AtomsOf(NextEvent) \subseteq Atoms
         /\ ActiveAtoms(NextEvent) \subseteq Atoms
         /\ EventOfCall(NextEvent, call.done + 1, call.timing)
<1>1. call \in Call /\ Booking /\ call # Raised
  BY CallStates DEF IInv, Pending
<1>2. call.booking \in Seq(Event) /\ call.done \in Nat /\ call.timing \in Timing
  BY <1>1 DEF Call
<1>3. call.done + 1 \in DOMAIN call.booking
  BY <1>2 DEF Pending
<1>4. NextEvent \in Event
  BY <1>2, <1>3 DEF NextEvent
<1>5. AtomsOf(NextEvent) \subseteq Atoms
  <2>1. NextEvent.atoms \in Seq(Atoms)
    BY <1>4 DEF Event
  <2> QED BY <2>1 DEF AtomsOf
<1>6. EventOfCall(NextEvent, call.done + 1, call.timing)
  BY <1>1, <1>3 DEF IInv, CallInv, NextEvent
<1> QED BY <1>1, <1>3, <1>4, <1>5, <1>6 DEF ActiveAtoms

LEMMA RecordEventStep == IInv /\ RecordEvent => IInv'
<1> SUFFICES ASSUME IInv, RecordEvent PROVE IInv'
  OBVIOUS
<1> DEFINE ev == NextEvent
<1>1. /\ call \in Call /\ call # Raised /\ Booking
      /\ call.done + 1 \in DOMAIN call.booking
      /\ ev \in Event /\ ActiveAtoms(ev) \subseteq Atoms
      /\ EventOfCall(ev, call.done + 1, call.timing)
  BY NextEventFacts DEF RecordEvent
<1>2. /\ ev.start \in Nat /\ ev.stop \in Nat /\ ev.start <= ev.stop
  BY <1>1 DEF Event, EventOfCall, Timing, Call
<1>3. /\ call' \in Call /\ call' # Raised /\ Booking'
      /\ call'.done = call.done + 1 /\ call'.booking = call.booking
      /\ call'.timing = call.timing
  BY <1>1 DEF RecordEvent, Call, Booking, Raised
<1>4. TypeOK'
  BY <1>1, <1>2, <1>3 DEF IInv, TypeOK, RecordEvent, Engage, Later, clocks
<1>5. CallInv'
  <2>1. call'.done \in 0 .. Len(call'.booking)
    BY <1>1, <1>3 DEF Call
  <2> QED BY <1>1, <1>3, <2>1
          DEF IInv, CallInv, RecordEvent, DeviceFree, EventOfCall, InOrder, clocks
<1>6. HistoryInv'
  <2> SUFFICES ASSUME NEW e \in events'
               PROVE  /\ e.start <= e.stop
                      /\ \A a \in ActiveAtoms(e) : e.stop <= atomEnd'[a]
                      /\ \/ e.id < nextId' /\ ClockAfter(e, e.stop)'
                         \/ Booking' /\ \E k \in 1 .. call'.done : e = call'.booking[k]
    BY DEF HistoryInv, ActiveAtoms
  <2>1. CASE e = ev
    <3>1. \A a \in ActiveAtoms(ev) : ev.stop <= atomEnd'[a]
      <4>1. Engage(ev, ActiveAtoms(ev)) /\ atomEnd \in [Atoms -> Nat]
        BY DEF RecordEvent, IInv, TypeOK
      <4> HIDE DEF ev
      <4> QED BY <4>1, <1>1, <1>2 DEF Engage, Later
    <3>2. call.done + 1 \in 1 .. call'.done /\ ev = call'.booking[call.done + 1]
      BY <1>1, <1>3 DEF Call, NextEvent
    <3> QED BY <2>1, <3>1, <3>2, <1>2, <1>3
  <2>2. CASE e \in events
    <3>1. e \in Event /\ e.stop \in Nat /\ ActiveAtoms(e) \subseteq Atoms
      BY <2>2 DEF IInv, TypeOK, Event, ActiveAtoms, AtomsOf
    <3>2. \A a \in Atoms : atomEnd[a] \in Nat /\ atomEnd[a] <= atomEnd'[a]
      BY <1>2 DEF RecordEvent, Engage, Later, IInv, TypeOK
    <3>3. e.start <= e.stop /\ \A a \in ActiveAtoms(e) : e.stop <= atomEnd'[a]
      <4>1. \A a \in ActiveAtoms(e) : e.stop <= atomEnd[a]
        BY <2>2, <1>1 DEF IInv, HistoryInv
      <4>2. \A a \in Atoms : atomEnd'[a] \in Nat
        BY <1>4 DEF TypeOK
      <4>3. e.start <= e.stop
        BY <2>2, <1>1 DEF IInv, HistoryInv
      <4> QED BY <3>1, <3>2, <4>1, <4>2, <4>3
    <3>4. CASE e.id < nextId /\ ClockAfter(e, e.stop)
      BY <3>3, <3>4 DEF RecordEvent, ClockAfter, clocks
    <3>5. CASE \E k \in 1 .. call.done : e = call.booking[k]
      BY <3>3, <3>5, <1>1, <1>3 DEF Call
    <3> QED BY <3>4, <3>5, <2>2, <1>1 DEF IInv, HistoryInv
  <2> QED BY <2>1, <2>2 DEF RecordEvent
<1>7. IdleWithinTrace'
  <2> SUFFICES ASSUME NEW a \in Atoms
               PROVE  activeUnion'[a] <= atomEnd'[a] /\ atomEnd'[a] <= traceEnd'
    BY DEF IdleWithinTrace
  <2>1. /\ activeUnion[a] <= atomEnd[a] /\ atomEnd[a] <= traceEnd
        /\ activeUnion[a] \in Nat /\ atomEnd[a] \in Nat /\ traceEnd \in Nat
    BY <1>1 DEF IInv, IdleWithinTrace, TypeOK
  <2>2. CASE a \in ActiveAtoms(ev)
    <3>1. atomEnd[a] <= ev.start
      BY <2>2 DEF RecordEvent
    <3>2. activeUnion'[a] = activeUnion[a] + (ev.stop - ev.start) /\ atomEnd'[a] = ev.stop
      <4>1. ev.stop >= atomEnd[a]
        BY <3>1, <2>1, <1>2
      <4>2. Engage(ev, ActiveAtoms(ev))
        BY DEF RecordEvent
      <4> HIDE DEF ev
      <4>3. /\ activeUnion'[a] = activeUnion[a] + (ev.stop - ev.start)
            /\ atomEnd'[a] = Later(atomEnd[a], ev.stop)
        BY <4>2, <2>2 DEF Engage
      <4> QED BY <4>1, <4>3, <2>1, <1>2 DEF Later
    <3> QED BY <3>1, <3>2, <2>1, <1>2 DEF RecordEvent, Later
  <2>3. CASE a \notin ActiveAtoms(ev)
    BY <2>1, <2>3, <1>2 DEF RecordEvent, Engage, Later
  <2> QED BY <2>2, <2>3
<1> QED BY <1>4, <1>5, <1>6, <1>7 DEF IInv

LEMMA RaiseOverlapStep == IInv /\ RaiseOverlap => IInv'
<1> SUFFICES ASSUME IInv, RaiseOverlap PROVE IInv'
  OBVIOUS
<1>1. /\ NextEvent \in Event /\ AtomsOf(NextEvent) \subseteq Atoms
      /\ EventOfCall(NextEvent, call.done + 1, call.timing) /\ call \in Call
  BY NextEventFacts DEF RaiseOverlap
<1>2. NextEvent.start \in Nat /\ NextEvent.stop \in Nat /\ NextEvent.start <= NextEvent.stop
  BY <1>1 DEF Event, EventOfCall, Timing, Call
<1>3. call' = Raised /\ ~Booking'
  BY DEF RaiseOverlap, Booking, Raised
<1>4. activeUnion' \in [Atoms -> Nat] /\ atomEnd' \in [Atoms -> Nat]
  BY <1>2 DEF RaiseOverlap, Engage, Later, IInv, TypeOK
<1>5. TypeOK'
  BY <1>3, <1>4 DEF RaiseOverlap, IInv, TypeOK, clocks
<1> QED BY <1>3, <1>5 DEF IInv, CallInv, HistoryInv, IdleWithinTrace

LEMMA CommitStep == IInv /\ Commit => IInv'
<1> SUFFICES ASSUME IInv, Commit PROVE IInv'
  OBVIOUS
<1> DEFINE t == call.timing
<1>1. call \in Call /\ call # Raised /\ Booking
  BY CallStates DEF IInv, Commit
<1>2. /\ t \in Timing /\ t.end \in Nat /\ t.begin \in Nat /\ call.booking \in Seq(Event)
      /\ t.begin <= t.end /\ DeviceFree(t)
  BY <1>1 DEF Call, Timing, IInv, CallInv
<1>3. call' = Idle /\ ~Booking' /\ call' # Raised
  BY DEF Commit, Booking, Idle, Raised
<1>4. TypeOK'
  <2>1. /\ nextId' \in Nat
        /\ DOMAIN instructions' \subseteq 0 .. nextId' - 1
        /\ \A id \in DOMAIN instructions' : instructions'[id] \in Timing
    BY <1>2 DEF Commit, IInv, TypeOK
  <2>2. aodEnd' \in [Aods -> Nat] /\ oneQEnd' \in Nat /\ rydEnd' \in [Zones -> Nat]
    BY <1>2 DEF Commit, AdvanceClock, IInv, TypeOK
  <2>3. traceEnd' \in Nat
    BY <1>2 DEF Commit, Later, IInv, TypeOK
  <2> QED BY <2>1, <2>2, <2>3, <1>3 DEF Commit, IInv, TypeOK
<1>5. CallInv'
  BY <1>3 DEF CallInv
<1>6. HistoryInv'
  <2>1. /\ oneQEnd <= oneQEnd'
        /\ \A r \in Aods : aodEnd[r] <= aodEnd'[r]
        /\ \A z \in Zones : rydEnd[z] <= rydEnd'[z]
    BY <1>2 DEF Commit, AdvanceClock, DeviceFree, IInv, TypeOK
  <2> SUFFICES ASSUME NEW e \in events
               PROVE  /\ e.start <= e.stop
                      /\ \A a \in ActiveAtoms(e) : e.stop <= atomEnd[a]
                      /\ e.id < nextId' /\ ClockAfter(e, e.stop)'
    BY DEF HistoryInv, Commit, ActiveAtoms
  <2>2. e \in Event /\ e.stop \in Nat /\ e.id \in Nat
    BY DEF IInv, TypeOK, Event
  <2>3. CASE e.id < nextId /\ ClockAfter(e, e.stop)
    <3>1. ClockAfter(e, e.stop)'
      BY <2>1, <2>2, <2>3, <1>4 DEF ClockAfter, IInv, TypeOK
    <3> QED BY <2>2, <2>3, <3>1, <1>1 DEF Commit, IInv, TypeOK, HistoryInv
  <2>4. CASE \E k \in 1 .. call.done : e = call.booking[k]
    <3>1. PICK k \in DOMAIN call.booking : e = call.booking[k]
      BY <2>4, <1>1, <1>2 DEF Commit, Call
    <3>2. EventOfCall(e, k, t)
      BY <3>1, <1>1 DEF IInv, CallInv
    <3>3. e.id < nextId'
      BY <3>2, <2>2 DEF EventOfCall, Commit
    <3>4. ClockAfter(e, e.stop)'
      <4>1. e.stop <= t.end /\ e.resource = t.resource
        BY <3>2 DEF EventOfCall
      <4>2. CASE t.kind = "one_qubit"
        BY <4>1, <4>2, <3>2, <1>2 DEF EventOfCall, DeviceFree, ClockAfter, Commit, AdvanceClock
      <4>3. CASE t.kind = "cz"
        BY <4>1, <4>3, <3>2, <1>2 DEF EventOfCall, DeviceFree, ClockAfter, Commit, AdvanceClock
      <4>4. CASE t.kind = "aod"
        BY <4>1, <4>4, <3>2, <1>2 DEF EventOfCall, DeviceFree, ClockAfter, Commit, AdvanceClock
      <4> QED BY <3>2, <4>2, <4>3, <4>4 DEF EventOfCall
    <3> QED BY <3>3, <3>4, <1>1 DEF IInv, HistoryInv
  <2> QED BY <2>3, <2>4, <1>1 DEF IInv, HistoryInv
<1>7. IdleWithinTrace'
  BY <1>1, <1>2 DEF Commit, Later, IInv, IdleWithinTrace, TypeOK
<1> QED BY <1>4, <1>5, <1>6, <1>7 DEF IInv

LEMMA PruneStep ==
  ASSUME IInv, NEW keep \in SUBSET DOMAIN instructions, Prune(keep)
  PROVE  IInv'
<1>1. ~Booking /\ ~Booking' /\ call' = call
  BY DEF Prune, Booking, Idle
<1>2. TypeOK'
  BY DEF Prune, IInv, TypeOK, clocks
<1>3. CallInv' /\ HistoryInv' /\ IdleWithinTrace'
  BY <1>1 DEF Prune, IInv, CallInv, HistoryInv, IdleWithinTrace, ClockAfter, ActiveAtoms, clocks
<1> QED BY <1>2, <1>3 DEF IInv

LEMMA BeginInitStep == IInv /\ BeginInit => IInv'
<1> SUFFICES ASSUME IInv, BeginInit PROVE IInv'
  OBVIOUS
<1> DEFINE t == [kind |-> "init", begin |-> 0, end |-> 0, resource |-> 0,
                 pickup |-> 0, drop |-> 0]
<1>1. t \in Timing /\ <<>> \in Seq(Event) /\ DOMAIN <<>> = {}
  BY EmptySeq DEF Timing, Kinds
<1>2. t.begin <= t.end /\ DeviceFree(t)
  BY DEF DeviceFree
<1>3. InOrder(<<>>)
  BY DEF InOrder
<1>4. /\ call = Idle /\ Enter(t, <<>>)
      /\ UNCHANGED <<instructions, nextId, traceEnd, activeUnion, atomEnd, clocks, events>>
  BY DEF BeginInit, OpenCall
<1> HIDE DEF t
<1> QED BY <1>1, <1>2, <1>3, <1>4, EnterStep

(* A begin time chosen among the ends of dependencies is a time.           *)
LEMMA DependencyTimes ==
  ASSUME TypeOK, NEW deps \in SUBSET DOMAIN instructions
  PROVE  DependencyEnds(deps) \subseteq Nat
BY DEF DependencyEnds, TypeOK, Timing

LEMMA BeginOneQubitStep ==
  ASSUME IInv, NEW block \in GateBlocks, NEW deps \in SUBSET DOMAIN instructions,
         BeginOneQubit(block, deps)
  PROVE  IInv'
<1>1. PICK begin \in {oneQEnd} \cup DependencyEnds(deps) :
        /\ IsLatest(begin, {oneQEnd} \cup DependencyEnds(deps))
        /\ Enter([kind |-> "one_qubit", begin |-> begin,
                  end |-> begin + Len(block) * OneQTime + OneQCommon,
                  resource |-> Beam, pickup |-> 0, drop |-> 0],
                 [k \in 1 .. Len(block) |->
                    [type |-> "one_qubit_gate",
                     start |-> begin + (k - 1) * OneQTime,
                     stop |-> begin + k * OneQTime,
                     atoms |-> <<block[k]>>, id |-> nextId, phase |-> k,
                     resource |-> Beam]])
  BY DEF BeginOneQubit
<1> DEFINE t == [kind |-> "one_qubit", begin |-> begin,
                 end |-> begin + Len(block) * OneQTime + OneQCommon,
                 resource |-> Beam, pickup |-> 0, drop |-> 0]
           slot(k) == [type |-> "one_qubit_gate",
                       start |-> begin + (k - 1) * OneQTime,
                       stop |-> begin + k * OneQTime,
                       atoms |-> <<block[k]>>, id |-> nextId, phase |-> k,
                       resource |-> Beam]
           booking == [k \in 1 .. Len(block) |-> slot(k)]
<1>2. /\ block \in Seq(Atoms) /\ Len(block) \in Nat
      /\ \A k \in 1 .. Len(block) : <<block[k]>> \in Seq(Atoms)
      /\ OneQTime \in Nat /\ OneQCommon \in Nat
  BY LedgerAssumption
<1>3. begin \in Nat /\ oneQEnd <= begin /\ nextId \in Nat
  BY <1>1, DependencyTimes DEF IsLatest, IInv, TypeOK
<1>4. \A k \in 1 .. Len(block) :
        /\ (k - 1) * OneQTime \in Nat /\ k * OneQTime \in Nat
        /\ (k - 1) * OneQTime <= k * OneQTime
        /\ k * OneQTime <= Len(block) * OneQTime
        /\ Len(block) * OneQTime \in Nat
  <2> TAKE k \in 1 .. Len(block)
  <2>1. k \in Nat /\ k - 1 \in Nat /\ k - 1 <= k /\ k <= Len(block)
    BY <1>2
  <2> QED BY <2>1, <1>2, Slots
<1>5. t \in Timing
  <2>1. Len(block) * OneQTime \in Nat
    BY Slots, <1>2
  <2> QED BY <2>1, <1>2, <1>3 DEF Timing, Kinds, Beam
<1>6. \A k \in 1 .. Len(block) : slot(k) \in Event
  <2> TAKE k \in 1 .. Len(block)
  <2>1. begin + (k - 1) * OneQTime \in Nat /\ begin + k * OneQTime \in Nat
    BY <1>3, <1>4
  <2>2. <<block[k]>> \in Seq(Atoms) /\ k \in Nat /\ nextId \in Nat
    BY <1>2, <1>3
  <2> QED BY <2>1, <2>2 DEF Event, EventTypes, ActiveTypes, Beam
<1>7. booking \in Seq(Event) /\ DOMAIN booking = 1 .. Len(block)
  <2>1. booking \in [1 .. Len(block) -> Event]
    BY <1>6
  <2> HIDE DEF booking
  <2> QED BY <2>1, <1>2, SeqDef
<1>8. t.begin <= t.end /\ DeviceFree(t)
  BY <1>3, <1>2, Slots DEF DeviceFree
<1>9. \A k \in DOMAIN booking : EventOfCall(booking[k], k, t)
  <2> SUFFICES ASSUME NEW k \in 1 .. Len(block) PROVE EventOfCall(slot(k), k, t)
    OBVIOUS
  <2>1. begin <= begin + (k - 1) * OneQTime
    BY <1>3, <1>4
  <2>2. begin + (k - 1) * OneQTime <= begin + k * OneQTime
    BY <1>3, <1>4
  <2>3. begin + k * OneQTime <= begin + Len(block) * OneQTime + OneQCommon
    BY <1>2, <1>3, <1>4
  <2> QED BY <2>1, <2>2, <2>3 DEF EventOfCall
<1>10. InOrder(booking)
  <2>1. ASSUME NEW i \in 1 .. Len(block), NEW j \in 1 .. Len(block), i < j
        PROVE  booking[i].stop <= booking[j].start
    <3>1. i \in Nat /\ j - 1 \in Nat /\ i <= j - 1
      BY <2>1, <1>2
    <3>2. i * OneQTime <= (j - 1) * OneQTime
      BY <3>1, <1>2, Slots
    <3> QED BY <3>2, <1>3, <1>4
  <2>2. \A i \in 1 .. Len(block) : booking[i].start <= booking[i].stop
    BY <1>3, <1>4
  <2> QED BY <2>1, <2>2, <1>7 DEF InOrder
<1>11. /\ call = Idle /\ Enter(t, booking)
       /\ UNCHANGED <<instructions, nextId, traceEnd, activeUnion, atomEnd, clocks, events>>
  BY <1>1 DEF BeginOneQubit, OpenCall
<1> HIDE DEF t, booking
<1> QED BY <1>5, <1>7, <1>8, <1>9, <1>10, <1>11, EnterStep

LEMMA BeginCzStep ==
  ASSUME IInv, NEW pulse \in Pulses, NEW zone \in Zones,
         NEW deps \in SUBSET DOMAIN instructions, BeginCz(pulse, zone, deps)
  PROVE  IInv'
<1>1. PICK begin \in {rydEnd[zone]} \cup DependencyEnds(deps) :
        /\ IsLatest(begin, {rydEnd[zone]} \cup DependencyEnds(deps))
        /\ Enter([kind |-> "cz", begin |-> begin, end |-> begin + RydTime,
                  resource |-> zone, pickup |-> 0, drop |-> 0],
                 <<[type |-> "two_qubit_gate", start |-> begin,
                    stop |-> begin + RydTime, atoms |-> pulse, id |-> nextId,
                    phase |-> 1, resource |-> zone]>>)
  BY DEF BeginCz
<1> DEFINE t == [kind |-> "cz", begin |-> begin, end |-> begin + RydTime,
                 resource |-> zone, pickup |-> 0, drop |-> 0]
           ev == [type |-> "two_qubit_gate", start |-> begin,
                  stop |-> begin + RydTime, atoms |-> pulse, id |-> nextId,
                  phase |-> 1, resource |-> zone]
<1>2. zone \in Nat /\ RydTime \in Nat /\ pulse \in Seq(Atoms)
  BY LedgerAssumption
<1>3. begin \in Nat /\ rydEnd[zone] <= begin /\ nextId \in Nat
  BY <1>1, DependencyTimes DEF IsLatest, IInv, TypeOK
<1>4. t \in Timing /\ ev \in Event
  BY <1>2, <1>3 DEF Timing, Kinds, Event, EventTypes, ActiveTypes
<1>5. t.begin <= t.end /\ DeviceFree(t)
  BY <1>2, <1>3 DEF DeviceFree
<1>6. EventOfCall(ev, 1, t) /\ ev.start <= ev.stop
  BY <1>2, <1>3 DEF EventOfCall
<1>7. /\ call = Idle /\ Enter(t, <<ev>>)
      /\ UNCHANGED <<instructions, nextId, traceEnd, activeUnion, atomEnd, clocks, events>>
  BY <1>1 DEF BeginCz, OpenCall
<1> HIDE DEF t, ev
<1>8. <<ev>> \in Seq(Event) /\ DOMAIN <<ev>> = {1} /\ <<ev>>[1] = ev
  BY <1>4
<1>9. \A k \in DOMAIN <<ev>> : EventOfCall(<<ev>>[k], k, t)
  BY <1>6, <1>8
<1>10. InOrder(<<ev>>)
  BY <1>6, <1>8 DEF InOrder
<1> QED BY <1>4, <1>5, <1>7, <1>8, <1>9, <1>10, EnterStep

LEMMA BeginAodStep ==
  ASSUME IInv, NEW job \in Jobs, NEW deps \in SUBSET DOMAIN instructions,
         NEW sites \in SUBSET (DOMAIN instructions \cup {nextId}),
         BeginAod(job, deps, sites)
  PROVE  IInv'
<1> DEFINE earliest(r, drop) == {aodEnd[r]} \cup DependencyEnds(deps)
                                  \cup SiteBegins(sites \ {nextId}, drop)
           t(r, begin, pickup, drop) ==
             [kind |-> "aod", begin |-> begin, end |-> begin + job[Len(job)].stop,
              resource |-> r, pickup |-> begin + pickup, drop |-> drop]
           slot(r, begin, k) ==
             [type |-> job[k].kind, start |-> begin + job[k].start,
              stop |-> begin + job[k].stop, atoms |-> job[k].atoms,
              id |-> nextId, phase |-> k, resource |-> r]
           booking(r, begin) == [k \in 1 .. Len(job) |-> slot(r, begin, k)]
           entered(r, pickup, length, drop, begin) ==
             Enter([kind |-> "aod", begin |-> begin, end |-> begin + length,
                    resource |-> r, pickup |-> begin + pickup, drop |-> drop],
                   booking(r, begin))
<1>a. \E r \in Aods, pickup \in Offsets(job, "load", "stop"),
         drop \in Offsets(job, "store", "start"), length \in {job[Len(job)].stop} :
        /\ IsAsapAod(r)
        /\ IsLatest(pickup, Offsets(job, "load", "stop"))
        /\ \A u \in Offsets(job, "store", "start") : drop <= u
        /\ nextId \in sites => pickup <= drop
        /\ \E begin \in earliest(r, drop) :
             /\ IsLatest(begin, earliest(r, drop))
             /\ entered(r, pickup, length, drop, begin)
  BY DEF BeginAod
<1>b. PICK r \in Aods, pickup \in Offsets(job, "load", "stop"),
           drop \in Offsets(job, "store", "start"), length \in {job[Len(job)].stop} :
        \E begin \in earliest(r, drop) :
          /\ IsLatest(begin, earliest(r, drop))
          /\ entered(r, pickup, length, drop, begin)
  <2> HIDE DEF earliest, entered
  <2> QED BY <1>a
<1>0. \E begin \in earliest(r, drop) :
        /\ IsLatest(begin, earliest(r, drop))
        /\ Enter(t(r, begin, pickup, drop), booking(r, begin))
  <2>1. PICK begin \in earliest(r, drop) : IsLatest(begin, earliest(r, drop))
                                           /\ entered(r, pickup, length, drop, begin)
    BY <1>b
  <2>2. length = job[Len(job)].stop
    BY <1>b
  <2>3. Enter(t(r, begin, pickup, drop), booking(r, begin))
    BY <2>1, <2>2
  <2> QED BY <2>1, <2>3
<1> HIDE DEF entered
<1>1. PICK begin \in earliest(r, drop) :
        /\ IsLatest(begin, earliest(r, drop))
        /\ Enter(t(r, begin, pickup, drop), booking(r, begin))
  BY <1>0
<1>2. /\ job \in Seq(Phase) /\ Len(job) \in Nat /\ DOMAIN job = 1 .. Len(job)
      /\ Len(job) \in DOMAIN job
      /\ InOrder(job) /\ r \in Nat
  <2>1. job \in Seq(Phase) /\ InOrder(job) /\ r \in Nat
    BY LedgerAssumption
  <2>2. DOMAIN job # {}
    BY DEF BeginAod
  <2> QED BY <2>1, <2>2
<1>3. \A k \in 1 .. Len(job) :
        /\ job[k] \in Phase /\ job[k].start \in Nat /\ job[k].stop \in Nat
        /\ job[k].kind \in {"load", "move", "store"} /\ job[k].atoms \in Seq(Atoms)
        /\ job[k].start <= job[k].stop /\ job[k].stop <= job[Len(job)].stop
  <2> TAKE k \in 1 .. Len(job)
  <2>1. job[k] \in Phase /\ job[Len(job)] \in Phase
    BY <1>2, ElementOfSeq
  <2>2. /\ job[k] \in Phase /\ job[k].start \in Nat /\ job[k].stop \in Nat
        /\ job[k].kind \in {"load", "move", "store"} /\ job[k].atoms \in Seq(Atoms)
        /\ job[Len(job)].start \in Nat /\ job[Len(job)].stop \in Nat
    BY <2>1, <1>2 DEF Phase
  <2>3. /\ job[k].start <= job[k].stop
        /\ job[Len(job)].start <= job[Len(job)].stop
        /\ k < Len(job) => job[k].stop <= job[Len(job)].start
    BY <1>2 DEF InOrder
  <2>4. k = Len(job) \/ k < Len(job)
    <3>1. Len(job) \in Nat
      BY <1>2
    <3> QED BY <3>1
  <2> QED BY <2>2, <2>3, <2>4
<1>4. pickup \in Nat /\ drop \in Nat
  <2>1. \A k \in DOMAIN job : job[k]["stop"] \in Nat /\ job[k]["start"] \in Nat
    BY <1>2, <1>3
  <2> QED BY <2>1 DEF Offsets
<1>5. begin \in Nat /\ aodEnd[r] <= begin /\ nextId \in Nat
  <2>1. aodEnd[r] \in Nat /\ nextId \in Nat
    BY DEF IInv, TypeOK
  <2>2. SiteBegins(sites \ {nextId}, drop) \subseteq Int
    <3>1. sites \ {nextId} \subseteq DOMAIN instructions
      OBVIOUS
    <3>2. \A d \in sites \ {nextId} : instructions[d].end \in Nat /\ instructions[d].pickup \in Nat
      BY <3>1 DEF IInv, TypeOK, Timing
    <3> QED BY <3>2, <1>4 DEF SiteBegins
  <2>3. begin \in Int /\ aodEnd[r] <= begin
    <3>1. earliest(r, drop) \subseteq Int
      <4>1. TypeOK
        BY DEF IInv
      <4>2. DependencyEnds(deps) \subseteq Nat
        BY <4>1, DependencyTimes
      <4>3. PICK A, B, C : A = {aodEnd[r]} /\ B = DependencyEnds(deps)
                           /\ C = SiteBegins(sites \ {nextId}, drop)
        OBVIOUS
      <4>4. A \subseteq Int /\ B \subseteq Int /\ C \subseteq Int
        <5>1. A \subseteq Int
          BY <2>1, <4>3
        <5>2. B \subseteq Nat
          BY <4>2, <4>3
        <5>3. C \subseteq Int
          BY <2>2, <4>3
        <5>4. B \subseteq Int
          BY <5>2
        <5> QED BY <5>1, <5>3, <5>4
      <4>5. A \cup B \cup C \subseteq Int
        BY <4>4
      <4> QED BY <4>3, <4>5
    <3>2. aodEnd[r] \in earliest(r, drop)
      OBVIOUS
    <3> HIDE DEF earliest
    <3> QED BY <1>1, <3>1, <3>2 DEF IsLatest
  <2> QED BY <2>1, <2>3
<1> DEFINE tt == t(r, begin, pickup, drop)
           bb == booking(r, begin)
<1>6. tt \in Timing
  BY <1>2, <1>3, <1>4, <1>5 DEF Timing, Kinds
<1>7. bb \in Seq(Event) /\ DOMAIN bb = 1 .. Len(job)
  <2>1. \A k \in 1 .. Len(job) : slot(r, begin, k) \in Event
    BY <1>2, <1>3, <1>5 DEF Event, EventTypes, ActiveTypes
  <2>2. bb \in [1 .. Len(job) -> Event]
    BY <2>1
  <2> HIDE DEF bb
  <2> QED BY <2>2, <1>2, SeqDef
<1>8. tt.begin <= tt.end /\ DeviceFree(tt)
  BY <1>2, <1>3, <1>5 DEF DeviceFree
<1>9. \A k \in DOMAIN bb : EventOfCall(bb[k], k, tt)
  <2> SUFFICES ASSUME NEW k \in 1 .. Len(job) PROVE EventOfCall(slot(r, begin, k), k, tt)
    BY <1>7
  <2>1. /\ begin <= begin + job[k].start
        /\ begin + job[k].start <= begin + job[k].stop
        /\ begin + job[k].stop <= begin + job[Len(job)].stop
    BY <1>2, <1>3, <1>5
  <2> QED BY <2>1, <1>3 DEF EventOfCall
<1>10. InOrder(bb)
  <2>1. ASSUME NEW i \in 1 .. Len(job), NEW j \in 1 .. Len(job), i < j
        PROVE  bb[i].stop <= bb[j].start
    <3>1. job[i].stop <= job[j].start
      BY <2>1, <1>2 DEF InOrder
    <3> QED BY <3>1, <1>3, <1>5
  <2>2. \A i \in 1 .. Len(job) : bb[i].start <= bb[i].stop
    BY <1>3, <1>5
  <2> QED BY <2>1, <2>2, <1>7 DEF InOrder
<1>11. /\ call = Idle /\ Enter(tt, bb)
       /\ UNCHANGED <<instructions, nextId, traceEnd, activeUnion, atomEnd, clocks, events>>
  BY <1>1 DEF BeginAod, OpenCall
<1> HIDE DEF tt, bb
<1> QED BY <1>6, <1>7, <1>8, <1>9, <1>10, <1>11, EnterStep

LEMMA NextIInv == IInv /\ [Next]_ledgerVars => IInv'
<1> SUFFICES ASSUME IInv, [Next]_ledgerVars PROVE IInv'
  OBVIOUS
<1>1. CASE BeginInit
  BY <1>1, BeginInitStep
<1>2. CASE \E deps \in SUBSET DOMAIN instructions :
             \E block \in GateBlocks : BeginOneQubit(block, deps)
  BY <1>2, BeginOneQubitStep
<1>3. CASE \E deps \in SUBSET DOMAIN instructions :
             \E pulse \in Pulses, zone \in Zones : BeginCz(pulse, zone, deps)
  BY <1>3, BeginCzStep
<1>4. CASE \E deps \in SUBSET DOMAIN instructions :
             \E job \in Jobs, sites \in SUBSET (DOMAIN instructions \cup {nextId}) :
               BeginAod(job, deps, sites)
  BY <1>4, BeginAodStep
<1>5. CASE RecordEvent
  BY <1>5, RecordEventStep
<1>6. CASE RaiseOverlap
  BY <1>6, RaiseOverlapStep
<1>7. CASE Commit
  BY <1>7, CommitStep
<1>8. CASE \E keep \in SUBSET DOMAIN instructions : Prune(keep)
  BY <1>8, PruneStep
<1>9. CASE UNCHANGED ledgerVars
  BY <1>9 DEF ledgerVars, clocks, IInv, TypeOK, CallInv, HistoryInv, IdleWithinTrace,
              Booking, DeviceFree, EventOfCall, ClockAfter, ActiveAtoms
<1> QED
  BY <1>1, <1>2, <1>3, <1>4, <1>5, <1>6, <1>7, <1>8, <1>9 DEF Next

LEMMA Invariance == Spec => []IInv
<1>1. Init => IInv
  BY InitIInv
<1>2. IInv /\ [Next]_ledgerVars => IInv'
  BY NextIInv
<1> QED BY <1>1, <1>2, PTL DEF Spec

(* The state of the ledger keeps its types: in particular no clock, no end *)
(* and no active time is ever negative.                                    *)
THEOREM TypeCorrect == Spec => []TypeOK
<1>1. IInv => TypeOK
  BY DEF IInv
<1> QED BY <1>1, Invariance, PTL

(* The clamp of idle_time_us at zero never hides anything.                 *)
THEOREM IdleTimeExact == Spec => []IdleWithinTrace
<1>1. IInv => IdleWithinTrace
  BY DEF IInv
<1> QED BY <1>1, Invariance, PTL

(* Two slots of one resource that overlap are the same slot: the step that *)
(* records an event extends the abstract timeline, all others leave it.    *)
LEMMA BookingStep ==
  ASSUME IInv, [Next]_ledgerVars
  PROVE  [Timeline!Book]_Bookings
<1> DEFINE slots(e) == {Slot(e, <<"atom", a>>) : a \in ActiveAtoms(e)} \cup {Slot(e, Device(e))}
<1>1. Bookings = UNION {slots(e) : e \in events}
  BY DEF Bookings
<1>2. CASE RecordEvent
  <2> DEFINE ev == NextEvent
  <2>1. /\ call \in Call /\ call # Raised /\ Booking
        /\ call.done + 1 \in DOMAIN call.booking
        /\ ev \in Event /\ ActiveAtoms(ev) \subseteq Atoms
        /\ EventOfCall(ev, call.done + 1, call.timing)
    BY <1>2, NextEventFacts DEF RecordEvent
  <2>2. /\ ev.start \in Nat /\ ev.stop \in Nat /\ call.timing.begin \in Nat
        /\ call.timing.begin <= ev.start
    BY <2>1 DEF Event, EventOfCall, Timing, Call
  <2>3. ASSUME NEW e \in events
        PROVE  /\ e.stop \in Nat
               /\ \A a \in ActiveAtoms(e) \cap ActiveAtoms(ev) : e.stop <= ev.start
               /\ Device(e) = Device(ev) => e.stop <= ev.start
    <3>1. e \in Event /\ e.stop \in Nat /\ ActiveAtoms(e) \subseteq Atoms
      BY DEF IInv, TypeOK, Event, ActiveAtoms, AtomsOf
    <3>2. ASSUME NEW a \in ActiveAtoms(e) \cap ActiveAtoms(ev)
          PROVE  e.stop <= ev.start
      <4>1. e.stop <= atomEnd[a] /\ atomEnd[a] \in Nat
        BY <2>1, <3>1 DEF IInv, HistoryInv, TypeOK
      <4>2. atomEnd[a] <= ev.start
        BY <1>2 DEF RecordEvent
      <4> QED BY <4>1, <4>2, <3>1, <2>2
    <3>3. ASSUME Device(e) = Device(ev)
          PROVE  e.stop <= ev.start
      <4>1. CASE ClockAfter(e, e.stop)
        <5>1. /\ e.resource = ev.resource
              /\ e.type = "one_qubit_gate" <=> ev.type = "one_qubit_gate"
              /\ e.type = "two_qubit_gate" <=> ev.type = "two_qubit_gate"
              /\ e.type \in {"load", "move", "store"} <=> ev.type \in {"load", "move", "store"}
          BY <3>1, <3>3, <2>1 DEF Device, Event, EventTypes, ActiveTypes
        <5>2. CASE ev.type = "one_qubit_gate"
          BY <5>1, <5>2, <4>1, <3>1, <2>1, <2>2
             DEF ClockAfter, EventOfCall, IInv, TypeOK, CallInv, DeviceFree
        <5>3. CASE ev.type = "two_qubit_gate"
          BY <5>1, <5>3, <4>1, <3>1, <2>1, <2>2
             DEF ClockAfter, EventOfCall, IInv, TypeOK, CallInv, DeviceFree
        <5>4. CASE ev.type \in {"load", "move", "store"}
          BY <5>1, <5>4, <4>1, <3>1, <2>1, <2>2
             DEF ClockAfter, EventOfCall, IInv, TypeOK, CallInv, DeviceFree
        <5> QED BY <5>2, <5>3, <5>4, <2>1 DEF EventOfCall
      <4>2. CASE \E k \in 1 .. call.done : e = call.booking[k]
        <5>1. PICK k \in DOMAIN call.booking : k < call.done + 1 /\ e = call.booking[k]
          BY <4>2, <2>1 DEF Call, Pending, RecordEvent
        <5> QED BY <5>1, <2>1 DEF IInv, CallInv, InOrder, NextEvent
      <4> QED BY <4>1, <4>2, <2>1 DEF IInv, HistoryInv
    <3> QED BY <3>1, <3>2, <3>3
  <2>4. events' = events \cup {ev}
    BY <1>2 DEF RecordEvent
  <2>5. Bookings' = Bookings \cup slots(ev)
    BY <1>1, <2>4 DEF Bookings, ActiveAtoms, Slot, Device, AtomsOf
  <2>6. ASSUME NEW b \in slots(ev), NEW c \in Bookings', b # c
        PROVE  ~Timeline!Overlap(b, c)
    <3>1. CASE c \in slots(ev)
      BY <3>1, <2>6 DEF Slot, Timeline!Overlap
    <3>2. CASE c \in Bookings
      <4>1. PICK e \in events : c \in slots(e)
        BY <3>2, <1>1
      <4>2. b.from = ev.start /\ c.to = e.stop
        BY <4>1 DEF Slot
      <4>3. b.res = c.res => e.stop <= ev.start
        <5>1. CASE b.res = Device(ev) /\ c.res = Device(e)
          BY <5>1, <2>3
        <5>2. CASE \E a \in ActiveAtoms(ev) : b.res = <<"atom", a>>
          <6>1. PICK a \in ActiveAtoms(ev) : b.res = <<"atom", a>>
            BY <5>2
          <6>2. CASE c.res = Device(e)
            BY <6>1, <6>2 DEF Device
          <6>3. CASE \E d \in ActiveAtoms(e) : c.res = <<"atom", d>>
            BY <6>1, <6>3, <2>3
          <6> QED BY <6>2, <6>3, <4>1 DEF Slot
        <5>3. CASE b.res = Device(ev) /\ \E d \in ActiveAtoms(e) : c.res = <<"atom", d>>
          BY <5>3 DEF Device
        <5> QED BY <5>1, <5>2, <5>3, <4>1 DEF Slot
      <4> QED BY <4>2, <4>3, <2>2, <2>3 DEF Timeline!Overlap
    <3> QED BY <3>1, <3>2, <2>5
  <2>7. Bookings \subseteq Bookings' /\ Bookings' \ Bookings \subseteq slots(ev)
    BY <2>5
  <2> QED BY <2>6, <2>7 DEF Timeline!Book
<1>3. CASE UNCHANGED events
  BY <1>3 DEF Bookings, ActiveAtoms, Slot, Device, AtomsOf
<1> QED
  BY <1>2, <1>3 DEF Next, ledgerVars, BeginInit, BeginOneQubit, BeginCz, BeginAod,
     RaiseOverlap, Commit, Prune

(* The ledger implements the exclusive timeline: whatever is asked of it,  *)
(* and whatever its callers prune, no atom is active in two recorded events*)
(* at once, no device performs two at once, and no event is ever moved.    *)
THEOREM Refinement == Spec => TimelineSpec
<1>1. Init => Timeline!Init
  BY DEF Init, Timeline!Init, Bookings
<1>2. IInv /\ [Next]_ledgerVars => [Timeline!Book]_Bookings
  BY BookingStep
<1> QED BY <1>1, <1>2, Invariance, PTL DEF Spec, TimelineSpec, Timeline!Spec

(* Hence the bookings of every reachable state are pairwise exclusive.     *)
THEOREM NeverDoubleBooked == Spec => []Timeline!Exclusive
<1>1. Timeline!Init => Timeline!Exclusive
  BY DEF Timeline!Init, Timeline!Exclusive
<1>2. Timeline!Exclusive /\ [Timeline!Book]_Bookings => Timeline!Exclusive'
  <2>1. CASE Timeline!Book
    <3> SUFFICES ASSUME Timeline!Exclusive,
                        NEW b \in Bookings', NEW c \in Bookings', b # c
                 PROVE  ~Timeline!Overlap(b, c)
      BY DEF Timeline!Exclusive, Timeline!Overlap
    <3>1. ~Timeline!Overlap(b, c) \/ (b \in Bookings /\ c \notin Bookings)
      BY <2>1 DEF Timeline!Book, Timeline!Exclusive
    <3>2. c \notin Bookings => ~Timeline!Overlap(c, b)
      BY <2>1 DEF Timeline!Book
    <3> QED BY <3>1, <3>2 DEF Timeline!Overlap
  <2>2. CASE UNCHANGED Bookings
    BY <2>2 DEF Timeline!Exclusive, Timeline!Overlap
  <2> QED BY <2>1, <2>2
<1> QED BY <1>1, <1>2, Refinement, PTL DEF TimelineSpec, Timeline!Spec

--------------------------------------------------------------------------------
(***************************************************************************)
(* What the scheduler ledger keeps in place of its history is exact: the   *)
(* invariant above bounds every recorded event by the clocks, here every   *)
(* clock is shown to be the end of an event that was recorded, and the     *)
(* active time of an atom the measure of its recorded events.              *)
(***************************************************************************)

(* The last event of a pulse or a job ends with its instruction; those of a*)
(* one-qubit block leave room for the common tail.                         *)
Ends(t, b) ==
  /\ t.kind = "init" => t.end = 0 /\ Len(b) = 0
  /\ t.kind \in {"cz", "aod"} => Len(b) \in DOMAIN b /\ b[Len(b)].stop = t.end
  /\ t.kind = "one_qubit" => \A k \in DOMAIN b : b[k].stop + OneQCommon <= t.end

EndInv ==
  Booking => /\ Ends(call.timing, call.booking)
             /\ \A k \in 1 .. call.done : call.booking[k] \in events

Stops == {e.stop : e \in events}

SummaryInv ==
  call # Raised =>
    /\ \A r \in Aods : aodEnd[r] \in {0} \cup StopsOn(<<"aod", r>>)
    /\ \A z \in Zones : rydEnd[z] \in {0} \cup StopsOn(<<"zone", z>>)
    /\ \A e \in events : e.type = "one_qubit_gate" /\ e.id < nextId =>
         e.stop + OneQCommon <= oneQEnd
    /\ IsLatest(traceEnd, {0, oneQEnd} \cup Stops)

ClockInv == EndInv /\ SummaryInv

LEMMA InitClocks == Init => ClockInv
BY DEF Init, ClockInv, EndInv, SummaryInv, Booking, Idle, IsLatest, Stops

(* A step that leaves history and clocks alone.                            *)
LEMMA HistoryKept ==
  ASSUME SummaryInv, call # Raised,
         UNCHANGED <<nextId, traceEnd, clocks, events>>
  PROVE  SummaryInv'
BY DEF SummaryInv, clocks, Stops, StopsOn, Device, IsLatest

LEMMA EnterKeeps ==
  ASSUME IInv, ClockInv, call = Idle, NEW timing, NEW booking, Enter(timing, booking),
         UNCHANGED <<instructions, nextId, traceEnd, activeUnion, atomEnd, clocks, events>>,
         Ends(timing, booking)
  PROVE  ClockInv'
<1>1. call'.timing = timing /\ call'.booking = booking /\ call'.done = 0
  BY DEF Enter
<1>2. EndInv'
  BY <1>1 DEF EndInv, Ends
<1>3. call # Raised
  BY DEF Idle, Raised
<1> QED BY <1>2, <1>3, HistoryKept DEF ClockInv

LEMMA InitEnds == IInv /\ ClockInv /\ BeginInit => ClockInv'
<1> SUFFICES ASSUME IInv, ClockInv, BeginInit PROVE ClockInv'
  OBVIOUS
<1> DEFINE t == [kind |-> "init", begin |-> 0, end |-> 0, resource |-> 0,
                 pickup |-> 0, drop |-> 0]
<1>1. /\ call = Idle /\ Enter(t, <<>>)
      /\ UNCHANGED <<instructions, nextId, traceEnd, activeUnion, atomEnd, clocks, events>>
  BY DEF BeginInit, OpenCall
<1>2. Ends(t, <<>>)
  BY DEF Ends
<1> HIDE DEF t
<1> QED BY <1>1, <1>2, EnterKeeps

LEMMA OneQubitEnds ==
  ASSUME IInv, ClockInv, NEW block \in GateBlocks, NEW deps \in SUBSET DOMAIN instructions,
         BeginOneQubit(block, deps)
  PROVE  ClockInv'
<1> DEFINE t(begin) == [kind |-> "one_qubit", begin |-> begin,
                        end |-> begin + Len(block) * OneQTime + OneQCommon,
                        resource |-> Beam, pickup |-> 0, drop |-> 0]
           b(begin) == [k \in 1 .. Len(block) |->
                         [type |-> "one_qubit_gate",
                          start |-> begin + (k - 1) * OneQTime,
                          stop |-> begin + k * OneQTime,
                          atoms |-> <<block[k]>>, id |-> nextId, phase |-> k,
                          resource |-> Beam]]
<1>1. PICK begin \in {oneQEnd} \cup DependencyEnds(deps) : Enter(t(begin), b(begin))
  BY DEF BeginOneQubit
<1>2. begin \in Nat /\ Len(block) \in Nat /\ OneQTime \in Nat /\ OneQCommon \in Nat
  <2>1. TypeOK /\ oneQEnd \in Nat
    BY DEF IInv, TypeOK
  <2>2. DependencyEnds(deps) \subseteq Nat
    BY <2>1, DependencyTimes
  <2>3. Len(block) \in Nat
    <3>1. block \in Seq(Atoms)
      BY LedgerAssumption
    <3> QED BY <3>1
  <2> QED BY <1>1, <2>1, <2>2, <2>3, LedgerAssumption
<1>3. Ends(t(begin), b(begin))
  <2> SUFFICES ASSUME NEW k \in 1 .. Len(block)
               PROVE  begin + k * OneQTime + OneQCommon
                        <= begin + Len(block) * OneQTime + OneQCommon
    BY DEF Ends
  <2>1. /\ k * OneQTime \in Nat /\ Len(block) * OneQTime \in Nat
        /\ k * OneQTime <= Len(block) * OneQTime
    <3>1. k \in Nat /\ k <= Len(block)
      BY <1>2
    <3> QED BY <3>1, <1>2, Slots
  <2> QED BY <2>1, <1>2
<1>4. /\ call = Idle
      /\ UNCHANGED <<instructions, nextId, traceEnd, activeUnion, atomEnd, clocks, events>>
  BY DEF BeginOneQubit, OpenCall
<1> HIDE DEF t, b
<1> QED BY <1>1, <1>3, <1>4, EnterKeeps

LEMMA CzEnds ==
  ASSUME IInv, ClockInv, NEW pulse \in Pulses, NEW zone \in Zones,
         NEW deps \in SUBSET DOMAIN instructions, BeginCz(pulse, zone, deps)
  PROVE  ClockInv'
<1> DEFINE t(begin) == [kind |-> "cz", begin |-> begin, end |-> begin + RydTime,
                        resource |-> zone, pickup |-> 0, drop |-> 0]
           ev(begin) == [type |-> "two_qubit_gate", start |-> begin,
                         stop |-> begin + RydTime, atoms |-> pulse, id |-> nextId,
                         phase |-> 1, resource |-> zone]
<1>1. PICK begin \in {rydEnd[zone]} \cup DependencyEnds(deps) : Enter(t(begin), <<ev(begin)>>)
  BY DEF BeginCz
<1>2. Ends(t(begin), <<ev(begin)>>)
  <2>1. ev(begin).stop = t(begin).end /\ t(begin).kind = "cz"
    OBVIOUS
  <2> HIDE DEF ev, t
  <2>2. Len(<<ev(begin)>>) = 1 /\ DOMAIN <<ev(begin)>> = {1} /\ <<ev(begin)>>[1] = ev(begin)
    OBVIOUS
  <2> QED BY <2>1, <2>2 DEF Ends
<1>3. /\ call = Idle
      /\ UNCHANGED <<instructions, nextId, traceEnd, activeUnion, atomEnd, clocks, events>>
  BY DEF BeginCz, OpenCall
<1> HIDE DEF t, ev
<1> QED BY <1>1, <1>2, <1>3, EnterKeeps

LEMMA AodEnds ==
  ASSUME IInv, ClockInv, NEW job \in Jobs, NEW deps \in SUBSET DOMAIN instructions,
         NEW sites \in SUBSET (DOMAIN instructions \cup {nextId}),
         BeginAod(job, deps, sites)
  PROVE  ClockInv'
<1> DEFINE t(r, begin, pickup, drop) ==
             [kind |-> "aod", begin |-> begin, end |-> begin + job[Len(job)].stop,
              resource |-> r, pickup |-> begin + pickup, drop |-> drop]
           b(r, begin) ==
             [k \in 1 .. Len(job) |->
               [type |-> job[k].kind, start |-> begin + job[k].start,
                stop |-> begin + job[k].stop, atoms |-> job[k].atoms,
                id |-> nextId, phase |-> k, resource |-> r]]
           earliest(r, drop) == {aodEnd[r]} \cup DependencyEnds(deps)
                                  \cup SiteBegins(sites \ {nextId}, drop)
           entered(r, pickup, length, drop, begin) ==
             Enter([kind |-> "aod", begin |-> begin, end |-> begin + length,
                    resource |-> r, pickup |-> begin + pickup, drop |-> drop], b(r, begin))
<1>a. \E r \in Aods, pickup \in Offsets(job, "load", "stop"),
         drop \in Offsets(job, "store", "start"), length \in {job[Len(job)].stop} :
        /\ IsAsapAod(r)
        /\ IsLatest(pickup, Offsets(job, "load", "stop"))
        /\ \A u \in Offsets(job, "store", "start") : drop <= u
        /\ nextId \in sites => pickup <= drop
        /\ \E begin \in earliest(r, drop) :
             /\ IsLatest(begin, earliest(r, drop))
             /\ entered(r, pickup, length, drop, begin)
  BY DEF BeginAod
<1>b. \E r, begin, pickup, drop : entered(r, pickup, job[Len(job)].stop, drop, begin)
  <2> HIDE DEF earliest, entered
  <2> QED BY <1>a
<1>1. PICK r, begin, pickup, drop : Enter(t(r, begin, pickup, drop), b(r, begin))
  BY <1>b
<1>2. Len(job) \in Nat /\ Len(job) \in 1 .. Len(job)
  <2>1. job \in Seq(Phase)
    BY LedgerAssumption
  <2>2. DOMAIN job # {}
    BY DEF BeginAod
  <2> QED BY <2>1, <2>2
<1>3. Ends(t(r, begin, pickup, drop), b(r, begin))
  <2>1. DOMAIN b(r, begin) = 1 .. Len(job) /\ Len(b(r, begin)) = Len(job)
    BY <1>2
  <2> QED BY <2>1, <1>2 DEF Ends
<1>4. /\ call = Idle
      /\ UNCHANGED <<instructions, nextId, traceEnd, activeUnion, atomEnd, clocks, events>>
  BY DEF BeginAod, OpenCall
<1> HIDE DEF t, b
<1> QED BY <1>1, <1>3, <1>4, EnterKeeps

(* An event that is recorded is not yet one of a committed instruction.    *)
LEMMA RecordKeeps == IInv /\ ClockInv /\ RecordEvent => ClockInv'
<1> SUFFICES ASSUME IInv, ClockInv, RecordEvent PROVE ClockInv'
  OBVIOUS
<1>1. /\ call \in Call /\ call # Raised /\ Booking
      /\ NextEvent \in Event /\ EventOfCall(NextEvent, call.done + 1, call.timing)
  BY NextEventFacts DEF RecordEvent
<1>2. /\ Booking' /\ call'.done = call.done + 1 /\ call.done \in Nat
      /\ call'.booking = call.booking /\ call'.timing = call.timing
      /\ events' = events \cup {NextEvent} /\ nextId' = nextId
      /\ traceEnd' = Later(traceEnd, NextEvent.stop) /\ UNCHANGED clocks
  BY <1>1 DEF RecordEvent, Call, Booking
<1>3. EndInv'
  BY <1>1, <1>2 DEF ClockInv, EndInv, Ends, NextEvent
<1> PICK ev : ev = NextEvent
  OBVIOUS
<1>4. /\ ev.id = nextId /\ ev.stop \in Nat /\ nextId \in Nat
      /\ traceEnd' = Later(traceEnd, ev.stop) /\ events' = events \cup {ev}
  BY <1>1, <1>2 DEF EventOfCall, Event, IInv, TypeOK
<1>5. SummaryInv'
  <2> USE DEF ClockInv, SummaryInv
  <2>1. \A d : StopsOn(d) \subseteq StopsOn(d)'
    BY <1>4 DEF StopsOn, Device
  <2>2. /\ \A r \in Aods : (aodEnd[r] \in {0} \cup StopsOn(<<"aod", r>>))'
        /\ \A z \in Zones : (rydEnd[z] \in {0} \cup StopsOn(<<"zone", z>>))'
    BY <1>1, <1>2, <2>1 DEF clocks
  <2>3. \A e \in events' : e.type = "one_qubit_gate" /\ e.id < nextId' =>
           e.stop + OneQCommon <= oneQEnd'
    BY <1>1, <1>2, <1>4 DEF clocks
  <2>4. IsLatest(traceEnd, {0, oneQEnd} \cup Stops)'
    <3>1. Stops' = Stops \cup {ev.stop} /\ oneQEnd' = oneQEnd
      BY <1>2, <1>4 DEF Stops, clocks
    <3>2. IsLatest(traceEnd, {0, oneQEnd} \cup Stops)
      BY <1>1
    <3>3. traceEnd \in Nat /\ \A s \in {0, oneQEnd} \cup Stops : s \in Nat
      BY DEF Stops, IInv, TypeOK, Event
    <3> QED BY <1>4, <3>1, <3>2, <3>3 DEF IsLatest, Later
  <2> QED BY <2>2, <2>3, <2>4
<1> QED BY <1>3, <1>5 DEF ClockInv

LEMMA CommitKeeps == IInv /\ ClockInv /\ Commit => ClockInv'
<1> SUFFICES ASSUME IInv, ClockInv, Commit PROVE ClockInv'
  OBVIOUS
<1> PICK t : t = call.timing
  OBVIOUS
<1> PICK b : b = call.booking
  OBVIOUS
<1>1. call \in Call /\ call # Raised /\ Booking
  BY CallStates DEF IInv, Commit
<1>2. /\ t \in Timing /\ t.end \in Nat /\ t.begin \in Nat /\ b \in Seq(Event)
      /\ t.begin <= t.end /\ DeviceFree(t) /\ Ends(t, b)
      /\ \A k \in DOMAIN b : b[k] \in events /\ EventOfCall(b[k], k, t)
  BY <1>1 DEF Call, Timing, IInv, CallInv, ClockInv, EndInv, Commit
<1>3. /\ call' = Idle /\ ~Booking' /\ events' = events /\ AdvanceClock(t)
      /\ nextId' = nextId + 1 /\ traceEnd' = Later(traceEnd, t.end)
  BY DEF Commit, Booking, Idle
<1>4. /\ nextId \in Nat /\ traceEnd \in Nat /\ oneQEnd \in Nat /\ OneQCommon \in Nat
      /\ \A e \in events : e.stop \in Nat /\ e.id \in Nat
  BY LedgerAssumption DEF IInv, TypeOK, Event
<1>5. t.kind \in {"cz", "aod"} =>
        LET e == b[Len(b)] IN
        /\ e \in events /\ e.stop = t.end
        /\ t.kind = "cz" => Device(e) = <<"zone", t.resource>>
        /\ t.kind = "aod" => Device(e) = <<"aod", t.resource>>
  BY <1>2 DEF Ends, EventOfCall, Device
<1>6. \A r \in Aods : (aodEnd[r] \in {0} \cup StopsOn(<<"aod", r>>))'
  <2> TAKE r \in Aods
  <2>1. StopsOn(<<"aod", r>>)' = StopsOn(<<"aod", r>>)
    BY <1>3 DEF StopsOn, Device
  <2>2. CASE t.kind = "aod" /\ r = t.resource
    <3>1. aodEnd'[r] = t.end
      BY <1>3, <2>2 DEF AdvanceClock
    <3> QED BY <1>5, <2>1, <2>2, <3>1 DEF StopsOn
  <2>3. CASE ~(t.kind = "aod" /\ r = t.resource)
    <3>1. aodEnd'[r] = aodEnd[r]
      BY <1>3, <2>3 DEF AdvanceClock
    <3> QED BY <1>1, <2>1, <3>1 DEF ClockInv, SummaryInv
  <2> QED BY <2>2, <2>3
<1>7. \A z \in Zones : (rydEnd[z] \in {0} \cup StopsOn(<<"zone", z>>))'
  <2> TAKE z \in Zones
  <2>1. StopsOn(<<"zone", z>>)' = StopsOn(<<"zone", z>>)
    BY <1>3 DEF StopsOn, Device
  <2>2. CASE t.kind = "cz" /\ z = t.resource
    <3>1. rydEnd'[z] = t.end
      BY <1>3, <2>2 DEF AdvanceClock
    <3> QED BY <1>5, <2>1, <2>2, <3>1 DEF StopsOn
  <2>3. CASE ~(t.kind = "cz" /\ z = t.resource)
    <3>1. rydEnd'[z] = rydEnd[z]
      BY <1>3, <2>3 DEF AdvanceClock
    <3> QED BY <1>1, <2>1, <3>1 DEF ClockInv, SummaryInv
  <2> QED BY <2>2, <2>3
<1>8. /\ oneQEnd <= oneQEnd'
      /\ t.kind = "one_qubit" => oneQEnd' = t.end
      /\ t.kind # "one_qubit" => oneQEnd' = oneQEnd
      /\ oneQEnd' \in Nat
  BY <1>2, <1>3, <1>4 DEF AdvanceClock, DeviceFree
<1>9. \A e \in events : e.type = "one_qubit_gate" => e.stop + OneQCommon <= oneQEnd'
  <2> SUFFICES ASSUME NEW e \in events, e.type = "one_qubit_gate"
               PROVE  e.stop + OneQCommon <= oneQEnd'
    OBVIOUS
  <2>1. CASE e.id < nextId
    BY <1>1, <1>4, <1>8, <2>1 DEF ClockInv, SummaryInv
  <2>2. CASE \E k \in 1 .. call.done : e = call.booking[k]
    <3>1. PICK k \in DOMAIN b : e = b[k]
      BY <1>1, <1>2, <2>2 DEF Commit
    <3>2. t.kind = "one_qubit"
      BY <1>2, <3>1 DEF EventOfCall
    <3> QED BY <1>2, <1>8, <3>1, <3>2 DEF Ends
  <2> QED BY <1>1, <2>1, <2>2 DEF IInv, HistoryInv
<1>10. IsLatest(traceEnd, {0, oneQEnd} \cup Stops)'
  <2>1. IsLatest(traceEnd, {0, oneQEnd} \cup Stops) /\ Stops' = Stops
    BY <1>1, <1>3 DEF ClockInv, SummaryInv, Stops
  <2>2. \A s \in Stops : s \in Nat
    BY <1>4 DEF Stops
  <2>3. t.kind \in {"cz", "aod"} => t.end \in Stops
    BY <1>5 DEF Stops
  <2>4. t.kind = "init" => t.end = 0
    BY <1>2 DEF Ends
  <2>5. t.kind \in {"init", "one_qubit", "cz", "aod"}
    BY <1>2 DEF Timing, Kinds
  <2>6. traceEnd' = Later(traceEnd, t.end)
    BY <1>3
  <2>7. t.kind = "one_qubit" => oneQEnd <= t.end
    BY <1>8
  <2> QED BY <1>2, <1>4, <1>8, <2>1, <2>2, <2>3, <2>4, <2>5, <2>6, <2>7 DEF IsLatest, Later
<1>11. SummaryInv'
  BY <1>3, <1>6, <1>7, <1>9, <1>10 DEF SummaryInv
<1> QED BY <1>3, <1>11 DEF ClockInv, EndInv

LEMMA NextClocks == IInv /\ ClockInv /\ [Next]_ledgerVars => ClockInv'
<1> SUFFICES ASSUME IInv, ClockInv, [Next]_ledgerVars PROVE ClockInv'
  OBVIOUS
<1>1. CASE \E deps \in SUBSET DOMAIN instructions :
             \/ \E block \in GateBlocks : BeginOneQubit(block, deps)
             \/ \E pulse \in Pulses, zone \in Zones : BeginCz(pulse, zone, deps)
             \/ \E job \in Jobs, sites \in SUBSET (DOMAIN instructions \cup {nextId}) :
                  BeginAod(job, deps, sites)
  BY <1>1, OneQubitEnds, CzEnds, AodEnds
<1>2. CASE RaiseOverlap
  <2>1. call' = Raised /\ ~Booking'
    BY <1>2 DEF RaiseOverlap, Booking, Raised
  <2> QED BY <2>1 DEF ClockInv, EndInv, SummaryInv
<1>3. CASE \E keep \in SUBSET DOMAIN instructions : Prune(keep)
  <2>1. call' = call /\ call = Idle /\ UNCHANGED <<nextId, traceEnd, clocks, events>>
    BY <1>3 DEF Prune
  <2>2. call # Raised /\ ~Booking'
    BY <2>1 DEF Booking, Idle, Raised
  <2> QED BY <2>1, <2>2, HistoryKept DEF ClockInv, EndInv
<1>4. CASE UNCHANGED ledgerVars
  <2>1. UNCHANGED <<call, nextId, traceEnd, clocks, events>>
    BY <1>4 DEF ledgerVars, clocks
  <2>2. EndInv'
    BY <2>1 DEF ClockInv, EndInv, Booking, Ends
  <2>3. SummaryInv'
    BY <2>1, HistoryKept DEF ClockInv, SummaryInv
  <2> QED BY <2>2, <2>3 DEF ClockInv
<1> QED BY <1>1, <1>2, <1>3, <1>4, InitEnds, RecordKeeps, CommitKeeps DEF Next

LEMMA ClockInvariance == Spec => [](IInv /\ ClockInv)
<1>1. Init => IInv /\ ClockInv
  BY InitIInv, InitClocks
<1>2. IInv /\ ClockInv /\ [Next]_ledgerVars => IInv' /\ ClockInv'
  BY NextIInv, NextClocks
<1> QED BY <1>1, <1>2, PTL DEF Spec

(* "Resource clocks, active union, the absolute trace tail [...] are prefix*)
(* summaries": between calls each device's clock is the end of the last    *)
(* event it performed, and the trace ends with the last of all, for any    *)
(* instructions, however many of them were pruned.                         *)
THEOREM ClocksAreSummaries == Spec => []ClocksSummariseEvents
<1>1. IInv /\ ClockInv => ClocksSummariseEvents
  <2> SUFFICES ASSUME IInv, ClockInv, call = Idle
               PROVE  /\ \A r \in Aods : IsLatest(aodEnd[r], {0} \cup StopsOn(<<"aod", r>>))
                      /\ \A z \in Zones : IsLatest(rydEnd[z], {0} \cup StopsOn(<<"zone", z>>))
                      /\ \A e \in events : Device(e) = <<"beam", Beam>> =>
                           e.stop + OneQCommon <= oneQEnd
                      /\ IsLatest(traceEnd, {0, oneQEnd} \cup Stops)
    BY DEF ClocksSummariseEvents, Stops
  <2>1. call # Raised /\ ~Booking
    BY DEF Booking, Idle, Raised
  <2>2. \A e \in events : e.id < nextId /\ ClockAfter(e, e.stop) /\ e \in Event
    BY <2>1 DEF IInv, HistoryInv, TypeOK
  <2>3. ASSUME NEW r \in Aods PROVE IsLatest(aodEnd[r], {0} \cup StopsOn(<<"aod", r>>))
    <3>1. \A e \in events : Device(e) = <<"aod", r>> => e.stop <= aodEnd[r]
      BY <2>2 DEF Device, ClockAfter, Event, EventTypes, ActiveTypes
    <3>2. aodEnd[r] \in Nat
      BY DEF IInv, TypeOK
    <3> QED BY <2>1, <3>1, <3>2 DEF ClockInv, SummaryInv, IsLatest, StopsOn
  <2>4. ASSUME NEW z \in Zones PROVE IsLatest(rydEnd[z], {0} \cup StopsOn(<<"zone", z>>))
    <3>1. \A e \in events : Device(e) = <<"zone", z>> => e.stop <= rydEnd[z]
      BY <2>2 DEF Device, ClockAfter
    <3>2. rydEnd[z] \in Nat
      BY DEF IInv, TypeOK
    <3> QED BY <2>1, <3>1, <3>2 DEF ClockInv, SummaryInv, IsLatest, StopsOn
  <2>5. \A e \in events : Device(e) = <<"beam", Beam>> => e.type = "one_qubit_gate"
    BY DEF Device
  <2> QED BY <2>1, <2>2, <2>3, <2>4, <2>5 DEF ClockInv, SummaryInv
<1> QED BY <1>1, ClockInvariance, PTL

-----------------------------------------------------------------------------
(* The active time of an atom.                                             *)

ActiveTimes(a) == {t \in 0 .. traceEnd :
                     \E e \in events : /\ a \in ActiveAtoms(e)
                                       /\ e.start <= t /\ t < e.stop}

MeasureInv ==
  call # Raised => \A a \in Atoms : activeUnion[a] = Cardinality(ActiveTimes(a))

(* The trace is long enough for whatever was recorded.                     *)
LEMMA WithinTrace ==
  ASSUME IInv, ClockInv, call # Raised
  PROVE  /\ traceEnd \in Nat
         /\ \A e \in events : e.start \in Nat /\ e.stop \in Nat /\ e.stop <= traceEnd
BY DEF IInv, TypeOK, Event, ClockInv, SummaryInv, IsLatest, Stops

(* A longer trace does not lengthen what an atom was active for.           *)
LEMMA MeasureKept ==
  ASSUME IInv, ClockInv, MeasureInv, call # Raised,
         traceEnd' \in Nat, traceEnd <= traceEnd', UNCHANGED <<activeUnion, events>>
  PROVE  MeasureInv'
<1>1. ASSUME NEW a \in Atoms PROVE ActiveTimes(a)' = ActiveTimes(a)
  <2>1. \A t \in Nat : \A e \in events : t < e.stop => t <= traceEnd
    BY WithinTrace
  <2> QED BY <2>1, WithinTrace DEF ActiveTimes, ActiveAtoms
<1> QED BY <1>1 DEF MeasureInv

(* What an event adds to an atom's active times begins after all of them.  *)
LEMMA RecordMeasures ==
  ASSUME IInv, ClockInv, MeasureInv, RecordEvent
  PROVE  MeasureInv'
<1>1. /\ call # Raised /\ NextEvent \in Event /\ ActiveAtoms(NextEvent) \subseteq Atoms
      /\ NextEvent.start <= NextEvent.stop
  BY NextEventFacts DEF RecordEvent, EventOfCall
<1> PICK ev : ev = NextEvent
  OBVIOUS
<1> PICK held : held = ActiveAtoms(ev)
  OBVIOUS
<1>2. /\ ev.start \in Nat /\ ev.stop \in Nat /\ ev.start <= ev.stop
      /\ events' = events \cup {ev} /\ traceEnd' = Later(traceEnd, ev.stop)
      /\ \A a \in held : atomEnd[a] <= ev.start
      /\ Engage(ev, held)
  BY <1>1 DEF RecordEvent, Event
<1>3. traceEnd \in Nat /\ \A e \in events : e.start \in Nat /\ e.stop \in Nat /\ e.stop <= traceEnd
  BY <1>1, WithinTrace
<1>4. traceEnd' \in Nat /\ traceEnd <= traceEnd' /\ ev.stop <= traceEnd'
  BY <1>2, <1>3 DEF Later
<1>5. ASSUME NEW a \in Atoms PROVE activeUnion'[a] = Cardinality(ActiveTimes(a)')
  <2>1. /\ activeUnion[a] = Cardinality(ActiveTimes(a)) /\ IsFiniteSet(ActiveTimes(a))
        /\ activeUnion[a] \in Nat
    <3>1. IsFiniteSet(0 .. traceEnd) /\ ActiveTimes(a) \subseteq 0 .. traceEnd
      BY <1>3, FS_Interval DEF ActiveTimes
    <3> QED BY <1>1, <3>1, FS_Subset DEF MeasureInv, IInv, TypeOK
  <2>2. CASE a \notin held
    <3>1. ActiveTimes(a)' = ActiveTimes(a)
      <4>1. \A t \in Nat : \A e \in events : t < e.stop => t <= traceEnd
        BY <1>3
      <4>2. \A e : ActiveAtoms(e)' = ActiveAtoms(e)
        BY DEF ActiveAtoms
      <4> QED BY <1>2, <1>3, <1>4, <2>2, <4>1, <4>2 DEF ActiveTimes
    <3> QED BY <1>2, <2>1, <2>2, <3>1 DEF Engage
  <2>3. CASE a \in held
    <3> DEFINE added == ev.start .. (ev.stop - 1)
    <3>1. ActiveTimes(a)' = ActiveTimes(a) \cup added
      <4>1. \A t \in Nat : \A e \in events : t < e.stop => t <= traceEnd
        BY <1>3
      <4>2. \A e : ActiveAtoms(e)' = ActiveAtoms(e)
        BY DEF ActiveAtoms
      <4>3. ASSUME NEW t \in Nat
            PROVE  t \in ActiveTimes(a)' <=> t \in ActiveTimes(a) \/ t \in added
        BY <1>2, <1>3, <1>4, <2>3, <4>1, <4>2 DEF ActiveTimes
      <4>4. ActiveTimes(a) \subseteq Nat /\ ActiveTimes(a)' \subseteq Nat /\ added \subseteq Nat
        BY <1>2 DEF ActiveTimes
      <4> HIDE DEF added
      <4> QED BY <4>3, <4>4
    <3>2. ActiveTimes(a) \cap added = {}
      <4>1. \A e \in events : a \in ActiveAtoms(e) => e.stop <= ev.start
        <5>1. \A e \in events : a \in ActiveAtoms(e) => e.stop <= atomEnd[a]
          BY <1>1 DEF IInv, HistoryInv
        <5>2. atomEnd[a] \in Nat /\ atomEnd[a] <= ev.start
          BY <1>2, <2>3 DEF IInv, TypeOK
        <5> QED BY <1>2, <1>3, <5>1, <5>2
      <4> QED BY <1>2, <1>3, <4>1 DEF ActiveTimes
    <3>3. IsFiniteSet(added) /\ Cardinality(added) = ev.stop - ev.start
      <4>1. ev.start \in Int /\ ev.stop - 1 \in Int
        BY <1>2
      <4>2. /\ IsFiniteSet(added)
            /\ Cardinality(added) = IF ev.start > ev.stop - 1 THEN 0
                                    ELSE (ev.stop - 1) - ev.start + 1
        BY <4>1, FS_Interval
      <4> HIDE DEF added
      <4> QED BY <1>2, <4>2
    <3> HIDE DEF added
    <3>4. Cardinality(ActiveTimes(a) \cup added)
            = Cardinality(ActiveTimes(a)) + Cardinality(added) - Cardinality({})
      BY <2>1, <3>2, <3>3, FS_Union
    <3>5. activeUnion'[a] = activeUnion[a] + (ev.stop - ev.start)
      BY <1>2, <2>3 DEF Engage
    <3> QED BY <1>2, <2>1, <3>1, <3>3, <3>4, <3>5, FS_EmptySet
  <2> QED BY <2>2, <2>3
<1> QED BY <1>5 DEF MeasureInv

LEMMA NextMeasures ==
  ASSUME IInv, ClockInv, MeasureInv, [Next]_ledgerVars
  PROVE  MeasureInv'
<1>1. CASE RecordEvent
  BY <1>1, RecordMeasures
<1>2. CASE RaiseOverlap
  BY <1>2 DEF RaiseOverlap, MeasureInv
<1>3. CASE Commit
  <2>1. call \in Call /\ call # Raised
    BY <1>3, CallStates DEF IInv, Commit
  <2>2. /\ traceEnd' = Later(traceEnd, call.timing.end) /\ traceEnd \in Nat
        /\ call.timing.end \in Nat /\ UNCHANGED <<activeUnion, events>>
    BY <1>3, <2>1 DEF Commit, IInv, TypeOK, Call, Timing
  <2>3. traceEnd' \in Nat /\ traceEnd <= traceEnd'
    BY <2>2 DEF Later
  <2> QED BY <2>1, <2>2, <2>3, MeasureKept
<1>4. CASE ~(RecordEvent \/ RaiseOverlap \/ Commit)
  <2>1. UNCHANGED <<traceEnd, activeUnion, events>> /\ (call = Raised => call' = Raised)
    <3>1. CASE UNCHANGED ledgerVars
      BY <3>1 DEF ledgerVars
    <3>2. CASE BeginInit
      BY <3>2 DEF BeginInit, OpenCall, Idle, Raised
    <3>3. ASSUME NEW deps, NEW block, BeginOneQubit(block, deps)
          PROVE  UNCHANGED <<traceEnd, activeUnion, events>> /\ call = Idle
      BY <3>3 DEF BeginOneQubit, OpenCall
    <3>4. ASSUME NEW deps, NEW pulse, NEW zone, BeginCz(pulse, zone, deps)
          PROVE  UNCHANGED <<traceEnd, activeUnion, events>> /\ call = Idle
      BY <3>4 DEF BeginCz, OpenCall
    <3>5. ASSUME NEW deps, NEW job, NEW sites, BeginAod(job, deps, sites)
          PROVE  UNCHANGED <<traceEnd, activeUnion, events>> /\ call = Idle
      BY <3>5 DEF BeginAod, OpenCall
    <3>6. ASSUME NEW keep, Prune(keep)
          PROVE  UNCHANGED <<traceEnd, activeUnion, events>> /\ call = Idle
      BY <3>6 DEF Prune
    <3>7. Idle # Raised
      BY DEF Idle, Raised
    <3> QED BY <1>4, <3>1, <3>2, <3>3, <3>4, <3>5, <3>6, <3>7 DEF Next
  <2>2. traceEnd \in Nat
    BY DEF IInv, TypeOK
  <2>3. CASE call # Raised
    BY <2>1, <2>2, <2>3, MeasureKept
  <2>4. CASE call = Raised
    BY <2>1, <2>4 DEF MeasureInv
  <2> QED BY <2>3, <2>4
<1> QED BY <1>1, <1>2, <1>3, <1>4

(* active_union_us, accumulated by additions and never looked at again, is *)
(* the length of the union of the atom's active intervals, for any         *)
(* instructions and durations.                                             *)
THEOREM ActiveUnionIsExact == Spec => []ActiveUnionIsMeasure
<1>1. Init => MeasureInv
  <2> SUFFICES ASSUME Init, NEW a \in Atoms PROVE activeUnion[a] = Cardinality(ActiveTimes(a))
    BY DEF MeasureInv
  <2>1. ActiveTimes(a) = {} /\ activeUnion[a] = 0
    BY DEF Init, ActiveTimes
  <2> QED BY <2>1, FS_EmptySet
<1>2. IInv /\ ClockInv /\ MeasureInv /\ [Next]_ledgerVars => MeasureInv'
  BY NextMeasures
<1>3. MeasureInv => ActiveUnionIsMeasure
  BY DEF MeasureInv, ActiveUnionIsMeasure, ActiveTimes
<1> QED BY <1>1, <1>2, <1>3, ClockInvariance, PTL DEF Spec
================================================================================
