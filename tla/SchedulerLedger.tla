---------------------------- MODULE SchedulerLedger ----------------------------
(***************************************************************************)
(* PureSchedulerLedger (zzx/scheduler_ledger.py): the ASAP scheduler that  *)
(* replays every instruction of the compiler independently of the router   *)
(* that wrote it.                                                          *)
(*                                                                         *)
(* A public schedule call computes a begin time from the clock of its     *)
(* resource and the recorded ends of its dependencies (a Begin action),    *)
(* books one physical event after the other (RecordEvent) and finally      *)
(* stores the instruction's timing and advances the clock (Commit).  The   *)
(* calls run on one thread; the steps are told apart because an event can  *)
(* be refused half way (RaiseOverlap), and what was booked before it then  *)
(* stays booked.                                                           *)
(*                                                                         *)
(* Times are natural numbers.  The rolling timing hash, the JSON form of   *)
(* snapshots and the float tolerance are not modelled; events is the       *)
(* history kept under keep_events=True.                                    *)
(***************************************************************************)
EXTENDS Integers, FiniteSets, Sequences

CONSTANTS
  Atoms,        \* the atoms of the ledger
  Aods,         \* AOD indices
  Zones,        \* Rydberg zone indices
  OneQTime,     \* one_qubit_duration_us
  RydTime,      \* rydberg_duration_us
  OneQCommon,   \* one_qubit_common_us, the tail of every one-qubit block
  GateBlocks,   \* the one-qubit blocks offered: sequences of atoms
  Pulses,       \* the Rydberg participants offered: sequences of atoms
  Jobs,         \* the expanded AOD jobs offered: sequences of phases
  MaxInstr,     \* bound on the number of instructions
  MaxDeps       \* bound on the dependencies named by one instruction

Beam == 0       \* resource id of the single global one-qubit beam

ActiveTypes == {"one_qubit_gate", "two_qubit_gate", "load", "store"}
EventTypes  == ActiveTypes \cup {"move"}
Kinds       == {"init", "one_qubit", "cz", "aod"}

Distinct(s) == \A i, j \in DOMAIN s : s[i] = s[j] => i = j

(* A phase of an expanded job, at its offsets from the start of the job.   *)
Phase == [kind : {"load", "move", "store"}, start : Nat, stop : Nat,
          atoms : Seq(Atoms)]

(* Phases follow one another: the offsets are running sums of durations.   *)
InOrder(s) ==
  /\ \A i \in DOMAIN s : s[i].start <= s[i].stop
  /\ \A i, j \in DOMAIN s : i < j => s[i].stop <= s[j].start

ASSUME LedgerAssumption ==
  /\ Aods \subseteq Nat /\ Zones \subseteq Nat
  /\ OneQTime \in Nat /\ RydTime \in Nat /\ OneQCommon \in Nat
  /\ GateBlocks \subseteq Seq(Atoms) \ {<<>>}
  /\ Pulses \subseteq Seq(Atoms) \ {<<>>}
  /\ \A p \in Pulses : Distinct(p)
  /\ Jobs \subseteq Seq(Phase)
  /\ \A job \in Jobs : InOrder(job) /\ \A i \in DOMAIN job : Distinct(job[i].atoms)
  /\ MaxInstr \in Nat /\ MaxDeps \in Nat

VARIABLES
  instructions,   \* id -> timing, of the instructions not pruned
  nextId,         \* next_instruction_id, and timing_count
  traceEnd,       \* trace_end_us
  activeUnion,    \* active_union_us, per atom
  atomEnd,        \* atom_active_end_us, per atom
  aodEnd,         \* aod_end_us, per AOD
  oneQEnd,        \* one_qubit_end_us
  rydEnd,         \* rydberg_end_us, per zone
  events,         \* every event ever recorded
  call            \* the schedule call under way, or a reason there is none

ledgerVars == <<instructions, nextId, traceEnd, activeUnion, atomEnd,
                aodEnd, oneQEnd, rydEnd, events, call>>

clocks == <<aodEnd, oneQEnd, rydEnd>>

(* No call is under way: none was made, or one raised, which every caller  *)
(* treats as fatal.                                                        *)
Idle   == [state |-> "idle"]
Raised == [state |-> "raised"]

Event == [type : EventTypes, start : Nat, stop : Nat, atoms : Seq(Atoms),
          id : Nat, phase : Nat, resource : Nat]

(* pickup is activation_finish_us and drop is deactivation_offset_us; both *)
(* are 0 where the code has None.                                          *)
Timing == [kind : Kinds, begin : Nat, end : Nat, resource : Nat,
           pickup : Nat, drop : Nat]

Call == [state : {"booking"}, timing : Timing, booking : Seq(Event), done : Nat]

AtomsOf(e) == {e.atoms[i] : i \in DOMAIN e.atoms}

Later(s, t) == IF s >= t THEN s ELSE t

IsLatest(t, times) == t \in times /\ \A s \in times : s <= t

TypeOK ==
  /\ nextId \in Nat
  /\ DOMAIN instructions \subseteq 0 .. nextId - 1
  /\ \A id \in DOMAIN instructions : instructions[id] \in Timing
  /\ traceEnd \in Nat
  /\ activeUnion \in [Atoms -> Nat]
  /\ atomEnd \in [Atoms -> Nat]
  /\ aodEnd \in [Aods -> Nat]
  /\ oneQEnd \in Nat
  /\ rydEnd \in [Zones -> Nat]
  /\ events \subseteq Event
  /\ call \in {Idle, Raised} \cup Call

Init ==
  /\ instructions = [id \in {} |-> {}]
  /\ nextId = 0
  /\ traceEnd = 0
  /\ activeUnion = [a \in Atoms |-> 0]
  /\ atomEnd = [a \in Atoms |-> 0]
  /\ aodEnd = [r \in Aods |-> 0]
  /\ oneQEnd = 0
  /\ rydEnd = [z \in Zones |-> 0]
  /\ events = {}
  /\ call = Idle

--------------------------------------------------------------------------------
(* The public schedule calls up to their first booking.                    *)

(* _dependency_end: an unknown dependency is refused before any change.    *)
DependencyEnds(deps) == {instructions[d].end : d \in deps}

(* _site_dependency_begin: the job may hover over a site and drop into it  *)
(* once the earlier job has lifted the atom that sat there.                *)
SiteBegins(deps, drop) ==
  {IF instructions[d].kind = "aod" THEN instructions[d].pickup - drop
                                   ELSE instructions[d].end : d \in deps}

Enter(timing, booking) ==
  call' = [state |-> "booking", timing |-> timing, booking |-> booking,
           done |-> 0]

OpenCall == call = Idle /\ nextId < MaxInstr

(* schedule_init: no event, no clock, an instruction that ends at 0.       *)
BeginInit ==
  /\ OpenCall /\ nextId = 0
  /\ Enter([kind |-> "init", begin |-> 0, end |-> 0, resource |-> 0,
            pickup |-> 0, drop |-> 0], <<>>)
  /\ UNCHANGED <<instructions, nextId, traceEnd, activeUnion, atomEnd, clocks,
                 events>>

(* schedule_one_qubit: the gates of a block follow one another on the      *)
(* beam, and the block may name an atom more than once.                    *)
BeginOneQubit(block, deps) ==
  /\ OpenCall
  /\ deps \subseteq DOMAIN instructions
  /\ \E begin \in {oneQEnd} \cup DependencyEnds(deps) :
       /\ IsLatest(begin, {oneQEnd} \cup DependencyEnds(deps))
       /\ Enter([kind |-> "one_qubit", begin |-> begin,
                 end |-> begin + Len(block) * OneQTime + OneQCommon,
                 resource |-> Beam, pickup |-> 0, drop |-> 0],
                [k \in 1 .. Len(block) |->
                   [type |-> "one_qubit_gate",
                    start |-> begin + (k - 1) * OneQTime,
                    stop |-> begin + k * OneQTime,
                    atoms |-> <<block[k]>>, id |-> nextId, phase |-> k,
                    resource |-> Beam]])
  /\ UNCHANGED <<instructions, nextId, traceEnd, activeUnion, atomEnd, clocks,
                 events>>

(* schedule_cz: one event for all the participants of a zone's pulse.      *)
BeginCz(pulse, zone, deps) ==
  /\ OpenCall
  /\ deps \subseteq DOMAIN instructions
  /\ \E begin \in {rydEnd[zone]} \cup DependencyEnds(deps) :
       /\ IsLatest(begin, {rydEnd[zone]} \cup DependencyEnds(deps))
       /\ Enter([kind |-> "cz", begin |-> begin, end |-> begin + RydTime,
                 resource |-> zone, pickup |-> 0, drop |-> 0],
                <<[type |-> "two_qubit_gate", start |-> begin,
                   stop |-> begin + RydTime, atoms |-> pulse, id |-> nextId,
                   phase |-> 1, resource |-> zone]>>)
  /\ UNCHANGED <<instructions, nextId, traceEnd, activeUnion, atomEnd, clocks,
                 events>>

Offsets(job, kind, field) == {job[i][field] : i \in {j \in DOMAIN job : job[j].kind = kind}}

(* The router's ASAP choice: the AOD that is free first, then the lowest.  *)
IsAsapAod(r) ==
  \A s \in Aods : aodEnd[r] < aodEnd[s] \/ (aodEnd[r] = aodEnd[s] /\ r <= s)

(* schedule_aod: a site dependency on the job itself (an atom of the batch *)
(* moves into a site another atom of the batch leaves) is dropped, and is  *)
(* refused if the job stores before its last load.                         *)
BeginAod(job, deps, sites) ==
  /\ OpenCall
  /\ deps \subseteq DOMAIN instructions
  /\ sites \subseteq DOMAIN instructions \cup {nextId}
  /\ \E i \in DOMAIN job : job[i].kind = "move"
  /\ \E r \in Aods, pickup \in Offsets(job, "load", "stop"),
        drop \in Offsets(job, "store", "start"), length \in {job[Len(job)].stop} :
       LET earliest == {aodEnd[r]} \cup DependencyEnds(deps)
                         \cup SiteBegins(sites \ {nextId}, drop)
       IN /\ IsAsapAod(r)
          /\ IsLatest(pickup, Offsets(job, "load", "stop"))
          /\ \A t \in Offsets(job, "store", "start") : drop <= t
          /\ nextId \in sites => pickup <= drop
          /\ \E begin \in earliest :
               /\ IsLatest(begin, earliest)
               /\ Enter([kind |-> "aod", begin |-> begin, end |-> begin + length,
                         resource |-> r, pickup |-> begin + pickup, drop |-> drop],
                        [k \in 1 .. Len(job) |->
                           [type |-> job[k].kind, start |-> begin + job[k].start,
                            stop |-> begin + job[k].stop, atoms |-> job[k].atoms,
                            id |-> nextId, phase |-> k, resource |-> r]])
  /\ UNCHANGED <<instructions, nextId, traceEnd, activeUnion, atomEnd, clocks,
                 events>>

--------------------------------------------------------------------------------
(* The rest of a call: its bookings one by one, then the commit.           *)

Booking == call.state = "booking"
Pending == Booking /\ call.done < Len(call.booking)
NextEvent == call.booking[call.done + 1]

(* is_atom_active: a MOVE holds its atoms without making them active.      *)
ActiveAtoms(e) == IF e.type \in ActiveTypes THEN AtomsOf(e) ELSE {}

(* Mutant: the atom is charged from the begin of the instruction.          *)
EngageFromBegin(e, atoms) ==
  /\ activeUnion' = [a \in Atoms |-> IF a \in atoms
                                     THEN activeUnion[a] + (e.stop - call.timing.begin)
                                     ELSE activeUnion[a]]
  /\ atomEnd' = [a \in Atoms |-> IF a \in atoms THEN Later(atomEnd[a], e.stop)
                                                ELSE atomEnd[a]]

(* Mutant: the operands of the duration are swapped.                       *)
EngageSwapped(e, atoms) ==
  /\ activeUnion' = [a \in Atoms |-> IF a \in atoms
                                     THEN activeUnion[a] + (e.start - e.stop)
                                     ELSE activeUnion[a]]
  /\ atomEnd' = [a \in Atoms |-> IF a \in atoms THEN Later(atomEnd[a], e.stop)
                                                ELSE atomEnd[a]]

(* The per-atom part of _record_event, for the atoms it reaches.           *)
Engage(e, atoms) ==
  /\ activeUnion' = [a \in Atoms |-> IF a \in atoms
                                     THEN activeUnion[a] + (e.stop - e.start)
                                     ELSE activeUnion[a]]
  /\ atomEnd' = [a \in Atoms |-> IF a \in atoms THEN Later(atomEnd[a], e.stop)
                                                ELSE atomEnd[a]]

RecordEvent ==
  /\ Pending
  /\ \A a \in ActiveAtoms(NextEvent) : atomEnd[a] <= NextEvent.start
  /\ Engage(NextEvent, ActiveAtoms(NextEvent))
  /\ traceEnd' = Later(traceEnd, NextEvent.stop)
  /\ events' = events \cup {NextEvent}
  /\ call' = [call EXCEPT !.done = @ + 1]
  /\ UNCHANGED <<instructions, nextId, clocks>>

(* The first busy atom f raises; the atoms before it are already engaged.  *)
RaiseOverlap ==
  /\ Pending
  /\ NextEvent.type \in ActiveTypes
  /\ \E f \in DOMAIN NextEvent.atoms :
       /\ NextEvent.start < atomEnd[NextEvent.atoms[f]]
       /\ \A g \in 1 .. f - 1 : atomEnd[NextEvent.atoms[g]] <= NextEvent.start
       /\ Engage(NextEvent, {NextEvent.atoms[g] : g \in 1 .. f - 1})
  /\ call' = Raised
  /\ UNCHANGED <<instructions, nextId, traceEnd, clocks, events>>

(* Mutant: the AOD is released once its atoms are lifted.                  *)
AdvanceClockEarly(t) ==
  /\ aodEnd'  = [r \in Aods |-> IF t.kind = "aod" /\ r = t.resource THEN t.pickup ELSE aodEnd[r]]
  /\ oneQEnd' = IF t.kind = "one_qubit" THEN t.end ELSE oneQEnd
  /\ rydEnd'  = [z \in Zones |-> IF t.kind = "cz" /\ z = t.resource THEN t.end ELSE rydEnd[z]]

(* Mutant: the one-qubit beam keeps its old clock.                         *)
AdvanceClockNoBeam(t) ==
  /\ aodEnd'  = [r \in Aods |-> IF t.kind = "aod" /\ r = t.resource THEN t.end ELSE aodEnd[r]]
  /\ oneQEnd' = oneQEnd
  /\ rydEnd'  = [z \in Zones |-> IF t.kind = "cz" /\ z = t.resource THEN t.end ELSE rydEnd[z]]

(* The clock of the resource moves to the end of the instruction.          *)
AdvanceClock(t) ==
  /\ aodEnd'  = [r \in Aods |-> IF t.kind = "aod" /\ r = t.resource THEN t.end ELSE aodEnd[r]]
  /\ oneQEnd' = IF t.kind = "one_qubit" THEN t.end ELSE oneQEnd
  /\ rydEnd'  = [z \in Zones |-> IF t.kind = "cz" /\ z = t.resource THEN t.end ELSE rydEnd[z]]

(* _commit_timing, with the clock update that precedes it.                 *)
Commit ==
  /\ Booking /\ call.done = Len(call.booking)
  /\ AdvanceClock(call.timing)
  /\ instructions' = [id \in DOMAIN instructions \cup {nextId} |->
                        IF id = nextId THEN call.timing ELSE instructions[id]]
  /\ nextId' = nextId + 1
  /\ traceEnd' = Later(traceEnd, call.timing.end)
  /\ call' = Idle
  /\ UNCHANGED <<activeUnion, atomEnd, events>>

(* prune_instructions: the caller names what a later instruction may still *)
(* depend on, an unknown id is refused.                                    *)
Prune(keep) ==
  /\ call = Idle
  /\ keep \subseteq DOMAIN instructions
  /\ instructions' = [id \in keep |-> instructions[id]]
  /\ UNCHANGED <<nextId, traceEnd, activeUnion, atomEnd, clocks, events, call>>

Next ==
  \/ BeginInit
  \/ \E deps \in SUBSET DOMAIN instructions :
       /\ Cardinality(deps) <= MaxDeps
       /\ \/ \E block \in GateBlocks : BeginOneQubit(block, deps)
          \/ \E pulse \in Pulses, zone \in Zones : BeginCz(pulse, zone, deps)
          \/ \E job \in Jobs, sites \in SUBSET (DOMAIN instructions \cup {nextId}) :
               /\ Cardinality(sites) <= MaxDeps
               /\ BeginAod(job, deps, sites)
  \/ RecordEvent
  \/ RaiseOverlap
  \/ Commit
  \/ \E keep \in SUBSET DOMAIN instructions : Prune(keep)

Spec == Init /\ [][Next]_ledgerVars

--------------------------------------------------------------------------------
(* What the ledger promises.                                               *)

(* idle_time_us clamps at zero.  The clamp never hides anything: while the *)
(* ledger has not raised, the active time of an atom fits before its last  *)
(* active end, and that end before the end of the trace.                   *)
IdleWithinTrace ==
  call # Raised => \A a \in Atoms : /\ activeUnion[a] <= atomEnd[a]
                                    /\ atomEnd[a] <= traceEnd

(* active_union_us is accumulated by additions.  It is the length of the   *)
(* union of the atom's active intervals, which is what the coherence model *)
(* charges for (evaluation/scorer.py _union_duration).                     *)
ActiveUnionIsMeasure ==
  call # Raised =>
    \A a \in Atoms :
      activeUnion[a] = Cardinality({t \in 0 .. traceEnd :
                          \E e \in events : /\ a \in ActiveAtoms(e)
                                            /\ e.start <= t /\ t < e.stop})

(* The bookings of the abstract timeline: an active event books its atoms, *)
(* and every event the device that performs it.                            *)
Device(e) == IF e.type = "one_qubit_gate" THEN <<"beam", e.resource>>
             ELSE IF e.type = "two_qubit_gate" THEN <<"zone", e.resource>>
             ELSE <<"aod", e.resource>>

Slot(e, res) == [res |-> res, by |-> <<e.id, e.phase>>, from |-> e.start, to |-> e.stop]

Bookings ==
  UNION {{Slot(e, <<"atom", a>>) : a \in ActiveAtoms(e)} \cup {Slot(e, Device(e))}
           : e \in events}

Timeline == INSTANCE ExclusiveTimeline WITH booked <- Bookings

(* The ledger implements the exclusive timeline: no atom is active in two  *)
(* events at once, no AOD, zone or beam performs two at once, and an event *)
(* once recorded is never moved, pruning or not.                           *)
TimelineSpec == Timeline!Spec

(* "Resource clocks, active union, the absolute trace tail [...] are prefix *)
(* summaries and therefore remain exact after this bounded-memory pruning" *)
(* (prune_instructions): between calls they say of the whole recorded      *)
(* history when each device was last used and when everything has ended.   *)
StopsOn(device) == {e.stop : e \in {f \in events : Device(f) = device}}

ClocksSummariseEvents ==
  call = Idle =>
    /\ \A r \in Aods : IsLatest(aodEnd[r], {0} \cup StopsOn(<<"aod", r>>))
    /\ \A z \in Zones : IsLatest(rydEnd[z], {0} \cup StopsOn(<<"zone", z>>))
    /\ \A e \in events : Device(e) = <<"beam", Beam>> => e.stop + OneQCommon <= oneQEnd
    /\ IsLatest(traceEnd, {0, oneQEnd} \cup {e.stop : e \in events})
================================================================================
