---------------------------- MODULE RouteTransition ----------------------------
(***************************************************************************)
(* ZACRouteTransitionDriver (streaming/zac_route_transition.py) with the   *)
(* router it drives (zzx/zac_zzx.py _route_resident over                   *)
(* zac/router/router.py) and the ledger that replays what it wrote.        *)
(*                                                                         *)
(* A physical layer goes through the stages of the code:                   *)
(*   boundary   waiting for route_layer                                    *)
(*   out        movement jobs that bring the gate atoms to their seats     *)
(*   back       movement jobs that return atoms, then aod_assignment       *)
(*   replay     the ledger consumes the chunk, then publish and prune      *)
(*   failed     an exception left the driver unusable                      *)
(*                                                                         *)
(* Geometry is external to the model: any grouping of the pending moves    *)
(* into jobs is allowed as long as no atom is set down on another one,     *)
(* which the ghost replay of _coloring_batches guarantees.  One Rydberg    *)
(* zone, as in every architecture shipped with the program.                *)
(***************************************************************************)
EXTENDS Arrangement, FiniteSets

CONSTANTS
  Atoms,            \* atom numbers
  Aods,             \* AOD indices
  Storage,          \* storage sites
  Seats,            \* sites of the entanglement zone
  SitePairs,        \* the pairs of seats whose atoms a pulse entangles
  Homes,            \* for each atom, the sites a back phase may send it to
  RowOf, ColOf,     \* the row and column of each site
  OneQTime, RydTime, OneQCommon,
  InitialMapping,   \* the sites of the atoms before the first layer
  InitialBlocks,    \* the leading one-qubit blocks, possibly <<>>
  Program,          \* for each layer, the physical stages offered: [gates, block]
  MaxCrashes        \* bound on the number of crashes

Sites == Storage \cup Seats
Zone  == 0
None  == -1
NoCheckpoint == [layer |-> None]

Participants(gs) == UNION {{gs[i][1], gs[i][2]} : i \in DOMAIN gs}

(* A one-qubit gate belongs to the stage of the last two-qubit gate on its *)
(* atom (dict_g_1q_parent, iter_zac_one_qubit_for_stage), so the block of  *)
(* a stage names only its participants.                                    *)
ASSUME RouteAssumption ==
  /\ Atoms \subseteq Nat /\ IsFiniteSet(Atoms)
  /\ Aods \subseteq Nat /\ Aods # {}
  /\ {OneQTime, RydTime, OneQCommon} \subseteq Nat
  /\ \A s \in Sites : RowOf[s] \in Int
  /\ \A p \in SitePairs : p \in Seats \X Seats
  /\ \A q \in Atoms : Homes[q] \subseteq Sites
  /\ InitialMapping \in [Atoms -> Sites]
  /\ \A p, q \in Atoms : InitialMapping[p] = InitialMapping[q] => p = q
  /\ InitialBlocks \subseteq Seq(Atoms)
  /\ Program \in Seq(SUBSET [gates : Seq(Atoms \X Atoms), block : Seq(Atoms)])
  /\ \A l \in DOMAIN Program : \A s \in Program[l] :
       ToSet(s.block) \subseteq Participants(s.gates)
  /\ MaxCrashes \in Nat

VARIABLES
  stage,            \* see above
  layer,            \* next_layer
  boundary,         \* current_boundary, B_L
  gateMap,          \* G_L
  finalMap,         \* B_(L+1)
  gates, block,     \* the CZ gates and the one-qubit block of the layer
  pending,          \* the atoms the phase has still to move
  base,             \* id of the first instruction of the chunk
  chunk,            \* the instructions written and not yet published
  timed,            \* how many of them have times
  replayed,         \* how many of them the ledger has consumed
  window,           \* InstructionWindow: the timed summaries by id
  qubitDep, siteDep, aodDep, rydDep, lastOneQ,   \* the dependency ledgers
  aodFree,          \* aod_end_time
  saved,            \* the last state_dict written, or NoCheckpoint
  crashes,
  journal,          \* history: every leg of every job
  exposures,        \* history: the atoms in the zone at each pulse
  \* the PureSchedulerLedger of the driver
  instructions, nextId, traceEnd, activeUnion, atomEnd, aodEnd, oneQEnd, rydEnd,
  events, call

Ledger == INSTANCE SchedulerLedger WITH
  Zones <- {Zone}, GateBlocks <- {}, Pulses <- {}, Jobs <- {},
  MaxInstr <- (Len(Program) + 1) * (2 + 2 * Cardinality(Atoms)), MaxDeps <- 0

layerVars == <<boundary, gateMap, finalMap, gates, block>>
depVars   == <<qubitDep, siteDep, aodDep, rydDep, lastOneQ, aodFree>>
history   == <<journal, exposures>>
ledgerVars == <<instructions, nextId, traceEnd, activeUnion, atomEnd, aodEnd, oneQEnd,
                rydEnd, events, call>>
crashVars == <<saved, crashes>>

vars == <<stage, layer, layerVars, pending, base, chunk, timed, replayed, window,
          depVars, crashVars, history, ledgerVars>>

(* An instruction as the router writes it: the qubit, aod and rydberg      *)
(* dependencies in deps, the site dependencies apart.                      *)
Instruction(kind, atoms, job, deps, sites) ==
  [kind |-> kind, atoms |-> atoms, job |-> job, deps |-> deps, sites |-> sites,
   aod |-> None]

NextInst == base + Len(chunk)

(* _instruction_summary: what get_begin_time may read later.               *)
Summary(kind, begin, end, pickup) ==
  [kind |-> kind, begin |-> begin, end |-> end, pickup |-> pickup]

(* The id keys of the router's dependency ledgers that a later layer reads.*)
ActiveIds ==
  {qubitDep[q] : q \in Atoms} \cup {siteDep[s] : s \in DOMAIN siteDep}
    \cup {aodDep[r] : r \in Aods} \cup {rydDep}
    \cup (IF lastOneQ = None THEN {} ELSE {lastOneQ})

(* __init__ with write_initial_instruction: the init instruction and, when *)
(* the program has leading one-qubit gates, one block timed from zero.     *)
Init ==
  /\ stage = "replay" /\ layer = 0
  /\ boundary = InitialMapping /\ gateMap = InitialMapping /\ finalMap = InitialMapping
  /\ gates = <<>> /\ block \in InitialBlocks /\ pending = {}
  /\ base = 0
  /\ chunk = <<Instruction("init", <<>>, <<>>, {}, {})>>
             \o (IF block = <<>> THEN <<>>
                 ELSE <<Instruction("one_qubit", block, <<>>, {0}, {})>>)
  /\ timed = Len(chunk) /\ replayed = 0
  /\ window = [id \in 0 .. Len(chunk) - 1 |->
                 IF id = 0 THEN Summary("init", 0, 0, 0)
                 ELSE Summary("one_qubit", 0, Len(block) * OneQTime, 0)]
  /\ qubitDep = [q \in Atoms |-> IF q \in ToSet(block) THEN 1 ELSE 0]
  /\ lastOneQ = (IF block = <<>> THEN None ELSE 1)
  /\ siteDep = [s \in {} |-> 0]
  /\ aodDep = [r \in Aods |-> 0] /\ rydDep = 0
  /\ aodFree = [r \in Aods |-> 0]
  /\ saved = NoCheckpoint /\ crashes = 0
  /\ journal = {} /\ exposures = [id \in {} |-> {}]
  /\ Ledger!Init

--------------------------------------------------------------------------------
(* route_layer: the checks on its arguments, then out, gates and back.     *)

(* The placements of a stage: each gate on a pair of seats, idle atoms     *)
(* where they were, no two atoms on one site and no idle atom beside       *)
(* another atom.                                                           *)
Placement(gs, pairOf) ==
  [q \in Atoms |-> IF q \notin Participants(gs) THEN boundary[q]
                   ELSE LET i == CHOOSE i \in DOMAIN gs : q \in {gs[i][1], gs[i][2]}
                        IN IF q = gs[i][1] THEN pairOf[i][1] ELSE pairOf[i][2]]

Seated(gs, g) ==
  /\ \A p, q \in Atoms : g[p] = g[q] => p = q
  /\ \A pair \in SitePairs, p, q \in Atoms :
       g[p] = pair[1] /\ g[q] = pair[2] => \E i \in DOMAIN gs : {p, q} = {gs[i][1], gs[i][2]}

(* Straight legs only: in a cycle of exchanged seats no atom can go first,  *)
(* and _strict_endpoint_precedence_batches raises before a layer of it is  *)
(* accepted.                                                               *)
Routable(before, after) ==
  \A cycle \in SUBSET {q \in Atoms : before[q] # after[q]} \ {{}} :
    \E q \in cycle : \A p \in cycle : before[p] # after[q]

(* The boundaries after it: any atoms of the zone are returned to storage, *)
(* parked or reseated, no two on one site.                                 *)
Returns(g) ==
  LET mayMove   == {q \in Atoms : g[q] \in Seats /\ Homes[q] # {}}
      to(back)  == {sites \in [back -> Sites] : \A q \in back : sites[q] \in Homes[q]}
      moved(sites) == [q \in Atoms |-> IF q \in DOMAIN sites THEN sites[q] ELSE g[q]]
  IN {f \in UNION {{moved(sites) : sites \in to(back)} : back \in SUBSET mayMove} :
        /\ \A p, q \in Atoms : f[p] = f[q] => p = q
        /\ Routable(g, f)}

(* _freeze_mapping, _two_qubit_stage and the checks of route_layer.        *)
AcceptLayer(s, g, f) ==
  /\ stage = "boundary"
  /\ Seated(s.gates, g) /\ Routable(boundary, g)
  /\ gateMap' = g /\ finalMap' = f
  /\ gates' = s.gates /\ block' = s.block
  /\ stage' = "out"
  /\ pending' = {q \in Participants(s.gates) : boundary[q] # g[q]}
  /\ UNCHANGED <<layer, boundary, base, chunk, timed, replayed, window, depVars,
                 crashVars, history, ledgerVars>>

(* The stages come in the order of the program; where the atoms are put is *)
(* the placer's choice.                                                    *)
RouteLayer ==
  /\ layer < Len(Program)
  /\ \E s \in Program[layer + 1] :
       \E pairOf \in [DOMAIN s.gates -> SitePairs] :
         \E f \in Returns(Placement(s.gates, pairOf)) :
           AcceptLayer(s, Placement(s.gates, pairOf), f)

From == IF stage = "out" THEN boundary ELSE gateMap
To   == IF stage = "out" THEN gateMap ELSE finalMap

(* Where the atoms are when the next job starts.                           *)
Now(q) == IF q \in pending THEN From[q] ELSE To[q]

(* The atoms of a job in the order process_movement_layer visits them.     *)
VisitOrder(atoms) == FlattenSeq(RowSeq(atoms, [q \in atoms |-> RowOf[From[q]]]))

(* Mutant: only the jobs of this layer are looked up.                      *)
SiteDepsOfLayer(order, id) ==
  {siteDep[To[order[k]]] : k \in {j \in DOMAIN order : /\ To[order[j]] \in DOMAIN siteDep
                                                       /\ siteDep[To[order[j]]] >= base}}

(* The job that last lifted an atom from the target of the k-th atom: the  *)
(* job itself when an atom visited earlier leaves that site.               *)
SiteDepsOf(order, id) ==
  {IF \E i \in 1 .. k - 1 : From[order[i]] = To[order[k]] THEN id
   ELSE siteDep[To[order[k]]]
     : k \in {j \in DOMAIN order : To[order[j]] \in DOMAIN siteDep
                                   \/ \E i \in 1 .. j - 1 : From[order[i]] = To[order[j]]}}

(* Mutant: atoms that have left still block the sites they came from.      *)
EmitJobFrozen(atoms) ==
  LET order == VisitOrder(atoms)
      rows  == RowSeq(atoms, [q \in atoms |-> RowOf[From[q]]])
      job   == ExpandedJob(rows, [q \in atoms |-> ColOf[From[q]]])
      left  == {From[q] : q \in atoms}
  IN
  /\ stage \in {"out", "back"} /\ timed = 0
  /\ atoms # {}
  /\ \A q \in atoms, p \in Atoms \ atoms : From[p] # To[q]
  /\ chunk' = Append(chunk, Instruction("aod", order, job, {qubitDep[q] : q \in atoms},
                                        SiteDepsOf(order, NextInst)))
  /\ qubitDep' = [q \in Atoms |-> IF q \in atoms THEN NextInst ELSE qubitDep[q]]
  /\ siteDep' = [s \in DOMAIN siteDep \cup left |->
                   IF s \in left THEN NextInst ELSE siteDep[s]]
  /\ pending' = pending \ atoms
  /\ journal' = journal \cup {[id |-> NextInst, atom |-> q, from |-> From[q], to |-> To[q],
                               layer |-> layer, phase |-> stage] : q \in atoms}
  /\ UNCHANGED <<stage, layer, layerVars, base, timed, replayed, window, aodDep, rydDep,
                 lastOneQ, aodFree, crashVars, exposures, ledgerVars>>

(* process_movement_layer and write_rearrangement_instruction.             *)
EmitJob(atoms) ==
  LET order == VisitOrder(atoms)
      rows  == RowSeq(atoms, [q \in atoms |-> RowOf[From[q]]])
      job   == ExpandedJob(rows, [q \in atoms |-> ColOf[From[q]]])
      left  == {From[q] : q \in atoms}
  IN
  /\ stage \in {"out", "back"} /\ timed = 0
  /\ atoms # {}
  /\ \A q \in atoms, p \in Atoms \ atoms : Now(p) # To[q]
  /\ chunk' = Append(chunk, Instruction("aod", order, job, {qubitDep[q] : q \in atoms},
                                        SiteDepsOf(order, NextInst)))
  /\ qubitDep' = [q \in Atoms |-> IF q \in atoms THEN NextInst ELSE qubitDep[q]]
  /\ siteDep' = [s \in DOMAIN siteDep \cup left |->
                   IF s \in left THEN NextInst ELSE siteDep[s]]
  /\ pending' = pending \ atoms
  /\ journal' = journal \cup {[id |-> NextInst, atom |-> q, from |-> From[q], to |-> To[q],
                               layer |-> layer, phase |-> stage] : q \in atoms}
  /\ UNCHANGED <<stage, layer, layerVars, base, timed, replayed, window, aodDep, rydDep,
                 lastOneQ, aodFree, crashVars, exposures, ledgerVars>>

(* _bind_resident_rydberg_dependencies: every atom in the zone at the      *)
(* pulse depends on it, and the pulse on what that atom did before.        *)
InZone == {q \in Atoms : gateMap[q] \in Seats}

BoundDeps(dep, cz) == {dep[q] : q \in {p \in InZone : dep[p] < cz}}

(* Mutant: only the participants of the pulse wait for it.                 *)
BindParticipants(dep, cz) == dep

BindExposed(dep, cz) ==
  [q \in Atoms |-> IF q \in InZone /\ dep[q] < cz THEN cz ELSE dep[q]]

(* Mutant: the id of the next instruction instead of the last.             *)
HoldReturningNext(dep, lastGate) ==
  [q \in Atoms |-> IF gateMap[q] # finalMap[q] /\ q \notin Participants(gates)
                   THEN lastGate + 1 ELSE dep[q]]

(* The ledger patch of the back phase: an idle atom that returns waits for *)
(* the last gate instruction.                                              *)
HoldReturning(dep, lastGate) ==
  [q \in Atoms |-> IF gateMap[q] # finalMap[q] /\ q \notin Participants(gates)
                   THEN lastGate ELSE dep[q]]

(* process_gate_layer, then the binding and the patch of _route_resident.  *)
EmitGates ==
  LET cz    == NextInst
      oneQ  == NextInst + 1
      pairs == FlattenSeq(gates)
      dep1  == [q \in Atoms |-> IF q \in Participants(gates) THEN cz ELSE qubitDep[q]]
      dep2  == [q \in Atoms |-> IF q \in ToSet(block) THEN oneQ ELSE dep1[q]]
      czDeps  == {qubitDep[q] : q \in Participants(gates)} \cup {rydDep} \cup BoundDeps(dep2, cz)
      oneDeps == {dep1[q] : q \in ToSet(block)} \cup (IF lastOneQ = None THEN {} ELSE {lastOneQ})
      hasOneQ == block # <<>>
  IN
  /\ stage = "out" /\ pending = {}
  /\ chunk' = chunk \o <<Instruction("cz", pairs, <<>>, czDeps, {})>>
                    \o (IF hasOneQ THEN <<Instruction("one_qubit", block, <<>>, oneDeps, {})>>
                        ELSE <<>>)
  /\ qubitDep' = HoldReturning(BindExposed(dep2, cz), IF hasOneQ THEN oneQ ELSE cz)
  /\ rydDep' = cz
  /\ lastOneQ' = (IF hasOneQ THEN oneQ ELSE lastOneQ)
  /\ exposures' = [id \in DOMAIN exposures \cup {cz} |->
                     IF id = cz THEN [layer |-> layer, atoms |-> InZone] ELSE exposures[id]]
  /\ stage' = "back"
  /\ pending' = {q \in Atoms : gateMap[q] # finalMap[q]}
  /\ UNCHANGED <<layer, layerVars, base, timed, replayed, window, siteDep, aodDep, aodFree,
                 crashVars, journal, ledgerVars>>

--------------------------------------------------------------------------------
(* aod_assignment: the out jobs, the gates, then the back jobs, which with *)
(* strict_aod_route_order is the order of the ids.                         *)

Untimed == chunk[timed + 1]
UntimedId == base + timed

IsLatest(t, times) == t \in times /\ \A u \in times : u <= t

(* get_begin_time: ends of dependencies, and for a site the moment its     *)
(* last atom was lifted, less the time until this job sets its own down.   *)
DepEnds(i) == {0} \cup {window[d].end : d \in i.deps}

SiteTimes(i) ==
  {IF d = UntimedId THEN PickupOffset(i.job) - DropOffset(i.job)
   ELSE IF window[d].kind = "aod" THEN window[d].pickup - DropOffset(i.job)
   ELSE window[d].end : d \in i.sites}

(* heappop of aod_end_time: the AOD free first, then the lowest.           *)
FirstFree(r) ==
  \A u \in Aods : aodFree[r] < aodFree[u] \/ (aodFree[r] = aodFree[u] /\ r <= u)

SetTimes(summary) ==
  /\ window' = [id \in DOMAIN window \cup {UntimedId} |->
                  IF id = UntimedId THEN summary ELSE window[id]]
  /\ timed' = timed + 1
  /\ stage' = IF timed + 1 = Len(chunk) THEN "replay" ELSE stage

TimeJob(i) ==
  /\ i.kind = "aod"
  /\ \E r \in Aods, begin \in DepEnds(i) \cup SiteTimes(i) \cup {aodFree[u] : u \in Aods} :
       /\ FirstFree(r)
       /\ IsLatest(begin, DepEnds(i) \cup SiteTimes(i) \cup {aodFree[r]})
       /\ chunk' = [chunk EXCEPT ![timed + 1].deps = @ \cup {aodDep[r]},
                                 ![timed + 1].aod = r]
       /\ aodDep' = [aodDep EXCEPT ![r] = UntimedId]
       /\ aodFree' = [aodFree EXCEPT ![r] = begin + Duration(i.job)]
       /\ SetTimes(Summary("aod", begin, begin + Duration(i.job),
                           begin + PickupOffset(i.job)))

GateTime(i) == IF i.kind = "cz" THEN RydTime ELSE Len(i.atoms) * OneQTime + OneQCommon

TimeGate(i) ==
  /\ i.kind # "aod"
  /\ \E begin \in DepEnds(i) :
       /\ IsLatest(begin, DepEnds(i))
       /\ SetTimes(Summary(i.kind, begin, begin + GateTime(i), 0))
  /\ UNCHANGED <<chunk, aodDep, aodFree>>

Assigning == stage = "back" /\ pending = {}

(* An exception: the driver is not used again.                             *)
Fail ==
  /\ stage' = "failed"
  /\ UNCHANGED <<layer, layerVars, pending, base, chunk, timed, replayed, window, depVars,
                 crashVars, history>>

(* InstructionWindow.__getitem__ raises for a pruned instruction.          *)
Known(i) == i.deps \cup (i.sites \ {UntimedId}) \subseteq DOMAIN window

AssignTimes ==
  /\ Assigning
  /\ IF ~Known(Untimed) THEN Fail
     ELSE /\ TimeJob(Untimed) \/ TimeGate(Untimed)
          /\ UNCHANGED <<layer, layerVars, pending, base, replayed, qubitDep, siteDep, rydDep,
                         lastOneQ, crashVars, history>>
  /\ UNCHANGED ledgerVars

--------------------------------------------------------------------------------
(* _consume_scheduler_range: the ledger schedules each instruction from    *)
(* its dependencies alone and must arrive at the times the router wrote.   *)

Replaying == stage = "replay" /\ replayed < Len(chunk)
Replayed  == chunk[replayed + 1]

routerVars == <<layer, layerVars, pending, base, chunk, timed, window, depVars, crashVars,
                history>>

KnownToLedger ==
  Replayed.deps \cup (Replayed.sites \ {nextId}) \subseteq DOMAIN instructions

Schedule(i) ==
  \/ i.kind = "init" /\ Ledger!BeginInit
  \/ i.kind = "one_qubit" /\ Ledger!BeginOneQubit(i.atoms, i.deps)
  \/ i.kind = "cz" /\ Ledger!BeginCz(i.atoms, Zone, i.deps)
  \/ i.kind = "aod" /\ Ledger!BeginAod(i.job, i.deps, i.sites)

ReplayBegin ==
  /\ Replaying /\ call = Ledger!Idle
  /\ IF KnownToLedger THEN Schedule(Replayed) /\ UNCHANGED <<stage, replayed, routerVars>>
                      ELSE Fail /\ UNCHANGED ledgerVars

(* One event is recorded, or the ledger refuses it for an overlap.         *)
ReplayEvent ==
  /\ Replaying
  /\ \/ Ledger!RecordEvent /\ UNCHANGED <<stage, replayed, routerVars>>
     \/ Ledger!RaiseOverlap /\ Fail

(* consume_zair_instruction verifies the interval, and the AOD with it.    *)
Agrees(timing, summary) ==
  /\ timing.begin = summary.begin /\ timing.end = summary.end
  /\ Replayed.kind = "aod" => timing.resource = Replayed.aod

ReplayCommit ==
  /\ Replaying /\ Ledger!Commit
  /\ replayed' = replayed + 1
  /\ stage' = IF Agrees(call.timing, window[base + replayed]) THEN stage ELSE "failed"
  /\ UNCHANGED routerVars

(* Mutant: the ledger keeps every instruction.                             *)
PublishUnpruned ==
  /\ stage = "replay" /\ replayed = Len(chunk)
  /\ IF ActiveIds \subseteq DOMAIN window \cap DOMAIN instructions
     THEN /\ window' = [id \in ActiveIds |-> window[id]]
          /\ UNCHANGED ledgerVars
          /\ boundary' = finalMap
          /\ layer' = IF base = 0 THEN 0 ELSE layer + 1
          /\ base' = NextInst /\ chunk' = <<>> /\ timed' = 0 /\ replayed' = 0
          /\ stage' = "boundary"
          /\ UNCHANGED <<gateMap, finalMap, gates, block, pending, depVars, crashVars,
                         history>>
     ELSE Fail /\ UNCHANGED ledgerVars

(* The end of route_layer: the chunk is published, the router's window and *)
(* the ledger keep only what a later layer may depend on.                  *)
Publish ==
  /\ stage = "replay" /\ replayed = Len(chunk)
  /\ IF ActiveIds \subseteq DOMAIN window \cap DOMAIN instructions
     THEN /\ window' = [id \in ActiveIds |-> window[id]]
          /\ Ledger!Prune(ActiveIds)
          /\ boundary' = finalMap
          /\ layer' = IF base = 0 THEN 0 ELSE layer + 1
          /\ base' = NextInst /\ chunk' = <<>> /\ timed' = 0 /\ replayed' = 0
          /\ stage' = "boundary"
          /\ UNCHANGED <<gateMap, finalMap, gates, block, pending, depVars, crashVars,
                         history>>
     ELSE Fail /\ UNCHANGED ledgerVars

--------------------------------------------------------------------------------
(* Checkpoints are written between layers; a crash loses the rest.         *)

State == [layer |-> layer, boundary |-> boundary, base |-> base, window |-> window,
          qubitDep |-> qubitDep, siteDep |-> siteDep, aodDep |-> aodDep,
          aodFree |-> aodFree, rydDep |-> rydDep, lastOneQ |-> lastOneQ,
          instructions |-> instructions, nextId |-> nextId, traceEnd |-> traceEnd,
          activeUnion |-> activeUnion, atomEnd |-> atomEnd, aodEnd |-> aodEnd,
          oneQEnd |-> oneQEnd, rydEnd |-> rydEnd,
          journal |-> journal, exposures |-> exposures, events |-> events]

(* state_dict, with the published history it is stored beside.             *)
Checkpoint ==
  /\ MaxCrashes > 0
  /\ stage = "boundary" /\ saved # State
  /\ saved' = State
  /\ UNCHANGED <<stage, layer, layerVars, pending, base, chunk, timed, replayed, window,
                 depVars, crashes, history, ledgerVars>>

(* What from_state asks of the dependency ledgers it has restored.         *)
Consistent ==
  /\ ActiveIds = DOMAIN window /\ ActiveIds = DOMAIN instructions
  /\ nextId = base

(* A new process takes the checkpoint's state as its own.                  *)
Restore ==
  /\ crashes < MaxCrashes /\ saved # NoCheckpoint
  /\ crashes' = crashes + 1
  /\ layer' = saved.layer /\ boundary' = saved.boundary /\ base' = saved.base
  /\ window' = saved.window
  /\ qubitDep' = saved.qubitDep /\ siteDep' = saved.siteDep /\ aodDep' = saved.aodDep
  /\ aodFree' = saved.aodFree /\ rydDep' = saved.rydDep /\ lastOneQ' = saved.lastOneQ
  /\ instructions' = saved.instructions /\ nextId' = saved.nextId
  /\ traceEnd' = saved.traceEnd /\ activeUnion' = saved.activeUnion
  /\ atomEnd' = saved.atomEnd /\ aodEnd' = saved.aodEnd
  /\ oneQEnd' = saved.oneQEnd /\ rydEnd' = saved.rydEnd
  /\ journal' = saved.journal /\ exposures' = saved.exposures /\ events' = saved.events
  /\ call' = Ledger!Idle
  /\ gateMap' = saved.boundary /\ finalMap' = saved.boundary
  /\ gates' = <<>> /\ block' = <<>> /\ pending' = {} /\ chunk' = <<>>
  /\ timed' = 0 /\ replayed' = 0
  /\ stage' = IF Consistent' THEN "boundary" ELSE "failed"
  /\ UNCHANGED saved

--------------------------------------------------------------------------------
(* The steps the driver takes by itself once it has accepted a layer.      *)
Advance ==
  \/ \E atoms \in SUBSET pending : EmitJob(atoms)
  \/ EmitGates
  \/ AssignTimes
  \/ ReplayBegin \/ ReplayEvent \/ ReplayCommit
  \/ Publish

Next == RouteLayer \/ Advance \/ Checkpoint \/ Restore

Spec == Init /\ [][Next]_vars

(* route_layer runs to its end once called: one thread, no waiting.        *)
FairSpec == Spec /\ WF_vars(Advance)

--------------------------------------------------------------------------------
(* What the driver promises.                                               *)

Ids == 0 .. NextInst - 1

(* The dependency ledgers name instructions that have been written, and an *)
(* atom is always on a site.                                               *)
TypeOK ==
  /\ stage \in {"boundary", "out", "back", "replay", "failed"}
  /\ layer \in 0 .. Len(Program) /\ base \in Nat /\ crashes \in 0 .. MaxCrashes
  /\ {boundary, gateMap, finalMap} \subseteq [Atoms -> Sites]
  /\ pending \subseteq Atoms
  /\ timed \in 0 .. Len(chunk) /\ replayed \in 0 .. Len(chunk)
  /\ DOMAIN window \subseteq Ids
  /\ qubitDep \in [Atoms -> Ids] /\ aodDep \in [Aods -> Ids] /\ rydDep \in Ids
  /\ DOMAIN siteDep \subseteq Sites /\ \A s \in DOMAIN siteDep : siteDep[s] \in Ids
  /\ lastOneQ \in {None} \cup Ids
  /\ aodFree \in [Aods -> Nat]
  /\ DOMAIN exposures \subseteq Ids

(* No layer of a legal program makes the driver raise: the independent     *)
(* ledger arrives at the times and AODs the router wrote, no atom is in    *)
(* two active events at once, and nothing pruned is looked up again        *)
(* (consume_zair verify_timing, _record_event, InstructionWindow).         *)
NeverRefused == stage # "failed"

(* "It mirrors the resource/dependency timing contract of                  *)
(* zac/router/router.py" (scheduler_ledger.py): whatever both of them have *)
(* timed, they have timed alike.                                           *)
MirrorsRouter ==
  \A id \in DOMAIN instructions \cap DOMAIN window :
    /\ instructions[id].begin = window[id].begin
    /\ instructions[id].end = window[id].end

Loads(e, m)  == e.id = m.id /\ e.type = "load" /\ m.atom \in Ledger!AtomsOf(e)
Stores(e, m) == e.id = m.id /\ e.type = "store" /\ m.atom \in Ledger!AtomsOf(e)
Pulses == {e \in events : e.type = "two_qubit_gate"}

(* A site is handed over in order: no atom is set down on a site before    *)
(* the atom that leaves it has been lifted, though the arriving job may    *)
(* begin earlier (get_begin_time of the site dependencies).                *)
HandoverInOrder ==
  \A m, n \in journal :
    m.atom # n.atom /\ m.from = n.to /\ m.id <= n.id =>
      \A e, f \in events : Loads(e, m) /\ Stores(f, n) => e.stop <= f.start

(* "loading it while the pulse is still active is physically impossible"   *)
(* (_bind_resident_rydberg_dependencies): an atom that is in the zone at a *)
(* pulse, participant or not, has been set down before the pulse and is    *)
(* not lifted until it is over.                                            *)
ExposedAtRest ==
  \A p \in Pulses : \A m \in {n \in journal : n.atom \in exposures[p.id].atoms} :
    \A f \in events :
      /\ m.id < p.id /\ Stores(f, m) => f.stop <= p.start
      /\ m.id > p.id /\ Loads(f, m) => p.stop <= f.start

(* The order of a round given by _route_resident, "out ... rydberg ...     *)
(* back ... then the next round's out": the atoms that return from a layer *)
(* have been set down before the next layer's pulse.                       *)
BackBeforeNextPulse ==
  \A p \in Pulses : \A m \in {n \in journal : n.phase = "back"} :
    m.layer < exposures[p.id].layer =>
      \A f \in events : Stores(f, m) => f.stop <= p.start

(* Every layer accepted is published (or lost to a crash that restores     *)
(* the boundary before it): the jobs of a phase can always be ordered, and *)
(* nothing the driver waits for stays away.                                *)
LayerPublished == stage \in {"out", "back", "replay"} ~> stage = "boundary"
================================================================================
