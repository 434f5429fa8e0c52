# A specification of the ZAC_zzx resident compiler

ZAC_zzx compiles a quantum circuit for a neutral-atom machine. Atoms sit on sites
of a storage area or on pairs of *seats* in an entanglement zone; AODs (moving
tweezers) carry groups of atoms; a Rydberg pulse entangles every pair seated in
the zone at that moment and disturbs any other atom that is there; a single beam
applies one-qubit gates. The resident variant leaves atoms in the zone between
pulses instead of always taking them home, and that makes ordering its central
problem: who may be lifted when, what a job or a pulse must wait for, and whether
two independently written schedulers agree on it.

This directory holds TLA+ modules translated from the code, TLC configurations
for small instances and TLAPS proofs. All paths below are relative to the
repository; `zzx/`, `zac/`, `streaming/`, `evaluation/` and `experiments_v2/` are
under `ZAC_zzx/`.

## 1. The system

### Components

| Component | Code | State it keeps | Operations |
|---|---|---|---|
| Scheduler ledger | `zzx/scheduler_ledger.py` | instruction timings by id, clock of each AOD, zone and beam, per-atom active time and last active end, end of the trace | `schedule_init / one_qubit / cz / aod`, `consume_zair_instruction`, `prune_instructions`, snapshots |
| Native router | `zac/router/router.py` | dependency ledgers per qubit, site, AOD, zone; heap of AOD free times; the instruction list | instruction writers, `process_movement_layer`, `process_gate_layer`, `aod_assignment`, `get_begin_time`, `expand_arrangement` |
| Resident router | `zzx/zac_zzx.py` | the router's, plus the last one-qubit block | `_route_resident`, the Rydberg binding, the ledger patch of the back phase, batch colouring and its ghost replay |
| Route driver | `streaming/zac_route_transition.py` | layer number, current boundary mapping, sliding window of instruction summaries, router, ledger | `route_layer`, scheduler replay, pruning, `state_dict`, `from_state` |
| Resident placer | `zzx/zplacer.py` | the stream of mappings, the plan of the round, the banned remedies | the round loop of three engines, `_repair_ghosts`, commits, the terminal boundary |
| Resident registry | `zzx/resident.py` | who is on which seat or storage site, idle exposures | `enter_zone`, `return_to_storage`, `reseat`, `decide_lazy`, the `record_*` calls |
| Exact-current scheduler | `zzx/exact_current_reference.py` | the committed scheduler state, prefixes and candidates forked from it | prepare a prefix, evaluate candidates, commit one |
| Batch ordering | `zzx/zac_zzx.py`, `zzx/ghost.py` | none (per call) | endpoint precedence, colouring, ghost replay |
| Formal compiler's streams | `streaming/formal_large_zac_compiler.py`, `streaming/formal_zac_checkpoint.py` | gzip member files, counts and chain hashes, checkpoint file, private and public directory | write, flush, close, checkpoint (write aside, then replace), truncate and resume, publish |
| Layer store | `streaming/qasm_sqlite.py` | two layer counters per atom, a table row per gate | scan a circuit, read a dependency layer, a window of CZ layers, an atom's gates |
| Online compiler | `streaming/large_compiler.py`, `streaming/controller.py`, `streaming/checkpoint.py` | mapping, one dependency layer, trace file, last checkpoint | start or resume, compile a layer group by group, keep or send home, checkpoint, verify and publish |
| Trace validation and scoring | `streaming/trace_pipeline.py`, `evaluation/` | per-atom position and end of use, the open AOD batch, busy intervals, score sums | one event at a time, or the whole sorted trace |
| Tuning campaign | `experiments_v2/tuning_runner.py` | schedule, receipts and their history, claims, phase seal, snapshot, report, lock file | claim, attempt, seal a result, retry, promote a phase, recover a claim |
| Experiment runner | `experiments_v2/runner.py` | one attempt: child process, private directory, manifest | run, time out, terminate, judge, promote |
| Layer scheduling | `zac/scheduler/scheduler.py`, `streaming/zac_stage_provider.py` | ready times per qubit, capacity per stage | ASAP layering, capacity split |
| Genetic search, costs | `zzx/boundary_problem.py`, `zzx/algorithm_v2.py`, `zzx/zcost.py`, ... | populations, costs | choose among what the placer permits |
| Native kernel | `native/`, `zzx/native_backend.py` | floating point copies of the above | same results, faster |
| Baselines, adapters, studies | `ZAC/`, `zac/placer`, QMAP and generic stream compilers, statistics | | |

### How they interact

The placer asks the registry who stays and produces three mappings for a layer:
the boundary `B_L`, the gate mapping `G_L` and the next boundary `B_(L+1)`; the
third engine first routes the layer on a fork of the exact-current scheduler and
demands that the committed state is the one its candidate was evaluated with. The
driver's `route_layer` checks the mappings against its own boundary, has the
resident router write one chunk of instructions (out jobs, pulse, one-qubit block,
back jobs), and `aod_assignment` gives them begin times and AODs. The driver then
replays the chunk through the ledger, which computes the times again from the
dependencies alone and refuses the trace if it disagrees or if an atom would be
active twice. The chunk is expanded to events; each goes through the incremental
validator and scorer and into the output streams. Window and ledger are pruned to
the ids the dependency ledgers still name. Between layers the driver can be
checkpointed together with the positions of the output streams.

A compile is one thread. The difficulty there is not threads but *modelled*
concurrency (jobs of several AODs, pulses and blocks overlap in machine time), two
schedulers that must agree, records of one fact in several places (registry,
decisions, stream; validator, scorer), ids that outlive their instructions, and
processes that stop between two writes to the disk.

The online compiler is a program of its own, for circuits that do not fit into memory:
it shares neither placer nor router, reads the layer store, moves one atom at a time
and has four policies (M1 to M4) for who waits in the zone. Its controller decides when
to checkpoint; a process may be told to stop after so many layers, and another goes on.

A tuning campaign is several processes that share files: workers on overlapping
shards of a schedule, each with a child process per attempt, a promoter that seals
the phase, and operators who remove the claims of dead workers. Only hard links,
renames and one lock file keep them apart.

### What is hard, and what makes each part correct

* Ledger: an atom or device is never booked twice; what remains after pruning
  summarises the whole history exactly; a refusal in the middle of an event
  leaves a half-charged ledger.
* Router and resident router: an atom exposed to a pulse stays put while it lasts,
  even if it takes no part in it and was last moved many layers ago; a site is
  filled only after its previous atom was lifted, although the filling job may
  start earlier; an ordering of the jobs always exists.
* Driver: the ledger mirrors the router; nothing pruned is ever read again; after a
  crash the restored driver behaves as the one that wrote the checkpoint.
* Placer and registry: each atom is in one ledger of the registry, registry and
  stream agree, no two atoms are given one site, the legs that were checked for
  ghosts are the legs that are flown, the seats fit the capacity, rent counts the
  idle pulses and nothing else.
* Exact-current: what is committed is what the winning candidate was judged by.
* Streams: after exceptions, kills and resumes every record is there once, in
  order; a checkpoint can always be resumed; only a complete result is published.
* Online compiler: whoever waits in the zone, the gates of a group find room; gates put
  off, layers compiled again after a kill and layers counted in two ways leave every
  atom's gates in order; a checkpoint owns whole layers; an atom is exposed to a pulse
  for the sake of a gate only.
* Trace pipeline: scorer and validator never part; what they accept event by event
  the batch programs accept once the trace is sorted, with the same score.
* Tuning: one owner per trial; a receipt is never lost, nor a success withdrawn; a
  sealed phase is complete and does not change; the phase ends in spite of deaths.
* Attempts: a success rests on a child that ended by itself, whatever the signals.

`PROJECT.json` lists each hazard at its line with the properties that cover it, or
a note why none does.

## 2. Modules

| Module | Models | Code it stands for |
|---|---|---|
| `ExclusiveTimeline` | abstract: a growing set of bookings that never overlap on one resource | what the schedulers and the validator promise |
| `SchedulerLedger` | `PureSchedulerLedger` | `scheduler_ledger.py` 70–168, 333–371, 479–733 |
| `Arrangement` | a job's expansion into LOAD, MOVE and STORE legs | `router.py` 323–354, 655–1056 |
| `RouteTransition` | the driver with the resident router and an instance of `SchedulerLedger` | `zac_route_transition.py`, `zac_zzx.py` 301–328 and 940–1040, `router.py` 323–690 |
| `ResidentPlacer` | the placer's rounds with the registry, the ghost repair and the audited scheduler | `zplacer.py` `run` and what it calls, `resident.py`, `ghost.py`, the forks of `exact_current_reference.py` |
| `ResumableLog` | abstract: checkpoints move forward, a complete result appears once | what the output directory promises |
| `LargeStreams` | one formal compile with its file system, and its resumption | `formal_large_zac_compiler.py` 150–330 and 340–819, `formal_zac_checkpoint.py` |
| `LayerStore` | the two layers of every gate, as functions of a circuit | `qasm_sqlite.py` 382–522 and 944–1084 |
| `OnlineCompiler` | the online compiler, its policies, checkpoints and resumption | `large_compiler.py` 222–442, 510–617, 628–889 and 1054–1121, `controller.py` |
| `ResultLedger` | abstract: results are entered, failures withdrawn, the ledger closed and published | what a tuning phase promises |
| `TuningPhase` | workers, attempts, promoter and operators on shared files | `tuning_runner.py`, `run_attempt` of `runner.py` |
| `TraceReference` | the sort, the batch validator and the batch scorer, as functions of a whole trace | `adapters.py` 585–605, `validator.py`, `scorer.py` |
| `TraceReplay` | the incremental validator and scorer | `trace_pipeline.py` 144–379 and 556–947 |
| `SchedulerLedgerProofs`, `RouteTransitionProofs`, `LargeStreamsProofs`, `TuningPhaseProofs`, `TraceReplayProofs`, `ResidentPlacerProofs`, `OnlineCompilerProofs` | theorems (section 4) | |
| `RecursionLemmas` | induction over an interval and over a recursive function, sums over finite sets, for the proofs | |
| `MC...` | the small instances | |

`RouteTransition` runs an instance of `SchedulerLedger`; `SchedulerLedger` and
`TraceReplay` implement `ExclusiveTimeline`, `LargeStreams` and `OnlineCompiler` implement
`ResumableLog`, `TuningPhase` implements `ResultLedger`; `TraceReplay` extends
`TraceReference` and `OnlineCompiler` extends `LayerStore`. `ResidentPlacer` and `RouteTransition` meet at the stream of
mappings: `NeverDoubleBooked` is what `RouteLayer` relies on.

### SchedulerLedger

A schedule call is three kinds of step. `BeginInit`, `BeginOneQubit`, `BeginCz` and
`BeginAod` are the part of `schedule_*` before the first booking: they refuse
unknown dependencies (the guard), compute the begin time as the latest of the
resource's clock and the dependency ends, and set up `call`. `RecordEvent` is one
call of `_record_event`; `RaiseOverlap` is the same call when an atom is still
active, with the atoms before it in the event already charged as the loop leaves
them. `Commit` is `_commit_timing` and the clock update just before it. `Prune` is
`prune_instructions`. A ledger that raised takes no further step: every caller
treats the exception as fatal. `events` is the history the code keeps under
`keep_events=True`. A `None` pickup or drop is 0.

Begin times are chosen with a quantifier (`\E begin \in ... : IsLatest(...)`), which
is the code's `max`. Blocks, pulses and jobs come from `GateBlocks`, `Pulses`, `Jobs`,
any set of them that satisfies `LedgerAssumption` - the checks of
`ExpandedAODPhase` and of the callers.

### Arrangement

Coordinates are reduced to which atoms share a row and which share a column. Rows
are loaded from the lowest up; a row that is not the last is followed by a parking
move; before a row whose columns are already held a shift back is inserted, which
takes no time because `get_duration` multiplies rows by columns and a shift back
names no row. The ledger reads the same legs (`infer_zair_phase_atoms`).

### RouteTransition

`stage` follows one call of `route_layer`:

| Action | Code |
|---|---|
| `RouteLayer` (`AcceptLayer`) | the checks at the head of `route_layer`, `_freeze_mapping`, `_two_qubit_stage` |
| `EmitJob` | one batch: `process_movement_layer` and `write_rearrangement_instruction` |
| `EmitGates` | `process_gate_layer`, `_bind_resident_rydberg_dependencies`, the patch at `zac_zzx.py` 1005–1014 |
| `AssignTimes` | one instruction of `aod_assignment`, in the order `strict_aod_route_order` fixes |
| `ReplayBegin`, `ReplayEvent`, `ReplayCommit` | `_consume_scheduler_range` and `consume_zair_instruction`, through the ledger's own actions |
| `Publish` | the end of `route_layer`: window and ledger pruned to `ActiveIds`, boundary and layer advanced |
| `Checkpoint`, `Restore` | `state_dict`; a crash at any point, then `from_state` with its consistency checks |

A lookup of a pruned id, an overlap found by the ledger or a disagreement between
router and ledger leads to `stage = "failed"`: each is an exception that ends the
compile. The initial state is after `write_initial_instruction` and before the
ledger has consumed it.

What the placer and the batch colouring choose is left open. A stage of `Program`
says which gates come, on which pair each gate sits is any choice that puts no two
atoms on a site and nobody beside a stranger, and what returns, where to
(`Homes`), is any choice. Any grouping of pending moves into jobs is allowed as
long as no atom is set down on one that is still there; the code's batches, which
also avoid ghosts, are among these. A cycle of exchanged sites is not offered:
`_strict_endpoint_precedence_batches` raises for it before anything is written
(`Routable`).

### ResidentPlacer

`layer` is the last committed round. `pc` goes from `plan` (over `decide` for the
engine that plans first) to `repair` and `commit` and back.

| Action | Code |
|---|---|
| `PlanRound` | gate sites by matching (any matching), `_repair_placements`, `_pair_seats` |
| `DecideLazy` | `decide_lazy`: evictions of seats that are needed (E2), the capacity valve, return sites; it moves the registry at once |
| `GaStep`, `GaStepNoMenu` | `_ga_step` with its clear menus and the valve; `assert opts` |
| `RichStep`, `RichRefused` | `_ga_step_v2`: the checks before and after the native solver, its winner taken as it is or handed to the repair |
| `RepairRound`, `FixIssue`, `RepairDone`, `RepairFailed` | `_repair_ghosts`: the issues of a round, one remedy each (`MakeWay`, `GoElsewhere`, `MoveGate`, `NoRemedy`), the list of banned remedies |
| `CommitRound` | `_append_boundary`, the sync of the registry, `record_rydberg_pulse`, `enter_zone`, the gate mapping, `commit_source` |
| `Terminal`, `CommitTerminal` | `_finish_terminal_boundary` |

Costs choose among what the code permits, so the choice is a quantifier. What a leg
sweeps over decides what is permitted, so `Sweeps` computes it from coordinates as
`ghost_hits` does. The state of the audited scheduler is the list of mapping pairs
it has routed: two states are equal exactly if the same was routed. An `AssertionError`
or `RuntimeError` is `pc = "failed"`, with the check in `failure`.

Three oddities of the code are kept and belong to no property: the repair raises
after its twelfth round even if that round cleaned everything, where its comment
speaks of a cap of 60; `_ga_step`'s valve claims the rule of `decide_lazy` but counts
residents without a use to come, which it can never evict; `_ga_step_v2`'s capacity
assertion counts the STAY of a cycle's participant, which the bound on returns before
it does not.

### LargeStreams

A file is a sequence of chunks, the stage a record came from or the end of a gzip
member; its first `synced[f]` chunks are on disk. `todo` holds the streams a step has
still to visit, so every open, write, flush and close is a step of its own, between
which an exception (`Raise`), the death of the process (`Kill`) or a power loss
(`PowerLoss`) may come. `Invoke` is the head of `compile_formal_large_zac`,
`OpenWriter` the writers' constructors or `resume`, `Write` one record, `Flush` the
progress flush with its fsync, `CloseWriter`, `ReplaceCheckpoint`, `SyncDirectory`
and `Reopened` are `save_boundary`, `Publish` the rename, `Unwound` the except
clause. `Spill` lets buffers empty themselves at any time. The cadence's clock may
say "due" at any boundary. A power loss keeps of each stream any prefix with at least
the synced chunks, and of the checkpoint the replaced or the synced version.

### LayerStore and OnlineCompiler

A circuit is a sequence of gates, a gate the sequence of its atoms. `Stored` repeats
`LayerEvent`, the body of the scan's loop, along it; a row's index is its `seq`.
Everything the compiler asks the store is an operator on the rows.

| Action | Code |
|---|---|
| `StartFresh`, `Resume` | `_start_fresh` (refused if anything of an earlier compile is there), `_resume` with its checks of trace and mapping |
| `BeginLayer`, `EndLayer` | `_compile_dependency_layer` up to the groups; the counters after it |
| `BeginGroup` | the head of `_compile_cz_group`: residents without a gate in the group are asked whether they stay |
| `PlaceGate` | one turn of the loop over the pending gates: `_assign_gate_pair`, then `_place_gate` or the list of gates put off |
| `MakeRoom`, `Pulse` | after the loop: nobody was placed, `_evict_resident`; or `_emit_cz_chunk` and the choice who stays |
| `Cadence`, `Pause`, `Finish` | `_maybe_checkpoint`, by count of layers or by clock, and forced at the end of an invocation and of the circuit |
| `Publish`, `Kill` | `_verify_final_result` and the result's replacement; the process ends at any point, the file keeping any prefix past the checkpoint |

Moves are taken to succeed at once. Where a policy weighs the cost of staying against
the pulses ahead, `Weighed` permits both answers; without a use in sight, or without a
pulse before the use, the code has one answer and so has the model. An event of the
trace is the set of its rows. A killed process's file has at least its first event.

### TuningPhase

Files, locks, workers, children, a promoter and operators; every action is one
system call or one decision between two of them. `Look`, `LockShared`,
`AcquireClaim`, `Unlock`, `Settle`, `UnlinkReceipt` are a worker on its way to an
attempt; `Spawn`, `ChildExit`, `ForceStop`, `TerminateGroup`, `Promote` are
`run_attempt`; `SealResult` and `Release` end it. `LockExclusive`, `ReadTrial`,
`SealPhase`, `TakeSnapshot`, `PublishReport`, `PublishSchedule` are
`promote_tuning_phase`, each able to give up. `OpCheck`, `OpLink`, `OpConfirm`,
`OpUnlink` are `recover_tuning_claim`. `Die` and `PromoterDies` may come anywhere; a
dead worker leaves its claim, the system frees its lock, and its child, in a session
of its own, may go on. `life` stands for the pid. `earned` in a manifest is not in
the file: it notes whether the child's end bears the status out.

A `^C` during the child's poll is caught and becomes a failed attempt, so it is a
`ForceStop`. Before a sealed phase's claim is removed, `recover_tuning_claim` would
restore a missing receipt; that branch is in `OpCheck` and, by `SealedPhaseIsComplete`,
never taken.

### TraceReplay and TraceReference

A step is one event that the validator accepts; a refused one ends the compile.
`OneQubitGate`, `TwoQubitGate`, `Load`, `Move` and `Store` have the guards of
`IncrementalTraceValidator.consume` and then `Consume` the event: the scorer, given
the same event, accepts it or raises alone (`stage = "split"`). Both event orders are
modelled: sorted by start, or in the order of dependencies, where an event may start
before one that came earlier. `TraceReference` replays a finished trace: `SortKey` is
the order of `adapters.py`, `Sorted` the events in that order (the k-th is the one that
k - 1 others come before), `Replay` what both batch programs ask and do per event,
`Score` what the score means (busy time, for instance, is the number of instants at
which something works on the atom, not a sum of merged intervals).

A load that finds no batch open may bring any number used so far or the next one
(`Batches`): the validator and the scorer forget the number of a batch that is over.
The compilers do not use one twice (`na_instruction_stream.py:406` and
`large_compiler.py:904` count them, `zair_instruction_stream.py:309` takes the
instruction's id), but a trace that is read back may.

Not offered are events the compilers never write: waits, and a store that reports
another place than where the atom is, which the validator takes at its word.

## 3. Runs

| Run | Properties | Instance | States |
|---|---|---|---|
| `ledger` | `TypeOK`, `ActiveUnionIsMeasure`, `ClocksSummariseEvents`, `TimelineSpec` | 2 atoms, 2 AODs, 3 instructions | 4 168 |
| `resident` | `TypeOK`, `ExposedAtRest` | 3 atoms, 1 AOD, 2 pairs of seats, 3 layers | 277 000 |
| `handover` | `NeverRefused`, `HandoverInOrder`, `LayerPublished` | 3 atoms, 2 AODs, 1 pair, a leading block, 2 layers, one crash, fairness | 52 000 |
| `placer` | `RegistryFollowsStream`, `NeverDoubleBooked`, `ExecutedLegsClean`, `RentCountsIdlePulses`, `CapacityHeld`, `AuditAgrees` | 4 atoms, 2 pairs, 3 engines, 3 circuits | 466 000 |
| `streams` | `StreamMatchesChain`, `ResumableAfterKill`, `OrphanOnlyAfterKill`, `ImplementsLog`, `CheckpointedIsPublished` | 3 streams, 3 stages, one exception, kill, power loss | 197 000 |
| `online` | `StoreIsSound`, `NeverOutOfRoom`, `NeverRefused`, `LedgerKept`, `ChunkStaysPlaced`, `LitForAReason`, `CheckpointOwnsItsLayers`, `ImplementsLog`, `StartedIsPublished` | 350 circuits on up to 6 atoms, 2 pairs, 4 methods, limits of 0, 1 and 2 layers, 2 kills | 330 000 |
| `tuning` | `OneOwner`, `SealedIsComplete`, `ReceiptIsEarned`, `NothingLost`, `ClaimsAreHonoured`, `ImplementsLedger`, `PhasePublished` | 2 trials, 2 workers, 1 operator, 1 retry, 1 death | 334 000 |
| `trace` | `ScorerFollows`, `GatesAtRest`, `ReferenceAgrees`, `ImplementsTimeline` | 3 atoms on a line, 6 events, both orders | 318 000 |
| `overlap` | `BackBeforeNextPulse`, violated | 4 atoms, 2 pairs | to the counterexample |
| `common` | `MirrorsRouter`, violated | 2 atoms, a leading block, `OneQCommon = 1` | to the counterexample |
| `streams_durable` | `ResumableCheckpoint`, violated | 2 stages, one power loss | to the counterexample |
| `placer_match` | `EveryLegClean`, violated | the `placer` instance with the `match` engine | to the counterexample |

What they say:

* `TimelineSpec`: `SchedulerLedger` implements `ExclusiveTimeline` with every
  recorded event mapped to bookings of its active atoms and of its device. A MOVE
  books the AOD but not the atoms, as `is_atom_active` has it.
* `ActiveUnionIsMeasure`: the running sum `active_union_us` is the measure of the
  union of the atom's active intervals in the history, which is what the batch
  scorer computes from the finished trace.
* `ClocksSummariseEvents`: the claim of `prune_instructions` that clocks and tail
  remain exact after pruning.
* `TypeOK` is checked where the ledger and the driver run; the other modules have
  invariants that say more of the same variables.
* `NeverRefused`: every layer that passes `route_layer`'s checks goes through.
  This covers the equality of the two schedulers on begin, end and AOD, the
  absence of overlaps in the ledger, and every lookup after pruning and restoring.
* `ExposedAtRest`: every atom whose gate mapping is in the zone, idle ones too, has
  been set down before the pulse and is lifted only after it.
* `HandoverInOrder`: for each leg that leaves a site and a later (or the same) job's
  leg that arrives there, the load ends before the store begins.
* `LayerPublished`: a layer once accepted is published; in particular the rule "not
  onto an occupied site" never leaves a set of pending moves without a next job.
* `RegistryFollowsStream`, `NeverDoubleBooked`: the registry's two ledgers, the
  decisions and the stream are several records of where an atom is;
  they agree between rounds, and no mapping books a site twice. The valve's victims
  may be given a site that another returner has, so the last one is the ghost
  repair's work: a leg that ends on an atom sweeps over it.
* `ExecutedLegsClean`: what the repair found clean is what the stream says, remedies
  included that mend one leg and disturb another.
* `RentCountsIdlePulses`: the idle exposures of a resident are the pulses since its
  last gate, computed from the circuit, whatever seats it was moved to.
* `CapacityHeld`: seats taken fit `theta`, or nobody but the gates' atoms is there.
* `AuditAgrees`: every boundary's commit leads to the scheduler state its candidate
  was evaluated with.
* `StreamMatchesChain`: count and chain hash of a writer stand for the records of its
  file and buffer, however often the file was cut back.
* `ResumableAfterKill`, `ImplementsLog`: a checkpoint can be
  resumed, its prefix is what an uninterrupted compile writes, checkpoints only
  advance, and what is published is complete, without gap or repetition.
* `OrphanOnlyAfterKill`, `CheckpointedIsPublished`: an exception never leaves a
  directory that is neither resumable nor out of the way; a compile with a checkpoint
  ends up published.
* `StoreIsSound`: each row's two layers are the earliest possible: above those of every
  gate it waits for, directly above one of them.
* `NeverOutOfRoom`, `ChunkStaysPlaced`: there is always somebody to send home, and never
  somebody whose gate is placed for the pulse already.
* `LedgerKept`, `NeverRefused`: at every moment, over all the processes of a compile, the
  trace has each atom's gates once each in the order of the circuit; no checkpoint and no
  finished trace is refused.
* `CheckpointOwnsItsLayers`, `ImplementsLog`, `StartedIsPublished`: a checkpoint's trace
  has the gates of its layers and no others; checkpoints only advance; a compile that has
  begun is published unless it was killed before its first checkpoint, in which case it
  must be started anew in an empty directory.
* `LitForAReason`: who is illuminated without a gate has one in the method's window from
  the group's CZ layer on, or there is no CZ layer left; under M1 nobody is.
* `OneOwner`, `SealedIsComplete`: from claim to release a worker owns its trial; no
  worker crosses the seal with the receipt of a retry in its hands.
* `ReceiptIsEarned`: a receipt rests on a manifest of an attempt whose child is over;
  a success on one that ended by itself.
* `NothingLost`, `ClaimsAreHonoured`, `ImplementsLedger`: receipts leave their place
  only into the history, live claims are removed by their owners alone, and the phase
  implements `ResultLedger`: nothing changes after the seal, and the next schedule is
  built on exactly the sealed receipts.
* `PhasePublished`: in spite of deaths, retries and early promotions the next
  schedule is published.
* `ScorerFollows`: the scorer never raises alone, and its open batch is the
  validator's movement.
* `GatesAtRest`: between a load of an atom and the store that sets it down next no gate
  works on it, in whichever order the three events came. It does not look at batch
  numbers, which may repeat.
* `ReferenceAgrees`: an accepted stream, sorted, is accepted by the batch validator
  and scorer and has the same score - up to the three gaps below.
* `ImplementsTimeline`: atoms, beam and, in dependency order, AOD are booked without
  overlap.

### Findings

* `overlap`. The docstring of `_route_resident` (`zac_zzx.py:950`) gives the time
  order of a round as out, pulse, back, next round's out, and the comment at 1010
  says the patch restores "after the gates, before the next round". A pulse waits
  for the atoms its own gate mapping places in the zone and for the previous
  pulse. Atoms *leaving* the zone are neither, so if the next layer's pair is
  already seated its pulse starts while the previous layer's returners are still
  over their seats. The run entangles two pairs, returns the second and pulses the
  first again.
* `common`. `scheduler_ledger.py:4` says it mirrors the router's timing. The ledger
  ends every one-qubit block with `one_qubit_common_us`; so does `aod_assignment`,
  but `write_initial_instruction` (`router.py:321`) does not for the leading block.
  With `common_1q = 19`, which `zac/zac.py:129` sets for `.qpy` programs,
  `consume_zair_instruction` refuses the trace at instruction 1. With zero, the
  value of every other input, the two agree, and the passing runs use zero.
* `streams_durable`. A checkpoint is said to own a resumable prefix of each stream.
  It is synced to disk, and so is its directory; the streams are closed but not
  synced. After a power loss the checkpoint may name more than the files hold, and
  the resume refuses.
* `placer_match`. `_repair_ghosts` promises that no leg sweeps over a standing atom.
  `decide_lazy` has moved the returners in the registry before the repair asks where
  they are, so that their legs look like legs of length zero.

Met while modelling, without a run of their own:

* A pulse lights the whole zone, and `decide_lazy` (`resident.py:570`) keeps every
  resident that is not in the way, each without a look at who shares its pair. Both
  atoms of a gate just executed may thus be on their pair while the next gate is
  executed on another: in the `placer` instance with room for all four seats TLC finds
  it in the second round, and a zone of three pairs has the room with the default
  `theta_capacity` of 0.9. M2 of the online compiler (`large_compiler.py:831`) keeps
  pairs in the same way when a group of their next CZ layer comes dependency layers
  before theirs. The adapters for other compilers' traces refuse such a pulse
  (`evaluation/adapters.py:928`: "NA gate-pair ledger does not match the executable
  architecture pairs occupied during the CZ pulse"); the adapter of the placer's own
  instructions and the native trace's validator do not look at pairs.
* The comment at `large_compiler.py:827` has an atom retained "until its registered
  adjacent-layer gate is actually consumed". CZ layers count CZs only, dependency
  layers all gates, so one CZ layer may be spread over several dependency layers and
  its groups need not come in order. An atom kept for layer `b + 1` is sent home when
  one more group of layer `b` comes first; and an atom is kept for a gate of layer `b`
  that was consumed dependency layers ago. Circuits of six gates show both to TLC under
  M2. They cost moves and exposures, never a gate: `LedgerKept` holds.
* A compile resumed from its final boundary opens its four writers, has nothing to
  write and renames the directory while they are open; closed afterwards, they append
  an empty gzip member to the published files (`formal_large_zac_compiler.py:484`;
  the docstring at 343 has the result published atomically). The records are not
  affected, as `ImplementsLog` shows.
* Two operators recovering one stale claim (`tuning_runner.py:142`): both confirm it,
  the first unlinks it, a worker claims the trial anew, and the second unlinks that
  live claim, where the docstring at 550 says "never steals a live claim". With
  `Operators = {"o1", "o2"}` and `MaxFaults = 2` TLC finds it in 18 states; the runs
  and theorems have one operator.
* The incremental validator asks less than the batch one: in chronological order it
  accepts operations of the AOD that overlap in time (`AodOverlaps`), in both orders a
  pulse that illuminates a carried atom (`LitWhileCarried`), and in both orders a batch
  under the number of one that is over (`BatchReused`): `trace_pipeline.py:264-312` and
  the scorer's `_consume_batch` keep no such numbers, the batch validator
  (`validator.py:66-68`) and scorer (`scorer.py:136-138`) refuse them. None of the three
  is something the compilers write; `ReferenceAgrees` leaves them out, and without any
  one of them TLC finds it violated. The validator also takes a store's reported place
  for the atom's.

### Bounds

* Ledger, `MaxInstr = 3`, `MaxDeps = 1`: three calls are enough for one to wait on
  a clock, one on a dependency and one on a site, with pruning in between; two
  AODs make the ASAP choice matter; the jobs have one and two rows, and one block
  names an atom twice. Theorems lift the bound for all four properties.
* `MaxCrashes = 1`: a restored driver is again in a state of a driver that has not
  crashed, apart from `saved`.
* Two layers, three in `resident`: the dependencies that reach back furthest (an idle
  resident, a site last emptied in the previous layer, the last one-qubit block) need
  one layer to be made and one to be read; an atom that is idle during a pulse and only
  moves on its way into the next gate needs the third. The leading block adds a
  generation of ids in `handover`.
* Three atoms and two pairs let an idle resident stay, return or be reseated while
  a pulse of another pair takes place; two AODs let jobs overlap in time.
* Durations are small distinct numbers chosen so that a handover is decided by the
  transfer time; `Homes` bounds where a back phase may send each atom.
* `placer`: the circuits `Turns` (an atom without gate in every round), `Crossed`
  (two gates at once, then pairs across them) and `Apart` (a pair waits for another)
  reach evictions, the valve, every remedy, park and cycle; `Thetas` go from "no room
  to stay" to "room for one more".
* `streams`: three stages with a checkpoint every two, so that one is due, one is not
  and the last is final; one stage writes two records to a stream; each kind of
  failure once, at any step, is followed by a full resume, and a resumed process is in
  a state of one that was not interrupted.
* `online`: every circuit of three gates out of seven, repetitions included, and six
  longer ones: three gates for two pairs, everybody with everybody else, CZ layers spread
  over dependency layers. `Horizon` is 1 where the default is 8: what matters is a
  use beyond the next layer that is seen, and one that is not. Checkpoints every two
  layers with limits of one and two make an invocation end before one is due. Two kills:
  the second interrupts the recovery from the first.
* `tuning`: the shards overlap, as they do for workers launched with different worker
  counts; one retry, one death and one operator bring every branch about.
* `trace`: six events hold two complete batches with a gate between, or a batch with
  staggered loads and gates; all durations are one, so that events meet at their ends.
  `Rotated`, `Groups` and the one pulse leave an atom that is illuminated without a
  gate, one that may be loaded alone or with another, and one that stays.

Deadlock is not checked: a driver stops after the last layer or a failure, a ledger
after an exception or at `MaxInstr`, a placer when done or refused, a compile when it
is published, a phase when its next schedule is, a trace when it is finalised.

### Fairness

* `RouteTransition`: `WF_vars(Advance)`: once called, `route_layer` is a single thread
  that never waits, so its next step is taken. Accepting a layer, writing a checkpoint
  and crashing are decided outside the driver and are not fair. A crash in the
  middle of a layer leads back to `boundary`, the layer taken back: an
  accepted layer is published unless a crash takes it back.
* `LargeStreams`: `WF_vars(Step)`, since the compile is one thread as well, and
  `WF_vars(Invoke(TRUE, 0))`: whoever started it resumes it. Nothing makes buffers
  spill, processes fail, or an interrupt be asked for.
* `OnlineCompiler`: `WF_vars(Compile)` for the one thread, and `WF_vars(Resume)`: an
  interrupted compile is resumed. Nothing makes a process be killed.
* `TuningPhase`: a worker process and a promotion take their next step; somebody
  starts workers without `--retry-failed` and recovers stale claims; `ForceStop` is
  fair because the deadline ends every child that does not end by itself (the child's
  own end is not fair); and strong fairness for the two `flock` calls: a waiting
  process gets the lock if it is free again and again.

## 4. Proofs

A run checks one small instance; a theorem holds for every value of the constants
that satisfies the module's named assumption. Each proof module has one inductive
invariant, `IInv` or a conjunction with it, a lemma per action (or one for a group of actions that touch the
same state), and theorems that read a property off the invariant.

The provers have no induction rule that can be instantiated, so `RecursionLemmas` derives
the ones that are needed in a form they can use: every set of naturals has a least element
(from `WFMin` of the library), hence induction over an interval for a *set* of numbers,
hence the existence and the values of a recursive function. A fold of the community
modules is first shown to be such a function.

`SchedulerLedgerProofs` (`TypeCorrect`, `IdleTimeExact`, `Refinement`,
`NeverDoubleBooked`), for any atoms, AODs, zones, durations, blocks, pulses, jobs and
bounds. `LedgerAssumption` asks that durations are naturals, that a pulse and a phase
name no atom twice and that the phases of a job follow one another. A new booking is
known to be free of the old ones only because it starts after its device's clock and
after the last active end of its atoms; those bound the old bookings only if every
recorded event ends before them; and in the middle of a call the clock has not moved
yet, so the events of the call under way are ordered by the call itself. `CallInv` and
`HistoryInv` say this. `IdleTimeExact` is that the clamp of `idle_time_us` at zero never
acts before a refusal. For the refinement, a `RecordEvent` adds the slots of one event,
which `IInv` keeps apart from the others; all other steps leave the bookings alone.

The second half of the module (`ClocksAreSummaries`, `ActiveUnionIsExact`) goes on from there.
`HistoryInv` bounds every event by a clock; that a clock is no later than needed wants
a witness, the event that ends with it. It is the last event of the committing call:
`EndInv` says that a pulse or a job ends with its last event and that what the call has
recorded is in the history. `SummaryInv` carries the witnesses. For the active time, an
interval that is added begins after everything its atom was active for
(`HistoryInv` again), so the sets of instants are disjoint and their cardinalities add
up: the running sum is compared with the measure one addition at a time, which needs no
induction over the events.

`RouteTransitionProofs` (`RouterStateTyped`, `PulsesFindAtomsAtRest`, `SitesHandedOver`,
`NothingPrunedIsMissed`, `OverlapNeverRaised`, `DriverNeverRefused`, `LedgerMirrorsRouter`), for
any atoms, AODs, sites and durations, any program, any choices of the placer and any grouping of the moves
into jobs, over publications, prunings, crashes and restarts. What `RouteAssumption` asks of
a program is that a one-qubit block of a layer names only atoms of the layer's gates: the
driver does not check it, but the stages it is given are built that way, and a block with
another atom would be timed without a look at that atom's moves.

An instruction *touches* an atom if it moves it or is a pulse while the atom is in the zone.
`ExposedAtRest` says that of two instructions that touch an atom the later one's events come
after the earlier one's. Neither begin times nor clocks say so - two AODs and a pulse run
in parallel - only dependencies do, and they are not a chain: a returning idle atom waits
for the last gate instruction, which may be a one-qubit block that never touches it. `After`
names what an id in a ledger stands for: an instruction that touches the atom no earlier than
the one asked for, or one that waits for such an instruction in the same chunk, or, if it was
published, one that ended after all that atom's events. `OrderInv` says that the ledger entry
of every atom, and for every instruction of the chunk one of its dependencies, is `After`
whatever touched the atom before; the binding of a pulse to all exposed atoms and the patch
of the back phase are exactly what keeps it. `ReplayInv` and `CallInv` turn this into time as
the ledger replays: what touched the atom has ended when the next instruction begins.
Pruning keeps it because the entries themselves are kept (`Settled`, which a checkpoint
carries over a crash). That a job's events lie within its begin and end needs the lemmas
about `ExpandedJob`: its legs follow one another from zero on, the last one is a store, and it
has a pickup and a drop (`ExpandedIsGood`).

`SitesHandedOver` rests on a second invariant, `SiteInv`, kept by every step that keeps the
first. The job that sets an atom down waits for one job only, the last that lifted an atom
from the site, and other jobs lifted atoms there before, in other layers and on other AODs.
Between two lifts from a site an atom is set down there, the one the second lift takes
(`Refilled`, `Arrived`): so the earlier lift was over before that atom was set down, and that
atom had arrived before the second job began, because the job waits for its own atoms. Hence
every earlier lift is over when the last job has picked up (`PickedUp`), which is what the
arriving job waits for. If that last job is the arriving job itself, its dependency on
itself is dropped, and the job has to lift all its atoms before it sets the first down
(`LiftsFirst`, from `ExpandedJob`). The entry for a site survives from layer to layer and over
a crash only because `ActiveIds` keeps it. The order in which a job visits its atoms
(`VisitOrder`) decides which dependency is written, and either one is enough (`VisitSites`);
that the rows of sites are integers is what makes the order total.

That no layer is refused (`DriverNeverRefused`) takes three more invariants, one for each
reason there is to raise, each resting on those before it.

* `KeptInv`: nothing pruned is looked up again. An instruction of the chunk, or an entry of a
  dependency ledger, names the chunk or what both the router's window and the ledger kept; the
  windows are cut to `ActiveIds`, and what is written later waits for `ActiveIds` only.
* `FreeInv`: no booking overlaps. An atom, the one-qubit beam and the Rydberg zone are used by
  one instruction after the other along a *line* (`LineInv`): each instruction that uses a
  thing depends on the one that used it last. The line starts at what the ledger has replayed
  and ends at the router's dependency ledgers, so whatever used a thing last is over when the
  next instruction begins (`UsedBefore`); within a call the phases follow one another.
* `TimeInv`: the ledger arrives at the router's times. It does not read what the router
  reads: its begin is the latest of its own clock for the beam, the zone or the AOD and of the
  ends of dependencies, the router's has no clock but the AOD's, and an extra dependency on
  the AOD's last job. `UsedBefore` again says that the ledger's clock is no later than a
  dependency's end, and `FreeAfter` that the extra dependency ends before the AOD is free; a
  job that waits for its own lift asks the router for a time that is not positive
  (`PickupOffset` is at most `DropOffset`). The AODs have two clocks at different places of the
  chunk, the router's after the last instruction timed and the ledger's after the last
  replayed: `ClockInv` has the whole sequence between them, and with it both pop the same AOD.

The premise of `DriverNeverRefused` and `LedgerMirrorsRouter`, no leading block or
`OneQCommon = 0`, is the finding of the run `common` (section 3) and needed for nothing else.

`LargeStreamsProofs` (`ChainsTellTheFiles`, `KilledCompilesResume`, `OnlyKillsOrphan`,
`StreamsImplementTheLog`), for any streams, layers, records, cadence, failures, kills and
resumptions. Power losses happen, and what is claimed of the files and of the log is claimed
for as long as there was none (the run `streams_durable` has what one does). What is on disk
is a prefix of what was written, and what was written is what the layers so far yield;
`Records`, `Written` and `Expected` are recursive functions whose values at a prefix and one
layer further are lemmas. A checkpoint names lengths that are on disk and the chains of exactly
those prefixes, whichever of the two writes a kill falls between; `ResumableLog` sees the
checkpointed layer and the publication.

`TuningPhaseProofs` (`OneOwnerAlways`, `SealedPhaseIsComplete`, `ReceiptsAreKept`,
`ClaimsGoLawfully`), for any schedule, shards, workers, retries and deaths. The premise
`OneOperator` says that at most one operator recovers claims; section 3 has what
happens with two. None of the properties can be had alone. That a worker owns the
trial it works on (`OwnerInv`) fails if an operator may unlink a claim that changed
hands, so `OpInv` says that the claim an operator has found is still in place and its
owner dead for good. That the sealed phase is complete fails if a worker crosses the
seal with a receipt it means to remove: `LockInv` says that whoever is between the lock
and the unlock keeps the promoter out, `ReadInv` that what the promoter has read stays
readable, because a claim would be seen and none can be made. `ReceiptInv` orders
archiving, unlinking and entering.

The second half of the module (`ReceiptsAreEarned`, `PhaseImplementsLedger`) builds on that
invariant under the same premise: who touches a receipt owns its trial, alone, and the
phase is open (`OwnersAreAlone`). That an attempt which is over stays over, and that no
receipt rests on one that runs, needs the numbering of attempts (`AttemptInv`: a new one
has a number no receipt and no other worker has) and where a child's exit may be known
already; `EarnedInv` carries the manifest along with every receipt that is kept. For the
refinement, unlinking and sealing a result are the ledger's `Withdraw` and `Enter` (only
a failure is ever at the unlink, `RetryInv`), sealing the phase is `Close` or, after a
promoter died, nothing, and the schedule is `Publish` because what the promoter has read
of a sealed phase is still what is there (`PromInv`).

`TraceReplayProofs` (`ScorerNeverParts`, `NoGateInTheAir`, `PipelineImplementsTimeline`,
`ReferenceJudgesAlike`: all that the run checks), for any atoms, events and geometry and both
orders; `TraceAssumption` asks that the atoms are finitely many. All steps but the last append one
event of four kinds. `MirrorInv` says that in dependency order the scorer's clocks and
open batch *are* the validator's, without which neither program's guard says anything
about the other. `EndsInv` says that the clocks are past every event they have seen, so
a start that is not before a clock overlaps nothing. For `GatesAtRest`, a gate may come
into the history before or after the load it must keep away from: `HeldInv` says that
an atom which was loaded and not stored since is held, and had its last gate before that
load. A number may come back, so nothing is said of a batch by its number but that the
numbers go from one up (`IdsInv`), that a batch which is over has had a store
(`StoredInv`) and that events know their place in the stream (`IndexInv`).

`ReferenceJudgesAlike` compares what was done in the order of the stream with what is done
after sorting. The invariant is over the whole history: `TurnsInv` says that of two events that
need one thing the later one in the stream starts when the earlier one has ended, and
`ChainInv` that there is a *scene* (where the atoms are, what the AOD carries) before and after
every event, and that each event was let through by the scene it found. Sorting keeps the
order of events that wait for one another (`BoundKeepOrder`; without the first gap that holds
for the AOD in both orders), though not of the others, so the replay of a sorted prefix is in
general in no state the validator was in. What it is in (`Follows`): as far as the AOD goes, the
scene at the place that parts the AOD's events as the prefix does (`Cut`); as far as holding one
atom goes, that at the place that parts the atom's transfers (`CutOf`), which is what a gate
asks for; and the ends it remembers are ends of events it has seen, all of which the
next one had to wait for (`PermittedNext`, `FollowsNext`). Without the second gap a pulse illuminates only what
is at rest, and the induction goes through to the last event, where nothing is carried.
Without the third no batch begins under a number used before (`ReuseShows`), so the
reference is never asked for one that it has put away.

For the score, `ScoreInv` says what every field of the scorer means for the history so far:
counts and sums over the events of a kind (`TimeCounted` and `BatchesCounted` reckon the batch
that is open), the latest end, and for each atom that the closed and the open interval together
have as many instants as something worked on it (`BusyCounted`): since work on an atom comes
in turn, an interval is extended only by one that begins where it ends. That the sum over a
finite set is a number and grows by the weight of a new element is proved in `RecursionLemmas`
(`SummedIsTotal`, `AnyOrder`, `TotalOfOneMore`), and that folding the sorted trace replays one
event after the other is `FoldIsReplay`.

`ResidentPlacerProofs` (`PartitionAlways`, `StreamFollowed`, `ContractKept`,
`LegsStayClean`, `RentIsCounted`, `AuditNeverRefuses`, `ZoneNeverOverfull`: all that the
`placer` run checks), for any circuits, sites, coordinates, capacities and numbers of
repair rounds. `PlacerAssumption` asks that the atoms are finite, storage and seats are apart, gate sites are
pairs of seats, coordinates are integers and the initial mapping puts no two atoms on
one storage site. The argument for `ContractKept` is geometrical: a leg sweeps over the
place where it ends (`ArrivalSweeps`), so atoms that are apart before a clean phase are
apart after it (`CleanKeepsApart`), and the repair ends only when both phases are clean
(`NoIssuesClean`). It carries over to the stream because positions in the registry, the
decisions and the next mapping describe the same places (`SyncInv`, `BoundaryIsBackPhase`),
which needs in turn that a decision is of a kind its atom can take (`PlanInv`: only a
resident is reseated or stays). At the terminal boundary the registry has moved first;
there `SyncInv` says that everybody is where the decisions lead.

Three invariants stand on this one. `RentInv` names the round of a resident's last gate:
only a resident is reseated, so the counter is never started for an atom in storage.
`AuditInv` says what the audit expects in every phase of a round: nothing, when a repair is
to come; the routed layers with the winner's own two mappings (`Promise`), when the winner is
taken as it is. The commit turns that promise into the prefix the next boundary is compared
with. `CapacityInv` counts those that keep a seat without a gate (`Kept`): with two atoms
for each gate (`TwoPerGate`) they fit, because the valve evicts the whole excess or its
whole pool (`ValveFits`), and no remedy of the repair turns a return into a stay or back
(`FixKeepsKind`).

`OnlineCompilerProofs` (`LayersAreSound`, `RoomAlways`, `ChunksHold`, `NoProcessRefused`,
`TraceFollowsCircuit`, `CheckpointsOwnLayers`, `ExposedForAReason`, `CompilesImplementTheLog`:
all that the run checks but the liveness), for any circuits, atoms, pairs, methods, limits and
kills. `CompilerAssumption` asks that a gate of two atoms has two different ones and that
`Longest` is no less than the longest circuit. The module has four parts.

The store. `Stored` is a recursive function, so what it computes is an induction
(`ScanUpTo`, `ScanSound`) whose invariant says of both kinds of layers at once that an atom's
counter is one above the layer of its last counted gate (`Counted`). A row is then counted
into the layer just above the highest of the rows it waits for (`CountOne`): the earliest
there is.

Seats and pairs (`IInv`). Two rows of one dependency layer share no atom
(`LayerDisjoint`), and `LayerInv` says that everything on its way to a pulse is of one layer.
So a gate that is placed, or the atoms it sends home, cannot be those of an earlier gate of
the chunk, and since pairs share no site the new gate's pair is not one of theirs. That room
can be made is `WaitInv`: while the chunk is empty, a gate is put off only if both atoms are at
home and every pair is somebody's; that somebody is none of the deferred gates' atoms and can
go home. The branch that sends one of two waiting atoms home is therefore never reached.

The trace (`LogInv`). `LedgerKept` compares sequences, one for every atom, and says too
little to be kept by itself. `TraceOK` says it of rows: rows that share an atom come in the order of
the circuit and in different events, and with a row the trace has all it waits for. Such a
trace has on every atom a beginning of the circuit (`GatesBegin`, which rests on numbers
taken in ascending order, `AlikeInOrder`), all of it once every row is there; it
keeps this when it is cut (`PrefixOK`) and when rows of the next layer come after it, in any
order (`TraceGrows`): that is why deferring gates does no harm. `ProcessInv`
says which rows are there: those of the layers below, and of the layer under way what is not in
flight. `SavedInv` says that a checkpoint's trace is a beginning of the file, whatever a
kill leaves of it, and has just the rows of its layers.

Who waits (`LitInv`). An atom that stays at a group has a reason in `Waits`: a row in sight
that is not written and not of this group, or is of a layer that is done. The policies look only at CZ
layers, and rows already written can lie in the window. That such a row cannot be of the
layer under way is because the groups of a layer come in ascending order, for an idle atom, and
because an atom has but one gate in a layer, for one that was pulsed.

Only model-checked:

* liveness (`LayerPublished`, `CheckpointedIsPublished`, `StartedIsPublished`, `PhasePublished`)
  and, with it, that the fairness assumed enables what it is stated of, which the prover does
  not support. Every invariant and every action property of a passing run is a theorem.

## 5. What is not modelled

* In `RouteTransition`: coordinates, distances, ghosts and colouring. Any grouping of
  moves into jobs that respects occupied sites is allowed instead. Coordinates appear
  in `ResidentPlacer` and `TraceReplay`, where a property depends on them.
* More than one Rydberg zone: every file in `hardware_spec/` has exactly one. With
  several, the back-phase patch would name only the last gate instruction.
* The placer kind `zac` (M1) of the driver, the original non-resident router, and
  the waypoint plan, which no caller of this path fills.
* The choices of the placer: costs, populations, menus' sizes, forecasts; residency
  pins, the `always_return` ablation and the approximate path for circuits of 5000
  transitions and more.
* Floats, the rolling timing hash, the JSON form of snapshots, what a fork of the
  scheduler costs.
* Events the compilers never write (waits, a store away from its atom).
* In `OnlineCompiler`: costs, storage sites, paths (a path free of ghosts is taken to
  exist), times, hashes, the file formats and `progress.json`; a power loss: like the formal
  compiler's streams its trace is closed but not synced before a checkpoint, which the
  run `streams_durable` is about.
* Hash comparisons of tuning manifests, `--limit`, dry runs, the comparison of rankings
  between the two readings of a promotion (the snapshot check covers it).
* The components marked `not_modelled` in `PROJECT.json`, with the reasons there:
  baselines and adapters outside the resident path, numerical kernels whose states are
  floating point populations, studies and figures without state of their own.

## 6. What could come next

* `BatchOrder`: `_strict_endpoint_precedence_batches` as an algorithm over an abstract
  conflict relation, against "some order exists"; the ghost replay with several AODs
  whose batches overlap in time.
* `LayerSchedule`: ASAP layering and the capacity split against their definition.
* Costs in the exact-current forks, to ask whether the candidate that was cheapest on
  the fork is what the commit charges.
