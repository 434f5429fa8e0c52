---------------------------- MODULE LargeStreams ----------------------------
(***************************************************************************)
(* compile_formal_large_zac: one compile of a large circuit that writes    *)
(* gzip streams stage by stage, checkpoints itself and may be resumed in   *)
(* another process, with the file system it runs on.  What a stage         *)
(* computes is left out (RouteTransition models it); what it writes, to    *)
(* which stream and in which order, is Entries.                            *)
(*                                                                         *)
(* A file is a sequence of chunks: the number of the stage a record came   *)
(* from, or EndOfMember where a gzip member is closed.  Its first          *)
(* synced[f] chunks are on disk, the rest in the page cache.               *)
(***************************************************************************)
EXTENDS Integers, FiniteSets, Sequences, SequencesExt

CONSTANTS
  StreamOrder,    \* the writers, in the order the code opens and closes them
  LastStage,      \* stage_limit
  Entries,        \* Entries[s]: the streams written by stage s, in order; 0 is
                  \* the initial instructions
  EveryStages,    \* checkpoint_every_stages
  ProgressEvery,  \* progress_every
  Interrupts,     \* values of interrupt_after_stages, 0 for None
  MaxErrors, MaxKills, MaxLosses  \* exceptions, killed processes, power losses

Streams == Range(StreamOrder)

ASSUME LargeStreamsAssumption ==
  /\ StreamOrder \in Seq(Streams)
  /\ LastStage \in Nat \ {0}
  /\ EveryStages \in Nat \ {0}
  /\ ProgressEvery \in Nat \ {0}
  /\ Entries \in [0..LastStage -> Seq(Streams)]
  /\ Interrupts \subseteq Nat
  /\ {MaxErrors, MaxKills, MaxLosses} \subseteq Nat

EndOfMember == -1

VARIABLES
  \* the file system
  dir,            \* "absent", "inprogress" or "published": the one directory
  file, synced,   \* its streams
  ckpt,           \* its checkpoint.json
  durable,        \* the checkpoint a power loss may bring back
  \* the process
  pc,             \* where compile_formal_large_zac is, "idle" without a process
  todo,           \* the streams the present step has still to visit
  resuming,       \* the argument resume
  interruptAfter, \* the argument interrupt_after_stages
  stages,         \* stages_completed
  lastSaved,      \* CheckpointCadence.last_completed_stages
  reopen,         \* the argument of save_boundary
  writer,         \* open or not, and the records not yet given to the system
  chain,          \* count and chain_sha256: every record the writer took
  errors, kills, losses

files == <<dir, file, synced, ckpt, durable>>
memory == <<resuming, interruptAfter, stages, lastSaved, reopen>>
faults == <<errors, kills, losses>>
vars == <<files, pc, todo, memory, writer, chain, faults>>

Closed == [open |-> FALSE, buffer |-> <<>>]
NoCheckpoint == [stages |-> -1, size |-> [f \in Streams |-> 0],
                 chain |-> [f \in Streams |-> <<>>]]
HasCheckpoint == ckpt.stages >= 0

\* What a reader of the file finds.
Records(chunks) ==
  LET upTo[i \in 0..Len(chunks)] ==
        IF i = 0 THEN <<>>
        ELSE IF chunks[i] = EndOfMember THEN upTo[i - 1]
        ELSE Append(upTo[i - 1], chunks[i])
  IN upTo[Len(chunks)]

\* What the first k writes of stage s put into f.
Written(f, s, k) ==
  [i \in 1..Cardinality({j \in 1..k : Entries[s][j] = f}) |-> s]

\* What an uninterrupted compile writes to f up to and including stage s.
Expected(f, s) ==
  LET before[t \in 0..(LastStage + 1)] ==
        IF t = 0 THEN <<>>
        ELSE before[t - 1] \o Written(f, t - 1, Len(Entries[t - 1]))
  IN before[s + 1]

-----------------------------------------------------------------------------
Init ==
  /\ dir = "absent"
  /\ file = [f \in Streams |-> <<>>]
  /\ synced = [f \in Streams |-> 0]
  /\ ckpt = NoCheckpoint /\ durable = NoCheckpoint
  /\ pc = "idle" /\ todo = <<>>
  /\ resuming = FALSE /\ interruptAfter = 0
  /\ stages = 0 /\ lastSaved = 0 /\ reopen = FALSE
  /\ writer = [f \in Streams |-> Closed]
  /\ chain = [f \in Streams |-> <<>>]
  /\ errors = 0 /\ kills = 0 /\ losses = 0

Goto(label, visits) == pc' = label /\ todo' = visits

(***************************************************************************)
(* The call.  A fresh compile wants no directory at all, a resume wants    *)
(* one with a checkpoint; any other call raises and changes nothing.       *)
(***************************************************************************)
Invoke(resume, interrupt) ==
  /\ pc = "idle"
  /\ dir # "published"
  /\ IF resume THEN dir = "inprogress" /\ HasCheckpoint ELSE dir = "absent"
  /\ resuming' = resume /\ interruptAfter' = interrupt
  /\ dir' = "inprogress"
  /\ file' = IF resume THEN file ELSE [f \in Streams |-> <<>>]
  /\ synced' = IF resume THEN synced ELSE [f \in Streams |-> 0]
  /\ stages' = IF resume THEN ckpt.stages ELSE 0
  /\ lastSaved' = stages'
  /\ chain' = ckpt.chain
  /\ Goto("open", StreamOrder)
  /\ UNCHANGED <<ckpt, durable, reopen, writer, faults>>

\* _GzipJsonlWriter.resume: shorter than the checkpoint says is an error,
\* longer is cut back and synced; then a new member is begun.
TooShort(f) == Len(file[f]) < ckpt.size[f]

\* Mutant: the file is not cut back to the checkpoint.
ResumeWriterAppending(f) ==
  /\ ~TooShort(f)
  /\ writer' = [writer EXCEPT ![f] = [open |-> TRUE, buffer |-> <<>>]]
  /\ UNCHANGED <<file, synced>>

ResumeWriter(f) ==
  LET size == ckpt.size[f] IN
  /\ ~TooShort(f)
  /\ file' = [file EXCEPT ![f] = SubSeq(@, 1, size)]
  /\ synced' = IF Len(file[f]) = size THEN synced ELSE [synced EXCEPT ![f] = size]
  /\ writer' = [writer EXCEPT ![f] = [open |-> TRUE, buffer |-> <<>>]]

OpenWriter ==
  /\ pc \in {"open", "reopen"} /\ todo # <<>>
  /\ IF resuming \/ pc = "reopen"
     THEN ResumeWriter(Head(todo))
     ELSE /\ writer' = [writer EXCEPT ![Head(todo)] = [open |-> TRUE, buffer |-> <<>>]]
          /\ UNCHANGED <<file, synced>>
  /\ todo' = Tail(todo)
  /\ UNCHANGED <<dir, ckpt, durable, pc, memory, chain, faults>>

\* After the writers: the initial instructions, unless they are there already.
Opened ==
  /\ pc = "open" /\ todo = <<>>
  /\ IF resuming THEN Goto("loop", <<>>) ELSE Goto("initial", Entries[0])
  /\ UNCHANGED <<files, memory, writer, chain, faults>>

\* consume_native and the decision and route writes of one stage.
BeginStage ==
  /\ pc = "loop" /\ stages < LastStage
  /\ Goto("stage", Entries[stages + 1])
  /\ UNCHANGED <<files, memory, writer, chain, faults>>

Write ==
  /\ pc \in {"initial", "stage"} /\ todo # <<>>
  /\ LET f == Head(todo)
         record == IF pc = "initial" THEN 0 ELSE stages + 1
     IN /\ writer' = [writer EXCEPT ![f].buffer = Append(@, record)]
        /\ chain' = [chain EXCEPT ![f] = Append(@, record)]
  /\ todo' = Tail(todo)
  /\ UNCHANGED <<files, pc, memory, faults>>

\* The gzip and file buffers hand bytes to the system whenever they are full.
Spill(f) ==
  /\ pc # "idle"
  /\ writer[f].buffer # <<>>
  /\ file' = [file EXCEPT ![f] = Append(@, Head(writer[f].buffer))]
  /\ writer' = [writer EXCEPT ![f].buffer = Tail(@)]
  /\ UNCHANGED <<dir, synced, ckpt, durable, pc, todo, memory, chain, faults>>

InitialWritten ==
  /\ pc = "initial" /\ todo = <<>>
  /\ Goto("loop", <<>>)
  /\ UNCHANGED <<files, memory, writer, chain, faults>>

StageWritten ==
  /\ pc = "stage" /\ todo = <<>>
  /\ stages' = stages + 1
  /\ Goto("flush", IF stages' % ProgressEvery = 0 THEN StreamOrder ELSE <<>>)
  /\ UNCHANGED <<files, resuming, interruptAfter, lastSaved, reopen, writer, chain, faults>>

\* _GzipJsonlWriter.flush, the only place a stream is synced besides resume.
Flush ==
  /\ pc = "flush" /\ todo # <<>>
  /\ LET f == Head(todo)
         all == file[f] \o writer[f].buffer
     IN /\ file' = [file EXCEPT ![f] = all]
        /\ synced' = [synced EXCEPT ![f] = Len(all)]
        /\ writer' = [writer EXCEPT ![f].buffer = <<>>]
  /\ todo' = Tail(todo)
  /\ UNCHANGED <<dir, ckpt, durable, pc, memory, chain, faults>>

-----------------------------------------------------------------------------
(***************************************************************************)
(* save_boundary.  It is due after enough stages or after enough time,     *)
(* which may be any moment.                                                *)
(***************************************************************************)
SaveBoundary(again) ==
  /\ reopen' = again
  /\ Goto("close", StreamOrder)
  /\ UNCHANGED <<files, resuming, interruptAfter, stages, lastSaved, writer, chain, faults>>

CadenceDue ==
  /\ pc = "flush" /\ todo = <<>>
  /\ SaveBoundary(stages < LastStage)

CadenceNotDue ==
  /\ pc = "flush" /\ todo = <<>>
  /\ stages - lastSaved < EveryStages
  /\ Goto("interrupt", <<>>)
  /\ UNCHANGED <<files, memory, writer, chain, faults>>

\* interrupt_after_stages: save this boundary if it is not, then raise.
SaveForInterrupt ==
  /\ pc = "interrupt"
  /\ stages = interruptAfter /\ lastSaved # stages
  /\ SaveBoundary(TRUE)

Interrupt ==
  /\ pc = "interrupt"
  /\ stages = interruptAfter /\ lastSaved = stages
  /\ Goto("unwind", StreamOrder)
  /\ UNCHANGED <<files, memory, writer, chain, faults>>

NoInterrupt ==
  /\ pc = "interrupt"
  /\ stages # interruptAfter
  /\ Goto("loop", <<>>)
  /\ UNCHANGED <<files, memory, writer, chain, faults>>

\* The final boundary, after the last stage.
SaveFinal ==
  /\ pc = "loop" /\ stages = LastStage /\ lastSaved # stages
  /\ SaveBoundary(FALSE)

\* _GzipJsonlWriter.close: the rest of the buffer and the end of the member.
CloseFile(f) ==
  IF writer[f].open
  THEN /\ file' = [file EXCEPT ![f] = @ \o writer[f].buffer \o <<EndOfMember>>]
       /\ writer' = [writer EXCEPT ![f] = Closed]
  ELSE UNCHANGED <<file, writer>>

CloseWriter ==
  /\ pc \in {"close", "unwind", "exit"} /\ todo # <<>>
  /\ CloseFile(Head(todo))
  /\ todo' = Tail(todo)
  /\ UNCHANGED <<dir, synced, ckpt, durable, pc, memory, chain, faults>>

\* FormalZacCheckpointManager.save: a file aside, synced, then os.replace ...
ReplaceCheckpoint ==
  /\ pc = "close" /\ todo = <<>>
  /\ ckpt' = [stages |-> stages, size |-> [f \in Streams |-> Len(file[f])],
              chain |-> chain]
  /\ Goto("sync", <<>>)
  /\ UNCHANGED <<dir, file, synced, durable, memory, writer, chain, faults>>

\* ... then the directory, if the file system can.
SyncDirectory ==
  /\ pc = "sync"
  /\ \/ durable' = ckpt
     \/ UNCHANGED durable
  /\ lastSaved' = stages
  /\ IF reopen THEN Goto("reopen", StreamOrder) ELSE Goto("interrupt", <<>>)
  /\ UNCHANGED <<dir, file, synced, ckpt, resuming, interruptAfter, stages, reopen,
                 writer, chain, faults>>

Reopened ==
  /\ pc = "reopen" /\ todo = <<>>
  /\ Goto("interrupt", <<>>)
  /\ UNCHANGED <<files, memory, writer, chain, faults>>

-----------------------------------------------------------------------------
\* Mutant: the result is published without its final boundary.
PublishUnsaved ==
  /\ pc = "loop" /\ stages = LastStage
  /\ dir' = "published"
  /\ Goto("exit", StreamOrder)
  /\ UNCHANGED <<file, synced, ckpt, durable, memory, writer, chain, faults>>

(***************************************************************************)
(* The end: the report and the manifest, then the directory is renamed.    *)
(* A compile resumed from its final boundary has nothing left to do and    *)
(* comes here with the writers that the resume opened; they are closed     *)
(* when the function returns.                                              *)
(***************************************************************************)
Publish ==
  /\ pc = "loop" /\ stages = LastStage /\ lastSaved = stages
  /\ dir' = "published"
  /\ Goto("exit", StreamOrder)
  /\ UNCHANGED <<file, synced, ckpt, durable, memory, writer, chain, faults>>

Exit ==
  /\ pc = "exit" /\ todo = <<>>
  /\ Goto("idle", <<>>)
  /\ UNCHANGED <<files, memory, writer, chain, faults>>

\* Mutants: the directory is kept, or removed, whatever happened.
UnwoundKeeping ==
  /\ pc = "unwind" /\ todo = <<>>
  /\ Goto("idle", <<>>)
  /\ UNCHANGED <<files, memory, writer, chain, faults>>

UnwoundRemoving ==
  /\ pc = "unwind" /\ todo = <<>>
  /\ dir' = IF dir = "inprogress" THEN "absent" ELSE dir
  /\ Goto("idle", <<>>)
  /\ UNCHANGED <<file, synced, ckpt, durable, memory, writer, chain, faults>>

\* The except clause: the writers are closed and the directory is removed if
\* it holds no checkpoint.
Unwound ==
  /\ pc = "unwind" /\ todo = <<>>
  /\ dir' = IF dir = "inprogress" /\ ~HasCheckpoint THEN "absent" ELSE dir
  /\ Goto("idle", <<>>)
  /\ UNCHANGED <<file, synced, ckpt, durable, memory, writer, chain, faults>>

\* A stream is shorter than the checkpoint says: ValueError.
RefuseResume ==
  /\ pc \in {"open", "reopen"} /\ todo # <<>>
  /\ resuming \/ pc = "reopen"
  /\ TooShort(Head(todo))
  /\ Goto("unwind", StreamOrder)
  /\ UNCHANGED <<files, memory, writer, chain, faults>>

\* Any exception: a failed stage, a full disk, a Git tree that changed, ^C.
Raise ==
  /\ pc \notin {"idle", "unwind", "exit"}
  /\ errors < MaxErrors
  /\ errors' = errors + 1
  /\ Goto("unwind", StreamOrder)
  /\ UNCHANGED <<files, memory, writer, chain, kills, losses>>

-----------------------------------------------------------------------------
\* The process is gone, and with it everything it had in memory.
Die ==
  /\ Goto("idle", <<>>)
  /\ writer' = [f \in Streams |-> Closed]
  /\ UNCHANGED <<memory, chain>>

Kill ==
  /\ pc # "idle"
  /\ kills < MaxKills
  /\ kills' = kills + 1
  /\ Die
  /\ UNCHANGED <<files, errors, losses>>

\* The machine goes down: of each stream some prefix remains that has at least
\* the synced chunks; a rename that was not synced may or may not have happened.
PowerLoss ==
  /\ dir # "absent"
  /\ losses < MaxLosses
  /\ losses' = losses + 1
  /\ \E kept \in [Streams -> 0..Max({Len(file[f]) : f \in Streams})] :
       /\ \A f \in Streams : kept[f] \in synced[f]..Len(file[f])
       /\ file' = [f \in Streams |-> SubSeq(file[f], 1, kept[f])]
       /\ synced' = kept
  /\ ckpt' \in {ckpt, durable}
  /\ durable' = ckpt'
  /\ dir' \in IF dir = "published" THEN {dir, "inprogress"} ELSE {dir}
  /\ Die
  /\ UNCHANGED <<errors, kills>>

Step ==
  \/ OpenWriter \/ Opened \/ RefuseResume
  \/ InitialWritten \/ BeginStage \/ Write \/ StageWritten \/ Flush
  \/ CadenceDue \/ CadenceNotDue \/ SaveForInterrupt \/ Interrupt \/ NoInterrupt
  \/ SaveFinal \/ CloseWriter \/ ReplaceCheckpoint \/ SyncDirectory \/ Reopened
  \/ Publish \/ Exit \/ Unwound

Next ==
  \/ \E resume \in BOOLEAN, interrupt \in Interrupts : Invoke(resume, interrupt)
  \/ Step
  \/ \E f \in Streams : Spill(f)
  \/ Raise \/ Kill \/ PowerLoss

Spec == Init /\ [][Next]_vars

\* The call is one thread that does not wait, and whoever started the compile
\* resumes it when it stopped.
FairSpec ==
  /\ Spec
  /\ WF_vars(Step)
  /\ WF_vars(Invoke(TRUE, 0))

-----------------------------------------------------------------------------
\* The count and chain hash a writer carries stand for exactly the records of
\* its file and buffer, however often the file was cut back and reopened: a
\* resume never goes on behind a gap or a repeated record.
StreamMatchesChain ==
  \A f \in Streams :
    writer[f].open => Records(file[f]) \o writer[f].buffer = chain[f]

\* "A published checkpoint owns a resumable, complete gzip-member prefix": the
\* files are at least as long as it says, end a member there, and hold up to
\* there what an uninterrupted compile would have written, exactly once.
ResumableCheckpoint ==
  HasCheckpoint =>
    \A f \in Streams :
      LET owned == SubSeq(file[f], 1, ckpt.size[f])
      IN /\ Len(file[f]) >= ckpt.size[f]
         /\ owned[ckpt.size[f]] = EndOfMember
         /\ Records(owned) = ckpt.chain[f]
         /\ ckpt.chain[f] = Expected(f, ckpt.stages)

\* That sentence for the failures of the process alone: after any exceptions,
\* kills and resumes the checkpoint can be resumed from.
ResumableAfterKill == losses = 0 => ResumableCheckpoint

\* A directory that can be neither resumed nor started afresh is left behind
\* only by a process that had no chance to clean up, never by an exception.
OrphanOnlyAfterKill ==
  pc = "idle" /\ dir = "inprogress" /\ ~HasCheckpoint => kills + losses > 0

\* The streams implement the log their reader is promised, as long as the
\* machine does not lose what it was told.
Log == INSTANCE ResumableLog WITH
         Full <- [f \in Streams |-> Expected(f, LastStage)],
         NoResult <- <<>>,
         saved <- ckpt.stages,
         result <- IF dir = "published" THEN [f \in Streams |-> Records(file[f])]
                   ELSE <<>>
ImplementsLog == Log!Init /\ [][losses' = 0 => [Log!Next]_(Log!logVars)]_vars

\* Once there is a checkpoint the compile ends up published, whatever stops it
\* in between short of a power loss: nothing an interrupted process leaves
\* keeps it from resuming.
CheckpointedIsPublished == HasCheckpoint ~> (dir = "published" \/ losses > 0)
=============================================================================
