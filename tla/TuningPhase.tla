------------------------------ MODULE TuningPhase ------------------------------
(***************************************************************************)
(* One phase of a tuning campaign (experiments_v2/tuning_runner.py) with   *)
(* the attempts it runs (experiments_v2/runner.py).                        *)
(*                                                                         *)
(* Workers are processes that go through a schedule of trials.  A trial is *)
(* claimed by a file that names its owner, compiled by a child process,    *)
(* judged, and entered as an immutable receipt.  A promoter reads all the  *)
(* receipts, seals the phase and publishes the ranking and the next        *)
(* schedule.  Operators remove the claims of dead workers.  The processes  *)
(* share nothing but files and a lock file: shared for a worker's claim,   *)
(* exclusive for the promoter's seal, released by the system when its      *)
(* holder dies.  Trials that are left out of a run by --limit, dry runs    *)
(* and runs without --resume change less and are left out.                 *)
(***************************************************************************)
EXTENDS Integers, Sequences, FiniteSets, Functions

CONSTANTS
  Schedule,       \* the trials of the phase, in order
  Workers, Operators,
  Shard,          \* for each worker its trials, in order
  MaxRetryRuns,   \* bound on the runs with --retry-failed
  MaxFaults       \* bound on the processes that die

Trials == Range(Schedule)

ASSUME TuningAssumption ==
  /\ Schedule \in Seq(Trials)
  /\ "nobody" \notin Workers
  /\ Shard \in [Workers -> Seq(Trials)] /\ \A w \in Workers : Shard[w] # <<>>
  /\ MaxRetryRuns \in Nat /\ MaxFaults \in Nat

VARIABLES
  \* files
  receipt,        \* the trial's receipt: which attempt, with which status
  history,        \* the receipts archived
  claim,          \* the trial's claim: the process that holds it
  claimHistory,   \* the claims archived
  manifests,      \* the attempts promoted to their final directories
  sealed, snapshot, report, nextSchedule,
  \* the lock file
  shared, exclusive,
  \* workers
  pc, todo, retrying, life,
  attempt,        \* the attempt a worker is at: its trial and number
  forced,         \* it has been timed out or interrupted
  exit,           \* how its child ended
  running,        \* the attempts whose child processes are alive
  tries,          \* attempts begun per trial
  \* the promoter and the operators
  prom, reading, seen, op,
  retryRuns, faults

files == <<receipt, history, claim, claimHistory, manifests, sealed, snapshot, report,
           nextSchedule>>
locks == <<shared, exclusive>>
control == <<pc, todo, retrying, life>>
children == <<attempt, forced, exit, running, tries>>
workers == <<control, children>>
promoter == <<prom, reading, seen>>
bounds == <<retryRuns, faults>>
vars == <<files, locks, workers, promoter, op, bounds>>

NoReceipt == [try |-> 0, status |-> "none"]
NoClaim == [owner |-> "nobody", life |-> 0]
NoAttempt == [trial |-> "none", try |-> 0]
Nothing == <<>>          \* a file of the whole phase that is not there
NoOp == [pc |-> "idle", trial |-> "none", found |-> NoClaim, digest |-> NoClaim]

Init ==
  /\ receipt = [t \in Trials |-> NoReceipt]
  /\ history = [t \in Trials |-> {}]
  /\ claim = [t \in Trials |-> NoClaim]
  /\ claimHistory = [t \in Trials |-> {}]
  /\ manifests = {}
  /\ sealed = FALSE /\ snapshot = Nothing /\ report = Nothing /\ nextSchedule = Nothing
  /\ shared = {} /\ exclusive = FALSE
  /\ pc = [w \in Workers |-> "idle"]
  /\ todo = [w \in Workers |-> <<>>]
  /\ retrying = [w \in Workers |-> FALSE]
  /\ life = [w \in Workers |-> 0]
  /\ attempt = [w \in Workers |-> NoAttempt]
  /\ forced = [w \in Workers |-> FALSE]
  /\ exit = [w \in Workers |-> "none"]
  /\ running = {}
  /\ tries = [t \in Trials |-> 0]
  /\ prom = "idle" /\ reading = <<>> /\ seen = Nothing
  /\ op = [o \in Operators |-> NoOp]
  /\ retryRuns = 0 /\ faults = 0

-----------------------------------------------------------------------------
(* A worker: run_tuning_phase.                                             *)

Me(w) == [owner |-> w, life |-> life[w]]
Trial(w) == Head(todo[w])
At(w, label) == pc[w] = label /\ todo[w] # <<>>
Goto(w, label) == pc' = [pc EXCEPT ![w] = label]

\* The call raises; what it has claimed stays claimed.
Quit(w) ==
  /\ Goto(w, "idle")
  /\ todo' = [todo EXCEPT ![w] = <<>>]
  /\ retrying' = [retrying EXCEPT ![w] = FALSE]

\* The last trial is followed by the return of the call.
NextTrial(w) ==
  IF Len(todo[w]) = 1 THEN Quit(w)
  ELSE /\ Goto(w, "next")
       /\ todo' = [todo EXCEPT ![w] = Tail(@)]
       /\ UNCHANGED retrying

\* Mutant: a run that retries takes the successes along.
FinalUnlessRetrying(w) == ~retrying[w]

\* A receipt is final for this run unless it is a failure to be retried.
Final(w) == ~retrying[w] \/ receipt[Trial(w)].status = "success"
HasReceipt(t) == receipt[t] # NoReceipt
Unclaim(t) == claim' = [claim EXCEPT ![t] = NoClaim]

\* A sealed phase refuses the run.
Invoke(w, retry) ==
  /\ pc[w] = "idle" /\ ~sealed
  /\ Goto(w, "next")
  /\ todo' = [todo EXCEPT ![w] = Shard[w]]
  /\ retrying' = [retrying EXCEPT ![w] = retry]
  /\ retry => retryRuns < MaxRetryRuns
  /\ retryRuns' = IF retry THEN retryRuns + 1 ELSE retryRuns
  /\ UNCHANGED <<files, locks, life, children, promoter, op, faults>>

Look(w) ==
  /\ At(w, "next")
  /\ IF HasReceipt(Trial(w)) /\ claim[Trial(w)] # NoClaim THEN Quit(w)
     ELSE IF HasReceipt(Trial(w)) /\ Final(w) THEN NextTrial(w)
     ELSE Goto(w, "lock") /\ UNCHANGED <<todo, retrying>>
  /\ UNCHANGED <<files, locks, life, children, promoter, op, bounds>>

\* flock, and the phase must still be open.
LockShared(w) ==
  /\ At(w, "lock") /\ ~exclusive
  /\ IF sealed
     THEN Quit(w) /\ UNCHANGED shared
     ELSE Goto(w, "claim") /\ shared' = shared \cup {w} /\ UNCHANGED <<todo, retrying>>
  /\ UNCHANGED <<files, exclusive, life, children, promoter, op, bounds>>

\* Mutant: a claim that is there is taken over.
AcquireClaimAnyway(w) ==
  /\ At(w, "claim")
  /\ claim' = [claim EXCEPT ![Trial(w)] = Me(w)]
  /\ Goto(w, "recheck")
  /\ UNCHANGED <<receipt, history, claimHistory, manifests, sealed, snapshot, report,
                 nextSchedule, locks, todo, retrying, life, children, promoter, op, bounds>>

\* _acquire_claim: a hard link, which does not replace; then the phase must
\* be open, or the claim is given back.
AcquireClaim(w) ==
  /\ At(w, "claim")
  /\ IF claim[Trial(w)] # NoClaim
     THEN Quit(w) /\ shared' = shared \ {w} /\ UNCHANGED claim
     ELSE /\ claim' = [claim EXCEPT ![Trial(w)] = Me(w)]
          /\ Goto(w, "recheck")
          /\ UNCHANGED <<todo, retrying, shared>>
  /\ UNCHANGED <<receipt, history, claimHistory, manifests, sealed, snapshot, report,
                 nextSchedule, exclusive, life, children, promoter, op, bounds>>

Unlock(w) ==
  /\ At(w, "recheck")
  /\ shared' = shared \ {w}
  /\ IF sealed
     THEN Quit(w) /\ Unclaim(Trial(w))
     ELSE Goto(w, "settle") /\ UNCHANGED <<todo, retrying, claim>>
  /\ UNCHANGED <<receipt, history, claimHistory, manifests, sealed, snapshot, report,
                 nextSchedule, exclusive, life, children, promoter, op, bounds>>

Mine(w) == claim[Trial(w)] = Me(w)

\* _release_claim refuses a claim that is not its own.
GiveBack(w) == IF Mine(w) THEN Unclaim(Trial(w)) /\ NextTrial(w)
               ELSE Quit(w) /\ UNCHANGED claim

\* Mutant: the failed receipt is not archived before it goes.
SettleNoArchive(w) ==
  /\ At(w, "settle")
  /\ IF HasReceipt(Trial(w)) /\ Final(w) THEN GiveBack(w)
     ELSE /\ Goto(w, IF HasReceipt(Trial(w)) THEN "unlink" ELSE "spawn")
          /\ UNCHANGED <<claim, todo, retrying>>
  /\ UNCHANGED <<receipt, history, claimHistory, manifests, sealed, snapshot, report,
                 nextSchedule, locks, life, children, promoter, op, bounds>>

\* The receipt may have come between the look and the claim: it wins.
Settle(w) ==
  /\ At(w, "settle")
  /\ IF HasReceipt(Trial(w)) /\ Final(w) THEN GiveBack(w) /\ UNCHANGED history
     ELSE IF HasReceipt(Trial(w))
     THEN /\ history' = [history EXCEPT ![Trial(w)] = @ \cup {receipt[Trial(w)]}]
          /\ Goto(w, "unlink")
          /\ UNCHANGED <<claim, todo, retrying>>
     ELSE Goto(w, "spawn") /\ UNCHANGED <<claim, todo, retrying, history>>
  /\ UNCHANGED <<receipt, claimHistory, manifests, sealed, snapshot, report,
                 nextSchedule, locks, life, children, promoter, op, bounds>>

\* The second half of _archive_immutable_file.
UnlinkReceipt(w) ==
  /\ At(w, "unlink")
  /\ receipt' = [receipt EXCEPT ![Trial(w)] = NoReceipt]
  /\ Goto(w, "spawn")
  /\ UNCHANGED <<history, claim, claimHistory, manifests, sealed, snapshot, report,
                 nextSchedule, locks, todo, retrying, life, children, promoter, op, bounds>>

(* run_attempt.                                                            *)

\* A new run id and private directory, a child in a session of its own.
Spawn(w) ==
  /\ At(w, "spawn")
  /\ tries' = [tries EXCEPT ![Trial(w)] = @ + 1]
  /\ attempt' = [attempt EXCEPT ![w] = [trial |-> Trial(w), try |-> tries'[Trial(w)]]]
  /\ running' = running \cup {attempt'[w]}
  /\ Goto(w, "poll")
  /\ UNCHANGED <<files, locks, todo, retrying, life, forced, exit, promoter, op, bounds>>

\* The child ends by itself, well or not, whenever it likes.
ChildExit(w) ==
  /\ attempt[w] \in running
  /\ running' = running \ {attempt[w]}
  /\ \E how \in {"ok", "bad"} : exit' = [exit EXCEPT ![w] = how]
  /\ UNCHANGED <<files, locks, control, attempt, forced, tries, promoter, op, bounds>>

\* The deadline, the memory limit or an exception, at a poll that saw the
\* child alive; it may end before the signal arrives.
ForceStop(w) ==
  /\ At(w, "poll") /\ exit[w] = "none"
  /\ forced' = [forced EXCEPT ![w] = TRUE]
  /\ Goto(w, "terminate")
  /\ UNCHANGED <<files, locks, todo, retrying, life, attempt, exit, running, tries,
                 promoter, op, bounds>>

\* Mutant: nobody waits for the child that was signalled.
TerminateGroupNoWait(w) ==
  /\ At(w, "terminate")
  /\ Goto(w, "judge")
  /\ UNCHANGED <<files, locks, todo, retrying, life, children, promoter, op, bounds>>

\* SIGTERM, two seconds, SIGKILL, wait.
TerminateGroup(w) ==
  /\ At(w, "terminate")
  /\ running' = running \ {attempt[w]}
  /\ exit' = [exit EXCEPT ![w] = IF @ = "none" THEN "bad" ELSE @]
  /\ Goto(w, "judge")
  /\ UNCHANGED <<files, locks, todo, retrying, life, attempt, forced, tries,
                 promoter, op, bounds>>

\* Mutant: the exit code alone decides.
VerdictsOfExit(w) == IF exit[w] = "ok" THEN {"success", "failed"} ELSE {"failed"}

\* A forced status stands; an exit code of zero still needs the verifier, the
\* scorer and the protocol checks.
Verdicts(w) == IF ~forced[w] /\ exit[w] = "ok" THEN {"success", "failed"} ELSE {"failed"}

\* A poll saw the child's end or the child was terminated; the manifest is
\* written and the directory renamed to its final name.  Whether the status is
\* one that the child's end bears out is not in the file: it is noted here.
Promote(w) ==
  /\ At(w, "judge") \/ (At(w, "poll") /\ exit[w] # "none")
  /\ \E v \in Verdicts(w) :
       manifests' = manifests \cup
         {[attempt |-> attempt[w], status |-> v,
           earned |-> v = "success" => ~forced[w] /\ exit[w] = "ok"]}
  /\ exit' = [exit EXCEPT ![w] = "none"]
  /\ forced' = [forced EXCEPT ![w] = FALSE]
  /\ Goto(w, "seal")
  /\ UNCHANGED <<receipt, history, claim, claimHistory, sealed, snapshot, report,
                 nextSchedule, locks, todo, retrying, life, attempt, running, tries,
                 promoter, op, bounds>>

\* seal_trial_result: created, never replaced.
SealResult(w) ==
  /\ At(w, "seal")
  /\ IF HasReceipt(Trial(w)) THEN Quit(w) /\ UNCHANGED receipt
     ELSE /\ \E m \in manifests :
               /\ m.attempt = attempt[w]
               /\ receipt' = [receipt EXCEPT ![Trial(w)] =
                                [try |-> attempt[w].try, status |-> m.status]]
          /\ Goto(w, "release") /\ UNCHANGED <<todo, retrying>>
  /\ attempt' = [attempt EXCEPT ![w] = NoAttempt]
  /\ UNCHANGED <<history, claim, claimHistory, manifests, sealed, snapshot, report,
                 nextSchedule, locks, life, forced, exit, running, tries, promoter, op,
                 bounds>>

Release(w) ==
  /\ At(w, "release")
  /\ GiveBack(w)
  /\ UNCHANGED <<receipt, history, claimHistory, manifests, sealed, snapshot, report,
                 nextSchedule, locks, life, children, promoter, op, bounds>>

\* The process is killed, or it raises with its claim in place.  Its child is
\* in another session and may go on.
Die(w) ==
  /\ pc[w] # "idle" /\ faults < MaxFaults
  /\ faults' = faults + 1
  /\ life' = [life EXCEPT ![w] = @ + 1]
  /\ Quit(w)
  /\ shared' = shared \ {w}
  /\ attempt' = [attempt EXCEPT ![w] = NoAttempt]
  /\ forced' = [forced EXCEPT ![w] = FALSE] /\ exit' = [exit EXCEPT ![w] = "none"]
  /\ UNCHANGED <<files, exclusive, running, tries, promoter, op, retryRuns>>

Work(w) ==
  \/ Look(w) \/ AcquireClaim(w) \/ Unlock(w) \/ Settle(w)
  \/ UnlinkReceipt(w) \/ Spawn(w) \/ TerminateGroup(w)
  \/ Promote(w) \/ SealResult(w) \/ Release(w)

-----------------------------------------------------------------------------
(* The promoter: promote_tuning_phase.                                     *)

Results == [t \in Trials |-> receipt[t]]
NothingRead == [t \in Trials |-> NoReceipt]

LockExclusive ==
  /\ prom = "idle" /\ nextSchedule = Nothing
  /\ ~exclusive /\ shared = {}
  /\ exclusive' = TRUE
  /\ prom' = "preflight" /\ reading' = Schedule /\ seen' = NothingRead
  /\ UNCHANGED <<files, shared, workers, op, bounds>>

\* Mutant: an exception leaves the lock taken.
GiveUpLocked == prom' = "idle" /\ reading' = <<>> /\ seen' = Nothing /\ UNCHANGED exclusive

\* An exception releases the lock.
GiveUp == prom' = "idle" /\ exclusive' = FALSE /\ reading' = <<>> /\ seen' = Nothing

Readable(t) == HasReceipt(t) /\ claim[t] = NoClaim

\* Mutant: a trial that is being retried counts with the result it has.
ReadTrialClaimed ==
  /\ prom \in {"preflight", "reload"} /\ reading # <<>>
  /\ LET t == Head(reading) IN
     IF ~HasReceipt(t) THEN GiveUp
     ELSE /\ reading' = Tail(reading)
          /\ seen' = [seen EXCEPT ![t] = receipt[t]]
          /\ UNCHANGED <<prom, exclusive>>
  /\ UNCHANGED <<files, shared, workers, op, bounds>>

\* load_phase_trials goes through the schedule.  The promoter also compares
\* the rankings of the two readings, which the snapshot's check covers.
ReadTrial ==
  /\ prom \in {"preflight", "reload"} /\ reading # <<>>
  /\ LET t == Head(reading) IN
     IF ~Readable(t) THEN GiveUp
     ELSE /\ reading' = Tail(reading)
          /\ seen' = [seen EXCEPT ![t] = receipt[t]]
          /\ UNCHANGED <<prom, exclusive>>
  /\ UNCHANGED <<files, shared, workers, op, bounds>>

SealPhase ==
  /\ prom = "preflight" /\ reading = <<>>
  /\ sealed' = TRUE
  /\ prom' = "reload" /\ reading' = Schedule
  /\ UNCHANGED <<receipt, history, claim, claimHistory, manifests, snapshot, report,
                 nextSchedule, locks, workers, seen, op, bounds>>

\* The snapshot is created, or proved identical, and the lock released.
TakeSnapshot ==
  /\ prom = "reload" /\ reading = <<>>
  /\ IF \A t \in Trials : Readable(t) /\ snapshot \in {Nothing, Results}
     THEN snapshot' = Results /\ prom' = "report" /\ exclusive' = FALSE /\ UNCHANGED <<reading, seen>>
     ELSE GiveUp /\ UNCHANGED snapshot
  /\ UNCHANGED <<receipt, history, claim, claimHistory, manifests, sealed, report,
                 nextSchedule, shared, workers, op, bounds>>

\* _validate_receipt_snapshot.
Unchanged == \A t \in Trials : Readable(t) /\ receipt[t] = snapshot[t]

\* The leaderboard is computed from what was read, the snapshot checked, and
\* the report created or proved identical.
PublishReport ==
  /\ prom = "report"
  /\ IF Unchanged /\ report \in {Nothing, seen}
     THEN report' = seen /\ prom' = "schedule" /\ UNCHANGED <<reading, seen, exclusive>>
     ELSE GiveUp /\ UNCHANGED report
  /\ UNCHANGED <<receipt, history, claim, claimHistory, manifests, sealed, snapshot,
                 nextSchedule, shared, workers, op, bounds>>

PublishSchedule ==
  /\ prom = "schedule"
  /\ IF Unchanged THEN nextSchedule' = seen ELSE UNCHANGED nextSchedule
  /\ GiveUp
  /\ UNCHANGED <<receipt, history, claim, claimHistory, manifests, sealed, snapshot,
                 report, shared, workers, op, bounds>>

PromoterDies ==
  /\ prom # "idle" /\ faults < MaxFaults
  /\ faults' = faults + 1
  /\ GiveUp
  /\ UNCHANGED <<files, shared, workers, op, retryRuns>>

Promotion ==
  \/ ReadTrial \/ SealPhase \/ TakeSnapshot \/ PublishReport \/ PublishSchedule

-----------------------------------------------------------------------------
(* An operator: recover_tuning_claim with _archive_immutable_file.         *)

\* A process that ended leaves its pid to nobody.
Alive(c) == \E w \in Workers : c = Me(w) /\ pc[w] # "idle"

Latest(t) == CHOOSE r \in history[t] : \A h \in history[t] : h.try <= r.try

OpGoto(o, rec) == op' = [op EXCEPT ![o] = rec]

\* Mutant: nobody asks whether the owner is alive.
OpCheckAnyOwner(o, t) ==
  /\ op[o].pc = "idle" /\ claim[t] # NoClaim
  /\ OpGoto(o, [pc |-> "link", trial |-> t, found |-> claim[t], digest |-> NoClaim])
  /\ UNCHANGED <<files, locks, workers, promoter, bounds>>

\* A claim of a dead owner; the receipt that a retry removed from a sealed
\* phase is restored first.
OpCheck(o, t) ==
  /\ op[o].pc = "idle" /\ claim[t] # NoClaim /\ ~Alive(claim[t])
  /\ sealed /\ ~HasReceipt(t) => history[t] # {}
  /\ receipt' = IF sealed /\ ~HasReceipt(t) THEN [receipt EXCEPT ![t] = Latest(t)]
                ELSE receipt
  /\ OpGoto(o, [pc |-> "link", trial |-> t, found |-> claim[t], digest |-> NoClaim])
  /\ UNCHANGED <<history, claim, claimHistory, manifests, sealed, snapshot, report,
                 nextSchedule, locks, workers, promoter, bounds>>

\* The archive is named after the claim that was read; it must not hold
\* another one.
OpLink(o) ==
  /\ op[o].pc = "link"
  /\ LET now == claim[op[o].trial] IN
     IF now = NoClaim \/ (op[o].found \in claimHistory[op[o].trial] /\ now # op[o].found)
     THEN OpGoto(o, NoOp) /\ UNCHANGED claimHistory
     ELSE /\ claimHistory' = [claimHistory EXCEPT ![op[o].trial] = @ \cup {now}]
          /\ OpGoto(o, [op[o] EXCEPT !.pc = "confirm", !.digest = now])
  /\ UNCHANGED <<receipt, history, claim, manifests, sealed, snapshot, report,
                 nextSchedule, locks, workers, promoter, bounds>>

OpConfirm(o) ==
  /\ op[o].pc = "confirm"
  /\ OpGoto(o, IF claim[op[o].trial] = op[o].digest THEN [op[o] EXCEPT !.pc = "unlink"]
               ELSE NoOp)
  /\ UNCHANGED <<files, locks, workers, promoter, bounds>>

OpUnlink(o) ==
  /\ op[o].pc = "unlink"
  /\ Unclaim(op[o].trial)
  /\ OpGoto(o, NoOp)
  /\ UNCHANGED <<receipt, history, claimHistory, manifests, sealed, snapshot, report,
                 nextSchedule, locks, workers, promoter, bounds>>

Recovery(o) ==
  \/ \E t \in Trials : OpCheck(o, t)
  \/ OpLink(o) \/ OpConfirm(o) \/ OpUnlink(o)

Next ==
  \/ \E w \in Workers :
       \/ \E retry \in BOOLEAN : Invoke(w, retry)
       \/ Work(w) \/ LockShared(w) \/ ChildExit(w) \/ ForceStop(w) \/ Die(w)
  \/ LockExclusive \/ Promotion \/ PromoterDies
  \/ \E o \in Operators : Recovery(o)

Spec == Init /\ [][Next]_vars

\* Somebody starts the workers and the promotion again and again and recovers
\* what is stale; the deadline ends every child; flock is granted to whoever
\* asks often enough.
Fairness ==
  /\ \A w \in Workers :
       /\ WF_vars(Invoke(w, FALSE)) /\ WF_vars(Work(w)) /\ WF_vars(ForceStop(w))
       /\ SF_vars(LockShared(w))
  /\ SF_vars(LockExclusive) /\ WF_vars(Promotion)
  /\ \A o \in Operators : WF_vars(Recovery(o))

FairSpec == Spec /\ Fairness

-----------------------------------------------------------------------------
(* Properties.                                                             *)

\* From its claim to its release a worker owns the trial it works on, so no two
\* processes attempt, archive or enter the same trial.
Owning == {"recheck", "settle", "unlink", "spawn", "poll", "terminate", "judge", "seal",
           "release"}
OneOwner == \A w \in Workers : pc[w] \in Owning => Mine(w)

\* A sealed phase has every receipt: the handshake on the lock
\* leaves no worker that crossed the seal with a retry in its hands.
SealedIsComplete == sealed => \A t \in Trials : Readable(t)

\* A receipt rests on the manifest of an attempt whose child is over, and a
\* success on a child that ended by itself with exit code zero: one that ended
\* well after it was signalled does not count.
ReceiptIsEarned ==
  \A t \in Trials : \A r \in history[t] \cup ({receipt[t]} \ {NoReceipt}) :
    LET tried == [trial |-> t, try |-> r.try] IN
    /\ tried \notin running
    /\ \E m \in manifests :
         m.attempt = tried /\ m.status = r.status /\ m.earned

\* A receipt leaves its place only when the history has it, and the history
\* forgets nothing, whatever dies between the link and the unlink.
NothingLost ==
  [][\A t \in Trials :
       /\ history[t] \subseteq history'[t]
       /\ HasReceipt(t) /\ receipt'[t] # receipt[t] => receipt[t] \in history'[t]]_vars

\* A live claim is removed by its owner alone, at the recheck, the settling or
\* the release; the claim of a dead owner goes into the archive before it goes.
ClaimsAreHonoured ==
  [][\A t \in Trials :
       claim[t] # NoClaim /\ claim'[t] # claim[t] =>
         IF Alive(claim[t])
         THEN \E w \in Workers : claim[t] = Me(w) /\ pc'[w] # pc[w]
         ELSE claim[t] \in claimHistory'[t]]_vars

\* The phase implements the ledger of results: nothing changes once it is
\* sealed, only failures are withdrawn, and the next schedule is built on
\* exactly the receipts of the sealed phase.
Outcomes == [try : Nat, status : {"success", "failed"}]
Ledger == INSTANCE ResultLedger WITH
  Results <- Outcomes, NoResult <- NoReceipt, Unpublished <- Nothing,
  Failed <- {r \in Outcomes : r.status = "failed"},
  entry <- receipt, closed <- sealed, published <- nextSchedule
ImplementsLedger == Ledger!Init /\ [][Ledger!Next]_<<receipt, sealed, nextSchedule>>

\* In spite of deaths, retries and promotions that come too early the phase is
\* sealed and the next schedule published.
PhasePublished == <>(nextSchedule # Nothing)
=============================================================================
