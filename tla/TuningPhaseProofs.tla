--------------------------- MODULE TuningPhaseProofs ---------------------------
(***************************************************************************)
(* Proofs about a tuning phase, for any schedule, any workers on any       *)
(* shards, and any number of retries and deaths, as long as there is at    *)
(* most one operator who recovers claims.                                  *)
(***************************************************************************)
EXTENDS TuningPhase, SequenceTheorems, TLAPS

OneOperator == \A o1, o2 \in Operators : o1 = o2

Processes == [owner : Workers \cup {"nobody"}, life : Nat]
Recoveries == [pc : {"idle", "link", "confirm", "unlink"}, trial : Trials \cup {"none"},
               found : Processes, digest : Processes]

ShapeInv ==
  /\ DOMAIN receipt = Trials /\ DOMAIN history = Trials /\ DOMAIN pc = Workers
  /\ DOMAIN claimHistory = Trials
  /\ claim \in [Trials -> Processes]
  /\ op \in [Operators -> Recoveries]
  /\ todo \in [Workers -> Seq(Trials)] /\ life \in [Workers -> Nat]
  /\ \A w \in Workers : pc[w] # "idle" => todo[w] # <<>>

\* A claim is held by exactly the process it names, if that is alive.
OwnerInv ==
  /\ \A w \in Workers : pc[w] \in Owning => claim[Trial(w)] = Me(w)
  /\ \A w \in Workers, t \in Trials :
       claim[t] = Me(w) => pc[w] \in Owning /\ Trial(w) = t
  /\ \A t \in Trials : claim[t] # NoClaim =>
       claim[t].owner \in Workers /\ claim[t].life \in 0..life[claim[t].owner]

\* Who is between the lock and the unlock holds the lock, and the phase is open.
LockInv ==
  /\ \A w \in Workers : pc[w] \in {"claim", "recheck"} => w \in shared /\ ~sealed
  /\ prom \in {"preflight", "reload"} => shared = {}
  /\ exclusive => shared = {}
  /\ prom \in {"preflight", "reload"} => exclusive

\* A worker archives before it unlinks and enters only where nothing is.
ReceiptInv ==
  \A w \in Workers :
    /\ pc[w] = "unlink" => receipt[Trial(w)] \in history[Trial(w)]
    /\ pc[w] \in {"spawn", "poll", "terminate", "judge", "seal"} => ~HasReceipt(Trial(w))

\* What the promoter has read, and all that is sealed, stays readable.
ReadInv ==
  /\ reading \in Seq(Trials)
  /\ prom = "preflight" => \A t \in Trials : Readable(t) \/ t \in Range(reading)
  /\ sealed => \A t \in Trials : Readable(t)

\* An operator's claim is still in its place, and its owner cannot come back.
OpInv ==
  \A o \in Operators : op[o].pc # "idle" =>
    LET c == op[o].found IN
    /\ op[o].trial \in Trials /\ c # NoClaim /\ claim[op[o].trial] = c
    /\ c.life < life[c.owner]
    /\ op[o].pc \in {"confirm", "unlink"} => c \in claimHistory[op[o].trial]

IInv == ShapeInv /\ OwnerInv /\ LockInv /\ ReceiptInv /\ ReadInv /\ OpInv

-----------------------------------------------------------------------------
(* What a worker's step may do to the state of the invariant.              *)

OnlyMoves(w) ==
  /\ DOMAIN pc' = Workers /\ todo' \in [Workers -> Seq(Trials)]
  /\ \A v \in Workers \ {w} : pc'[v] = pc[v] /\ todo'[v] = todo[v]
  /\ pc'[w] # "idle" => todo'[w] # <<>>

KeepsClaims(w) ==
  /\ claim' = claim
  /\ pc[w] \in Owning <=> pc'[w] \in Owning
  /\ pc[w] \in Owning => todo'[w] = todo[w]

TakesClaim(w) ==
  /\ pc[w] = "claim" /\ pc'[w] = "recheck" /\ todo[w] # <<>> /\ todo'[w] = todo[w]
  /\ claim[Trial(w)] = NoClaim
  /\ claim' = [claim EXCEPT ![Trial(w)] = Me(w)]

GivesClaim(w) ==
  /\ pc[w] \in Owning /\ pc'[w] \notin Owning
  /\ claim' = [claim EXCEPT ![Trial(w)] = NoClaim]

\* What is withdrawn has been archived, and the archive only grows.
Archives(t) ==
  /\ history[t] \subseteq history'[t]
  /\ HasReceipt(t) /\ receipt'[t] # receipt[t] => receipt[t] \in history'[t]

KeepsReceipts(w) ==
  /\ DOMAIN receipt' = Trials /\ DOMAIN history' = Trials
  /\ \A t \in Trials : Archives(t)
  /\ pc[w] \notin Owning => receipt' = receipt /\ history' = history
  /\ \A t \in Trials : pc[w] \in Owning /\ t # Trial(w) =>
       receipt'[t] = receipt[t] /\ history'[t] = history[t]
  /\ pc'[w] = "unlink" => receipt'[Head(todo'[w])] \in history'[Head(todo'[w])]
  /\ pc'[w] \in {"spawn", "poll", "terminate", "judge", "seal"} =>
       receipt'[Head(todo'[w])] = NoReceipt

KeepsLock(w) ==
  /\ shared' \subseteq shared \cup {w} /\ shared \subseteq shared' \cup {w}
  /\ exclusive => shared' = {}
  /\ pc'[w] \in {"claim", "recheck"} => w \in shared' /\ ~sealed

Lawful(w) ==
  /\ OnlyMoves(w)
  /\ life' = life /\ op' = op /\ sealed' = sealed /\ claimHistory' = claimHistory
  /\ prom' = prom /\ reading' = reading /\ exclusive' = exclusive
  /\ KeepsClaims(w) \/ TakesClaim(w) \/ GivesClaim(w)
  /\ KeepsReceipts(w) /\ KeepsLock(w)

USE DEF Trial, At, Me, Owning, HasReceipt, Readable, Mine, Archives

LEMMA NoneTyped == NoClaim \in Processes /\ NoOp \in Recoveries
<1>1. NoClaim \in Processes
  BY DEF NoClaim, Processes
<1> QED BY <1>1 DEF NoOp, Recoveries

LEMMA InitInv == Init => IInv
<1> SUFFICES ASSUME Init PROVE IInv
  OBVIOUS
<1> USE TuningAssumption
<1>1. ShapeInv
  <2>1. \A w \in Workers : todo[w] = <<>> /\ pc[w] = "idle" /\ life[w] = 0
    BY DEF Init
  <2>2. claim \in [Trials -> Processes] /\ op \in [Operators -> Recoveries]
    BY NoneTyped DEF Init
  <2>3. <<>> \in Seq(Trials)
    BY EmptySeq
  <2> QED BY <2>1, <2>2, <2>3 DEF Init, ShapeInv
<1>2. OwnerInv
  BY DEF Init, OwnerInv, NoClaim
<1>3. LockInv /\ ReceiptInv /\ ReadInv /\ OpInv
  BY DEF Init, LockInv, ReceiptInv, ReadInv, OpInv, NoOp
<1> QED BY <1>1, <1>2, <1>3 DEF IInv

(* A non-empty sequence is its head and what is in its tail.               *)
LEMMA HeadTail ==
  ASSUME NEW S, NEW s \in Seq(S), s # <<>>
  PROVE  /\ Head(s) \in S /\ Tail(s) \in Seq(S)
         /\ Range(s) = {Head(s)} \cup Range(Tail(s))
         /\ Len(s) # 1 => Tail(s) # <<>>
<1>1. Head(s) \in S /\ Tail(s) \in Seq(S) /\ (Len(s) # 1 => Tail(s) # <<>>)
  <2>1. Head(s) \in S /\ Tail(s) \in Seq(S) /\ Len(Tail(s)) = Len(s) - 1
    BY HeadTailProperties
  <2>2. Len(s) \in Nat \ {0}
    BY EmptySeq
  <2>3. Len(s) # 1 => Len(Tail(s)) # 0
    BY <2>1, <2>2
  <2> QED BY <2>1, <2>3, EmptySeq
<1>2. ASSUME NEW i \in DOMAIN s PROVE s[i] \in {Head(s)} \cup Range(Tail(s))
  <2>1. CASE i = 1
    BY <2>1
  <2>2. CASE i # 1
    <3>1. i - 1 \in DOMAIN Tail(s) /\ Tail(s)[i - 1] = s[i]
      BY <2>2
    <3> QED BY <3>1 DEF Range
  <2> QED BY <2>1, <2>2
<1>3. ASSUME NEW i \in DOMAIN Tail(s) PROVE Tail(s)[i] \in Range(s)
  <2>1. i + 1 \in DOMAIN s /\ s[i + 1] = Tail(s)[i]
    OBVIOUS
  <2> QED BY <2>1 DEF Range
<1>4. Head(s) \in Range(s)
  <2>1. 1 \in DOMAIN s /\ s[1] = Head(s)
    OBVIOUS
  <2> QED BY <2>1 DEF Range
<1> QED BY <1>1, <1>2, <1>3, <1>4 DEF Range

(* The trial a worker is at is a trial of the phase.                       *)
LEMMA TrialOf ==
  ASSUME ShapeInv, NEW w \in Workers, todo[w] # <<>>
  PROVE  Trial(w) \in Trials
BY HeadTail DEF ShapeInv

LEMMA LawfulStep ==
  ASSUME IInv, NEW w \in Workers, Lawful(w)
  PROVE  IInv'
<1> USE DEF IInv, Lawful
<1>0. pc[w] \in Owning => todo[w] # <<>> /\ Trial(w) \in Trials /\ claim[Trial(w)] = Me(w)
  BY TrialOf DEF ShapeInv, OwnerInv
<1>1. ShapeInv'
  <2>1. Me(w) \in Processes /\ NoClaim \in Processes
    BY DEF ShapeInv, Processes, NoClaim
  <2> QED BY <2>1 DEF ShapeInv, OnlyMoves, KeepsReceipts, KeepsClaims, TakesClaim, GivesClaim
<1>2. OwnerInv'
  <2>1. CASE KeepsClaims(w)
    <3>0. ASSUME NEW v \in Workers
          PROVE  /\ pc[v] \in Owning <=> pc'[v] \in Owning
                 /\ pc[v] \in Owning => todo'[v] = todo[v]
      BY <2>1 DEF OnlyMoves, KeepsClaims
    <3>1. ASSUME NEW v \in Workers, pc'[v] \in Owning PROVE claim'[Trial(v)'] = Me(v)
      <4>1. pc[v] \in Owning /\ todo'[v] = todo[v]
        BY <3>0, <3>1
      <4>2. claim[Trial(v)] = Me(v)
        BY <4>1 DEF OwnerInv
      <4> QED BY <2>1, <4>1, <4>2 DEF KeepsClaims
    <3>2. ASSUME NEW v \in Workers, NEW t \in Trials, claim'[t] = Me(v)
          PROVE  (pc[v] \in Owning /\ Trial(v) = t)'
      <4>1. pc[v] \in Owning /\ Trial(v) = t
        BY <2>1, <3>2 DEF OwnerInv, KeepsClaims
      <4> QED BY <3>0, <4>1
    <3>3. \A t \in Trials : (claim[t] # NoClaim)' =>
            (claim[t].owner \in Workers /\ claim[t].life \in 0..life[claim[t].owner])'
      BY <2>1 DEF OwnerInv, KeepsClaims
    <3> QED BY <3>1, <3>2, <3>3 DEF OwnerInv
  <2>2. CASE TakesClaim(w)
    <3>1. Trial(w) \in Trials /\ pc[w] \notin Owning
      BY <2>2, TrialOf DEF TakesClaim
    <3>2. ASSUME NEW v \in Workers, NEW t \in Trials
          PROVE  (claim[t] = Me(v))' <=> claim[t] = Me(v) \/ (v = w /\ t = Trial(w))
      BY <2>2, <3>1, TuningAssumption DEF ShapeInv, TakesClaim, NoClaim
    <3>3. ASSUME NEW v \in Workers PROVE (pc[v] \in Owning)' => (claim[Trial(v)] = Me(v))'
      <4>1. CASE v = w
        BY <2>2, <3>1, <3>2, <4>1 DEF TakesClaim
      <4>2. CASE v # w
        <5>1. (pc[v] \in Owning)' => pc[v] \in Owning /\ todo'[v] = todo[v] /\ Trial(v) \in Trials
          BY <4>2, TrialOf DEF ShapeInv, OnlyMoves
        <5> QED BY <3>2, <5>1 DEF OwnerInv
      <4> QED BY <4>1, <4>2
    <3>4. ASSUME NEW v \in Workers, NEW t \in Trials, (claim[t] = Me(v))'
          PROVE  (pc[v] \in Owning /\ Trial(v) = t)'
      <4>1. CASE v = w /\ t = Trial(w)
        BY <2>2, <4>1 DEF TakesClaim
      <4>2. CASE claim[t] = Me(v)
        <5>1. pc[v] \in Owning /\ Trial(v) = t
          BY <4>2 DEF OwnerInv
        <5>2. pc'[v] = pc[v] /\ todo'[v] = todo[v]
          BY <3>1, <5>1 DEF OnlyMoves
        <5> QED BY <5>1, <5>2
      <4> QED BY <3>2, <3>4, <4>1, <4>2
    <3>5. ASSUME NEW t \in Trials, (claim[t] # NoClaim)'
          PROVE  (claim[t].owner \in Workers /\ claim[t].life \in 0..life[claim[t].owner])'
      BY <2>2, <3>1, <3>5 DEF ShapeInv, OwnerInv, TakesClaim
    <3> QED BY <3>3, <3>4, <3>5 DEF OwnerInv
  <2>3. CASE GivesClaim(w)
    <3>1. ASSUME NEW v \in Workers, NEW t \in Trials
          PROVE  (claim[t] = Me(v))' <=> claim[t] = Me(v) /\ t # Trial(w)
      BY <2>3, <1>0, TuningAssumption DEF ShapeInv, GivesClaim, NoClaim
    <3>2. ASSUME NEW v \in Workers \ {w} PROVE (pc[v] \in Owning)' => (claim[Trial(v)] = Me(v))'
      <4>1. (pc[v] \in Owning)' => pc[v] \in Owning /\ todo'[v] = todo[v] /\ Trial(v) \in Trials
        BY TrialOf DEF ShapeInv, OnlyMoves
      <4>2. pc[v] \in Owning => claim[Trial(v)] = Me(v) /\ Trial(v) # Trial(w)
        BY <1>0, <2>3 DEF OwnerInv, GivesClaim
      <4> QED BY <3>1, <4>1, <4>2
    <3>3. ASSUME NEW v \in Workers, NEW t \in Trials, (claim[t] = Me(v))'
          PROVE  (pc[v] \in Owning /\ Trial(v) = t)'
      <4>1. claim[t] = Me(v) /\ t # Trial(w)
        BY <3>1, <3>3
      <4>2. pc[v] \in Owning /\ Trial(v) = t
        BY <4>1 DEF OwnerInv
      <4>3. pc'[v] = pc[v] /\ todo'[v] = todo[v]
        BY <4>1, <4>2 DEF OnlyMoves
      <4> QED BY <4>2, <4>3
    <3>4. ASSUME NEW t \in Trials, (claim[t] # NoClaim)'
          PROVE  (claim[t].owner \in Workers /\ claim[t].life \in 0..life[claim[t].owner])'
      BY <2>3, <1>0, <3>4 DEF ShapeInv, OwnerInv, GivesClaim
    <3> QED BY <2>3, <3>2, <3>3, <3>4 DEF OwnerInv, GivesClaim
  <2> QED BY <2>1, <2>2, <2>3
<1>3. LockInv'
  BY DEF LockInv, OnlyMoves, KeepsLock
<1>4. ReceiptInv'
  <2>1. ASSUME NEW v \in Workers \ {w}, pc[v] \in Owning
        PROVE  receipt'[Trial(v)] = receipt[Trial(v)] /\ history'[Trial(v)] = history[Trial(v)]
    <3>1. Trial(v) \in Trials
      <4>1. todo[v] # <<>>
        BY <2>1 DEF ShapeInv
      <4> QED BY <4>1, TrialOf
    <3>2. claim[Trial(v)] = Me(v)
      BY <2>1 DEF OwnerInv
    <3> QED BY <1>0, <2>1, <3>1, <3>2 DEF KeepsReceipts
  <2>2. ASSUME NEW v \in Workers \ {w}
        PROVE  pc'[v] = pc[v] /\ todo'[v] = todo[v]
    BY DEF OnlyMoves
  <2> QED BY <2>1, <2>2 DEF ReceiptInv, KeepsReceipts
<1>5. ReadInv'
  <2>1. ASSUME NEW t \in Trials, Readable(t), ~TakesClaim(w)
        PROVE  Readable(t)'
    <3>1. claim'[t] = NoClaim
      BY <2>1, <1>0 DEF ShapeInv, KeepsClaims, GivesClaim
    <3>2. receipt'[t] = receipt[t]
      BY <2>1, <1>0, TuningAssumption DEF KeepsReceipts, NoClaim
    <3> QED BY <2>1, <3>1, <3>2
  <2>2. prom = "preflight" \/ sealed => ~TakesClaim(w)
    BY DEF LockInv, TakesClaim
  <2> QED BY <2>1, <2>2 DEF ReadInv
<1>6. OpInv'
  <2> SUFFICES ASSUME NEW o \in Operators, op[o].pc # "idle"
               PROVE  claim'[op[o].trial] = claim[op[o].trial]
    BY DEF OpInv
  <2>1. /\ op[o].trial \in Trials /\ claim[op[o].trial] # NoClaim
        /\ claim[op[o].trial].life < life[claim[op[o].trial].owner]
    BY DEF OpInv
  <2>2. pc[w] \in Owning => Trial(w) # op[o].trial
    BY <1>0, <2>1 DEF ShapeInv
  <2> QED BY <1>0, <2>1, <2>2, TrialOf DEF ShapeInv, KeepsClaims, TakesClaim, GivesClaim
<1> QED BY <1>1, <1>2, <1>3, <1>4, <1>5, <1>6

-----------------------------------------------------------------------------
(* The steps of a worker.                                                  *)

LEMMA GotoMoves ==
  ASSUME ShapeInv, NEW w \in Workers, NEW label, Goto(w, label),
         todo' = todo, todo[w] # <<>>
  PROVE  OnlyMoves(w) /\ pc'[w] = label
BY DEF ShapeInv, Goto, OnlyMoves

LEMMA QuitMoves ==
  ASSUME ShapeInv, NEW w \in Workers, Quit(w)
  PROVE  OnlyMoves(w) /\ pc'[w] = "idle"
<1>1. <<>> \in Seq(Trials)
  BY EmptySeq
<1> QED BY <1>1 DEF ShapeInv, Quit, Goto, OnlyMoves

LEMMA NextTrialMoves ==
  ASSUME ShapeInv, NEW w \in Workers, NextTrial(w), todo[w] # <<>>
  PROVE  OnlyMoves(w) /\ pc'[w] \in {"idle", "next"}
<1>1. CASE Len(todo[w]) = 1
  BY <1>1, QuitMoves DEF NextTrial
<1>2. CASE Len(todo[w]) # 1
  <2>1. Tail(todo[w]) \in Seq(Trials) /\ Tail(todo[w]) # <<>>
    BY <1>2, HeadTail DEF ShapeInv
  <2> QED BY <1>2, <2>1 DEF ShapeInv, NextTrial, Goto, OnlyMoves
<1> QED BY <1>1, <1>2

LEMMA InvokeStep ==
  ASSUME IInv, NEW w \in Workers, NEW retry, Invoke(w, retry)
  PROVE  Lawful(w)
<1> USE DEF Invoke, IInv, files, locks, workers, children, control, promoter, bounds
<1>1. OnlyMoves(w) /\ pc'[w] = "next" /\ pc[w] = "idle"
  BY TuningAssumption DEF ShapeInv, Goto, OnlyMoves
<1> QED BY <1>1 DEF Lawful, KeepsClaims, KeepsReceipts, KeepsLock, ShapeInv, LockInv

LEMMA LookStep ==
  ASSUME IInv, NEW w \in Workers, Look(w)
  PROVE  Lawful(w)
<1> USE DEF Look, IInv, files, locks, workers, children, control, promoter, bounds
<1>1. OnlyMoves(w) /\ pc'[w] \in {"idle", "next", "lock"} /\ pc[w] = "next"
  BY GotoMoves, QuitMoves, NextTrialMoves
<1> QED BY <1>1 DEF Lawful, KeepsClaims, KeepsReceipts, KeepsLock, ShapeInv, LockInv

LEMMA LockSharedStep ==
  ASSUME IInv, NEW w \in Workers, LockShared(w)
  PROVE  Lawful(w)
<1> USE DEF LockShared, IInv, files, locks, workers, children, control, promoter, bounds
<1>1. OnlyMoves(w) /\ pc'[w] \in {"idle", "claim"} /\ pc[w] = "lock"
  BY GotoMoves, QuitMoves
<1>2. pc'[w] = "claim" => w \in shared' /\ ~sealed
  BY <1>1, QuitMoves
<1> QED BY <1>1, <1>2 DEF Lawful, KeepsClaims, KeepsReceipts, KeepsLock, ShapeInv, LockInv

LEMMA AcquireClaimStep ==
  ASSUME IInv, NEW w \in Workers, AcquireClaim(w)
  PROVE  Lawful(w)
<1> USE DEF AcquireClaim, IInv, files, locks, workers, children, control, promoter, bounds
<1>1. CASE claim[Trial(w)] # NoClaim
  <2>1. OnlyMoves(w) /\ pc'[w] = "idle" /\ pc[w] = "claim"
    BY <1>1, QuitMoves
  <2> QED BY <1>1, <2>1 DEF Lawful, KeepsClaims, KeepsReceipts, KeepsLock, ShapeInv, LockInv
<1>2. CASE claim[Trial(w)] = NoClaim
  <2>1. OnlyMoves(w) /\ pc'[w] = "recheck" /\ pc[w] = "claim"
    BY <1>2, GotoMoves
  <2>2. TakesClaim(w) /\ KeepsReceipts(w) /\ KeepsLock(w)
    BY <1>2, <2>1 DEF TakesClaim, KeepsReceipts, KeepsLock, ShapeInv, LockInv
  <2> QED BY <1>2, <2>1, <2>2 DEF Lawful
<1> QED BY <1>1, <1>2

LEMMA UnlockStep ==
  ASSUME IInv, NEW w \in Workers, Unlock(w)
  PROVE  Lawful(w)
<1> USE DEF Unlock, IInv, files, locks, workers, children, control, promoter, bounds
<1>1. ~sealed /\ pc[w] = "recheck"
  BY DEF LockInv
<1>2. OnlyMoves(w) /\ pc'[w] = "settle"
  BY <1>1, GotoMoves
<1> QED BY <1>1, <1>2 DEF Lawful, KeepsClaims, KeepsReceipts, KeepsLock, ShapeInv, LockInv

(* Who owns the claim gives it back and goes on.                           *)
LEMMA GiveBackGives ==
  ASSUME IInv, NEW w \in Workers, GiveBack(w), pc[w] \in Owning, todo[w] # <<>>
  PROVE  OnlyMoves(w) /\ pc'[w] \in {"idle", "next"} /\ GivesClaim(w)
<1>1. Mine(w)
  BY DEF IInv, OwnerInv
<1>2. OnlyMoves(w) /\ pc'[w] \in {"idle", "next"}
  BY <1>1, NextTrialMoves DEF GiveBack, IInv
<1> QED BY <1>1, <1>2 DEF GiveBack, Unclaim, GivesClaim

LEMMA SettleStep ==
  ASSUME IInv, NEW w \in Workers, Settle(w)
  PROVE  Lawful(w)
<1> USE DEF Settle, IInv, files, locks, workers, children, control, promoter, bounds
<1>0. pc[w] = "settle" /\ todo[w] # <<>> /\ Trial(w) \in Trials
  BY TrialOf
<1>1. CASE HasReceipt(Trial(w)) /\ Final(w)
  <2>1. OnlyMoves(w) /\ pc'[w] \in {"idle", "next"} /\ GivesClaim(w)
    BY <1>0, <1>1, GiveBackGives
  <2>2. KeepsReceipts(w) /\ KeepsLock(w)
    BY <1>0, <1>1, <2>1 DEF KeepsReceipts, KeepsLock, ShapeInv, LockInv
  <2> QED BY <2>1, <2>2 DEF Lawful
<1>2. CASE HasReceipt(Trial(w)) /\ ~Final(w)
  <2>1. OnlyMoves(w) /\ pc'[w] = "unlink" /\ todo' = todo
    BY <1>0, <1>2, GotoMoves
  <2>2. /\ receipt' = receipt
        /\ history' = [history EXCEPT ![Trial(w)] = history[Trial(w)] \cup {receipt[Trial(w)]}]
    BY <1>2
  <2>3. KeepsReceipts(w)
    BY <1>0, <2>1, <2>2 DEF KeepsReceipts, ShapeInv
  <2>4. KeepsLock(w) /\ KeepsClaims(w)
    BY <1>0, <1>2, <2>1 DEF KeepsLock, KeepsClaims, LockInv
  <2> QED BY <1>2, <2>1, <2>3, <2>4 DEF Lawful
<1>3. CASE ~HasReceipt(Trial(w))
  <2>1. OnlyMoves(w) /\ pc'[w] = "spawn" /\ todo' = todo
    BY <1>0, <1>3, GotoMoves
  <2>2. KeepsReceipts(w) /\ KeepsLock(w) /\ KeepsClaims(w)
    BY <1>0, <1>3, <2>1 DEF KeepsReceipts, KeepsLock, KeepsClaims, ShapeInv, LockInv
  <2> QED BY <1>3, <2>1, <2>2 DEF Lawful
<1> QED BY <1>1, <1>2, <1>3

LEMMA UnlinkReceiptStep ==
  ASSUME IInv, NEW w \in Workers, UnlinkReceipt(w)
  PROVE  Lawful(w)
<1> USE DEF UnlinkReceipt, IInv, files, locks, workers, children, control, promoter, bounds
<1>1. OnlyMoves(w) /\ pc'[w] = "spawn" /\ pc[w] = "unlink" /\ Trial(w) \in Trials
  BY GotoMoves, TrialOf
<1>2. KeepsReceipts(w) /\ KeepsLock(w) /\ KeepsClaims(w)
  BY <1>1 DEF KeepsReceipts, KeepsLock, KeepsClaims, ShapeInv, LockInv, ReceiptInv
<1> QED BY <1>1, <1>2 DEF Lawful

(* The steps of an attempt leave receipts and claims alone.                *)
LEMMA AttemptStep ==
  ASSUME IInv, NEW w \in Workers,
         Spawn(w) \/ ForceStop(w) \/ TerminateGroup(w) \/ Promote(w)
  PROVE  Lawful(w)
<1> USE DEF Spawn, ForceStop, TerminateGroup, Promote, IInv, files, locks, workers, children,
            control, promoter, bounds
<1>1. /\ OnlyMoves(w) /\ pc'[w] \in {"poll", "terminate", "judge", "seal"}
      /\ pc[w] \in {"spawn", "poll", "terminate", "judge"}
  BY GotoMoves
<1>2. KeepsReceipts(w) /\ KeepsLock(w) /\ KeepsClaims(w)
  BY <1>1 DEF KeepsReceipts, KeepsLock, KeepsClaims, ShapeInv, LockInv, ReceiptInv
<1> QED BY <1>1, <1>2 DEF Lawful

LEMMA SealResultStep ==
  ASSUME IInv, NEW w \in Workers, SealResult(w)
  PROVE  Lawful(w)
<1> USE DEF SealResult, IInv, files, locks, workers, children, control, promoter, bounds
<1>1. ~HasReceipt(Trial(w)) /\ pc[w] = "seal" /\ Trial(w) \in Trials
  BY TrialOf DEF ReceiptInv
<1>2. OnlyMoves(w) /\ pc'[w] = "release"
  BY <1>1, GotoMoves
<1>3. KeepsReceipts(w) /\ KeepsLock(w) /\ KeepsClaims(w)
  BY <1>1, <1>2 DEF KeepsReceipts, KeepsLock, KeepsClaims, ShapeInv, LockInv
<1> QED BY <1>1, <1>2, <1>3 DEF Lawful

LEMMA ReleaseStep ==
  ASSUME IInv, NEW w \in Workers, Release(w)
  PROVE  Lawful(w)
<1> USE DEF Release, IInv, files, locks, workers, children, control, promoter, bounds
<1>1. OnlyMoves(w) /\ pc'[w] \in {"idle", "next"} /\ GivesClaim(w) /\ pc[w] = "release"
  BY GiveBackGives
<1>2. KeepsReceipts(w) /\ KeepsLock(w)
  BY <1>1 DEF KeepsReceipts, KeepsLock, ShapeInv, LockInv
<1> QED BY <1>1, <1>2 DEF Lawful

(* A process that dies leaves its claim to nobody: the next process is not *)
(* the one the claim names.                                                *)
LEMMA DieStep ==
  ASSUME IInv, NEW w \in Workers, Die(w)
  PROVE  IInv'
<1> USE DEF Die, IInv, files, locks, workers, children, control, promoter, bounds
<1>1. OnlyMoves(w) /\ pc'[w] = "idle"
  BY QuitMoves
<1>2. life' \in [Workers -> Nat] /\ life'[w] = life[w] + 1
      /\ \A v \in Workers \ {w} : life'[v] = life[v]
  BY DEF ShapeInv
<1>3. ShapeInv'
  BY <1>1, <1>2 DEF ShapeInv, OnlyMoves
<1>4. OwnerInv'
  <2>1. ASSUME NEW t \in Trials PROVE claim[t] # Me(w)'
    <3>1. CASE claim[t] = NoClaim
      BY <3>1, TuningAssumption DEF NoClaim
    <3>2. CASE claim[t] # NoClaim
      <4>1. claim[t].life \in 0..life[claim[t].owner]
        BY <3>2 DEF OwnerInv
      <4>2. Me(w)'.owner = w /\ Me(w)'.life = life[w] + 1
        BY <1>2
      <4> QED BY <4>1, <4>2 DEF ShapeInv
    <3> QED BY <3>1, <3>2
  <2>2. ASSUME NEW v \in Workers, (pc[v] \in Owning)' PROVE (claim[Trial(v)] = Me(v))'
    <3>1. v # w /\ pc'[v] = pc[v] /\ todo'[v] = todo[v] /\ life'[v] = life[v] /\ claim' = claim
      BY <1>1, <1>2, <2>2 DEF OnlyMoves
    <3>2. claim[Trial(v)] = Me(v)
      BY <2>2, <3>1 DEF OwnerInv
    <3> QED BY <3>1, <3>2
  <2>3. ASSUME NEW v \in Workers, NEW t \in Trials, (claim[t] = Me(v))'
        PROVE  (pc[v] \in Owning /\ Trial(v) = t)'
    <3>1. v # w
      BY <2>1, <2>3
    <3>2. pc'[v] = pc[v] /\ todo'[v] = todo[v] /\ life'[v] = life[v]
      BY <1>1, <1>2, <3>1 DEF OnlyMoves
    <3>3. claim[t] = Me(v)
      BY <2>3, <3>2
    <3>4. pc[v] \in Owning /\ Trial(v) = t
      BY <3>3 DEF OwnerInv
    <3> QED BY <3>2, <3>4
  <2>4. ASSUME NEW t \in Trials, (claim[t] # NoClaim)'
        PROVE  (claim[t].owner \in Workers /\ claim[t].life \in 0..life[claim[t].owner])'
    BY <1>2, <2>4 DEF ShapeInv, OwnerInv
  <2> QED BY <2>2, <2>3, <2>4 DEF OwnerInv
<1>5. LockInv' /\ ReceiptInv' /\ ReadInv'
  BY <1>1 DEF LockInv, ReceiptInv, ReadInv, OnlyMoves
<1>6. OpInv'
  <2>1. ASSUME NEW o \in Operators, op[o].pc # "idle"
        PROVE  op[o].found.life < life'[op[o].found.owner]
    <3>0. op[o].trial \in Trials /\ op[o].found # NoClaim /\ claim[op[o].trial] = op[o].found
      BY <2>1 DEF OpInv
    <3>1. op[o].found.owner \in Workers /\ op[o].found.life \in Nat
      BY <3>0 DEF ShapeInv, OwnerInv, Processes
    <3>2. op[o].found.life < life[op[o].found.owner]
      BY <2>1 DEF OpInv
    <3>3. life'[op[o].found.owner] \in {life[op[o].found.owner], life[op[o].found.owner] + 1}
      BY <1>2, <3>1
    <3> QED BY <3>1, <3>2, <3>3 DEF ShapeInv
  <2> QED BY <2>1 DEF OpInv
<1> QED BY <1>3, <1>4, <1>5, <1>6

-----------------------------------------------------------------------------
(* The promoter and the operator.                                          *)

\* What a step of the promoter leaves alone.
PromoterOnly ==
  UNCHANGED <<receipt, history, claim, claimHistory, shared, pc, todo, life, op>>

LEMMA PromoterStep ==
  ASSUME IInv, LockExclusive \/ Promotion \/ PromoterDies
  PROVE  IInv'
<1> USE DEF IInv, files, locks, workers, children, control, promoter, bounds
<1>0. PromoterOnly
  BY DEF PromoterOnly, LockExclusive, Promotion, PromoterDies, ReadTrial, SealPhase,
     TakeSnapshot, PublishReport, PublishSchedule
<1>1. ShapeInv' /\ OwnerInv' /\ ReceiptInv' /\ OpInv'
  BY <1>0 DEF PromoterOnly, ShapeInv, OwnerInv, ReceiptInv, OpInv
<1>2. CASE LockExclusive
  <2>1. LockInv'
    BY <1>2 DEF LockExclusive, LockInv
  <2>2. ReadInv'
    BY <1>2, TuningAssumption DEF LockExclusive, ReadInv, Trials
  <2> QED BY <1>1, <2>1, <2>2
<1>3. CASE ReadTrial
  <2>1. CASE GiveUp
    <3>1. <<>> \in Seq(Trials)
      BY EmptySeq
    <3> QED BY <1>1, <1>3, <2>1, <3>1 DEF ReadTrial, GiveUp, LockInv, ReadInv
  <2>2. CASE ~GiveUp
    <3>1. /\ reading # <<>> /\ Readable(Head(reading)) /\ reading' = Tail(reading)
          /\ UNCHANGED <<prom, exclusive, sealed>>
      BY <1>3, <2>2 DEF ReadTrial
    <3>2. Tail(reading) \in Seq(Trials) /\ Range(reading) = {Head(reading)} \cup Range(Tail(reading))
      BY <3>1, HeadTail DEF ReadInv
    <3>3. ReadInv'
      BY <1>0, <3>1, <3>2 DEF PromoterOnly, ReadInv
    <3>4. LockInv'
      BY <1>0, <3>1 DEF PromoterOnly, LockInv
    <3> QED BY <1>1, <3>3, <3>4
  <2> QED BY <2>1, <2>2
<1>4. CASE SealPhase
  <2>1. \A t \in Trials : Readable(t)
    <3>1. Range(<<>>) = {}
      BY DEF Range
    <3> QED BY <1>4, <3>1 DEF SealPhase, ReadInv
  <2>2. ReadInv'
    BY <1>0, <1>4, <2>1, TuningAssumption DEF SealPhase, ReadInv, PromoterOnly
  <2>3. LockInv'
    BY <1>4 DEF SealPhase, LockInv
  <2> QED BY <1>1, <2>2, <2>3
<1>5. CASE TakeSnapshot \/ PublishReport \/ PublishSchedule \/ PromoterDies
  <2>1. /\ UNCHANGED sealed
        /\ GiveUp \/ (reading' = reading /\ prom' \in {"report", "schedule"}
                        /\ (exclusive' => exclusive))
    BY <1>5 DEF TakeSnapshot, PublishReport, PublishSchedule, PromoterDies
  <2>2. <<>> \in Seq(Trials)
    BY EmptySeq
  <2>3. ReadInv'
    BY <1>0, <2>1, <2>2 DEF PromoterOnly, GiveUp, ReadInv
  <2>4. LockInv'
    BY <1>0, <2>1 DEF PromoterOnly, GiveUp, LockInv
  <2> QED BY <1>1, <2>3, <2>4
<1> QED BY <1>2, <1>3, <1>4, <1>5 DEF Promotion

(* A claim found dead stays dead and in its place, as nobody else removes  *)
(* claims that are not their own.                                          *)
LEMMA RecoveryStep ==
  ASSUME IInv, OneOperator, NEW o \in Operators, Recovery(o)
  PROVE  IInv'
<1> USE DEF IInv, files, locks, workers, children, control, promoter, bounds, OpGoto
<1>1. CASE \E t \in Trials : OpCheck(o, t)
  <2>1. PICK t \in Trials : OpCheck(o, t)
    BY <1>1
  <2>2. claim[t] # NoClaim /\ ~Alive(claim[t]) /\ ~sealed
    BY <2>1 DEF OpCheck, ReadInv
  <2>3. claim[t].life < life[claim[t].owner]
    <3>1. claim[t].owner \in Workers /\ claim[t].life \in 0..life[claim[t].owner]
      BY <2>2 DEF OwnerInv
    <3>2. claim[t].life # life[claim[t].owner]
      <4> SUFFICES ASSUME claim[t].life = life[claim[t].owner] PROVE FALSE
        OBVIOUS
      <4>1. claim[t] = Me(claim[t].owner)
        BY <2>1 DEF ShapeInv, Processes, OpCheck
      <4>2. pc[claim[t].owner] \in Owning
        BY <3>1, <4>1 DEF OwnerInv
      <4> QED BY <2>2, <3>1, <4>1, <4>2 DEF Alive
    <3> QED BY <3>1, <3>2 DEF ShapeInv
  <2>4. UNCHANGED <<receipt, history, claim, claimHistory, shared, pc, todo, life, sealed,
                    prom, reading, exclusive>>
    BY <2>1, <2>2 DEF OpCheck
  <2> DEFINE begun == [pc |-> "link", trial |-> t, found |-> claim[t], digest |-> NoClaim]
  <2>5. op' = [op EXCEPT ![o] = begun]
    BY <2>1 DEF OpCheck
  <2>6. begun \in Recoveries /\ begun.trial = t /\ begun.found = claim[t] /\ begun.pc = "link"
    BY NoneTyped DEF ShapeInv, Recoveries
  <2> HIDE DEF begun
  <2>7. ShapeInv'
    BY <2>4, <2>5, <2>6 DEF ShapeInv
  <2>8. OpInv'
    BY <2>2, <2>3, <2>4, <2>5, <2>6 DEF OpInv, ShapeInv, OneOperator
  <2> QED BY <2>4, <2>7, <2>8 DEF OwnerInv, LockInv, ReceiptInv, ReadInv
<1>2. CASE OpLink(o) \/ OpConfirm(o)
  <2> DEFINE now == claim[op[o].trial]
             further == IF OpLink(o) THEN [op[o] EXCEPT !.pc = "confirm", !.digest = now]
                                     ELSE [op[o] EXCEPT !.pc = "unlink"]
  <2>1. UNCHANGED <<receipt, history, claim, shared, pc, todo, life, sealed, prom, reading,
                    exclusive>>
    BY <1>2 DEF OpLink, OpConfirm
  <2>2. /\ op[o].pc # "idle" /\ op[o].trial \in Trials /\ now \in Processes
        /\ now = op[o].found
    BY <1>2 DEF OpLink, OpConfirm, OpInv, ShapeInv
  <2>3. DOMAIN claimHistory' = Trials /\ \A t \in Trials : claimHistory[t] \subseteq claimHistory'[t]
    BY <1>2 DEF OpLink, OpConfirm, ShapeInv
  <2>4. \/ op' = [op EXCEPT ![o] = NoOp]
        \/ op' = [op EXCEPT ![o] = further] /\ now \in claimHistory'[op[o].trial]
    <3>1. CASE OpLink(o)
      BY <2>2, <3>1 DEF OpLink, ShapeInv
    <3>2. CASE OpConfirm(o)
      <4>1. now \in claimHistory'[op[o].trial] /\ ~OpLink(o)
        BY <2>2, <3>2 DEF OpConfirm, OpLink, OpInv
      <4> QED BY <3>2, <4>1 DEF OpConfirm
    <3> QED BY <1>2, <3>1, <3>2
  <2>5. further \in Recoveries /\ further.trial = op[o].trial /\ further.found = op[o].found
    BY <2>2 DEF ShapeInv, Recoveries
  <2> HIDE DEF further
  <2>6. ShapeInv'
    BY <2>1, <2>3, <2>4, <2>5, NoneTyped DEF ShapeInv
  <2>7. ASSUME NEW p \in Operators, op'[p].pc # "idle"
        PROVE  /\ op[p].pc # "idle" /\ op'[p].trial = op[p].trial /\ op'[p].found = op[p].found
               /\ op[p].found \in claimHistory'[op[p].trial]
    <3>1. p = o /\ NoOp.pc = "idle"
      BY DEF OneOperator, NoOp
    <3>2. op'[o] = further /\ now \in claimHistory'[op[o].trial]
      BY <2>4, <2>7, <3>1 DEF ShapeInv
    <3> QED BY <2>2, <2>5, <3>1, <3>2
  <2>8. OpInv'
    BY <2>1, <2>7 DEF OpInv
  <2> QED BY <2>1, <2>6, <2>8 DEF OwnerInv, LockInv, ReceiptInv, ReadInv
<1>3. CASE OpUnlink(o)
  <2>1. /\ UNCHANGED <<receipt, history, claimHistory, shared, pc, todo, life, sealed, prom,
                       reading, exclusive>>
        /\ claim' = [claim EXCEPT ![op[o].trial] = NoClaim]
        /\ op' = [op EXCEPT ![o] = NoOp] /\ op[o].pc # "idle"
    BY <1>3 DEF OpUnlink, Unclaim
  <2>2. /\ op[o].trial \in Trials
        /\ claim[op[o].trial].life < life[claim[op[o].trial].owner]
    BY <2>1 DEF OpInv
  <2>3. ASSUME NEW w \in Workers PROVE claim[op[o].trial] # Me(w)
    BY <2>2 DEF ShapeInv
  <2>4. OwnerInv'
    <3>1. ASSUME NEW w \in Workers, pc[w] \in Owning PROVE claim'[Trial(w)] = Me(w)
      <4>1. claim[Trial(w)] = Me(w)
        BY <3>1 DEF OwnerInv
      <4> QED BY <2>1, <2>3, <4>1
    <3>2. ASSUME NEW w \in Workers, NEW t \in Trials, claim'[t] = Me(w)
          PROVE  pc[w] \in Owning /\ Trial(w) = t
      BY <2>1, <2>2, <3>2, TuningAssumption DEF ShapeInv, OwnerInv, NoClaim
    <3>3. ASSUME NEW t \in Trials, claim'[t] # NoClaim
          PROVE  claim'[t].owner \in Workers /\ claim'[t].life \in 0..life[claim'[t].owner]
      BY <2>1, <2>2, <3>3 DEF ShapeInv, OwnerInv
    <3> QED BY <2>1, <3>1, <3>2, <3>3 DEF OwnerInv
  <2>5. ShapeInv' /\ LockInv' /\ ReceiptInv'
    <3>1. ShapeInv'
      BY <2>1, NoneTyped DEF ShapeInv
    <3> QED BY <2>1, <3>1 DEF LockInv, ReceiptInv
  <2>6. ReadInv'
    BY <2>1, <2>2 DEF ShapeInv, ReadInv
  <2>7. OpInv'
    BY <2>1 DEF ShapeInv, OpInv, OneOperator, NoOp
  <2> QED BY <2>4, <2>5, <2>6, <2>7
<1> QED BY <1>1, <1>2, <1>3 DEF Recovery

LEMMA WorkerStep ==
  ASSUME IInv, NEW w \in Workers,
         (\E retry \in BOOLEAN : Invoke(w, retry)) \/ Work(w) \/ LockShared(w) \/ ForceStop(w)
  PROVE  Lawful(w)
BY InvokeStep, LookStep, LockSharedStep, AcquireClaimStep, UnlockStep, SettleStep,
   UnlinkReceiptStep, AttemptStep, SealResultStep, ReleaseStep DEF Work

\* A step that changes nothing the invariant speaks of.
Elsewhere == UNCHANGED <<receipt, history, claim, claimHistory, sealed, shared, exclusive,
                         pc, todo, life, prom, reading, op>>

(* Who can take a step.                                                    *)
LEMMA WhoSteps ==
  ASSUME IInv, [Next]_vars
  PROVE  \/ Elsewhere
         \/ \E w \in Workers : Lawful(w) \/ Die(w)
         \/ LockExclusive \/ Promotion \/ PromoterDies
         \/ \E o \in Operators : Recovery(o)
<1>1. UNCHANGED vars => Elsewhere
  BY DEF Elsewhere, vars, files, locks, workers, children, control, promoter, bounds
<1>2. ASSUME NEW w \in Workers, ChildExit(w) PROVE Elsewhere
  BY <1>2 DEF ChildExit, Elsewhere, files, locks, control, promoter, bounds
<1> QED BY <1>1, <1>2, WorkerStep DEF Next

LEMMA Inductive ==
  ASSUME OneOperator, IInv, [Next]_vars
  PROVE  IInv'
<1>1. CASE Elsewhere
  BY <1>1 DEF Elsewhere, IInv, ShapeInv, OwnerInv, LockInv, ReceiptInv, ReadInv, OpInv
<1> QED BY <1>1, WhoSteps, LawfulStep, DieStep, PromoterStep, RecoveryStep

-----------------------------------------------------------------------------
(* The invariant holds throughout.                                         *)
LEMMA Invariance ==
  ASSUME OneOperator
  PROVE  Spec => []IInv
<1>1. IInv /\ [Next]_vars => IInv'
  BY Inductive
<1> QED BY <1>1, InitInv, PTL DEF Spec

(* However many workers are launched on whatever shards, and whoever dies: *)
(* each trial is in the hands of one process at a time.                    *)
THEOREM OneOwnerAlways ==
  ASSUME OneOperator
  PROVE  Spec => []OneOwner
<1>1. IInv => OneOwner
  BY DEF IInv, OwnerInv, OneOwner
<1> QED BY <1>1, Invariance, PTL

(* No retry crosses the seal: once a phase is sealed it has every receipt  *)
(* and nobody holds a claim, for any number of workers and deaths.         *)
THEOREM SealedPhaseIsComplete ==
  ASSUME OneOperator
  PROVE  Spec => []SealedIsComplete
<1>1. IInv => SealedIsComplete
  BY DEF IInv, ReadInv, SealedIsComplete
<1> QED BY <1>1, Invariance, PTL

(* A receipt that leaves its place is in the history by then, and what the *)
(* history has it keeps, wherever a process dies between the two calls.    *)
THEOREM ReceiptsAreKept ==
  ASSUME OneOperator
  PROVE  Spec => NothingLost
<1>1. ASSUME IInv, [Next]_vars, NEW t \in Trials PROVE Archives(t)
  <2>1. ASSUME NEW w \in Workers, Lawful(w) PROVE Archives(t)
    BY <2>1 DEF Lawful, KeepsReceipts
  <2>2. UNCHANGED <<receipt, history>> => Archives(t)
    OBVIOUS
  <2>3. Elsewhere \/ (\E w \in Workers : Die(w)) \/ LockExclusive \/ Promotion \/ PromoterDies
          => UNCHANGED <<receipt, history>>
    BY DEF Elsewhere, Die, LockExclusive, Promotion, PromoterDies, ReadTrial, SealPhase,
       TakeSnapshot, PublishReport, PublishSchedule, files
  <2>4. ASSUME NEW o \in Operators, Recovery(o) PROVE Archives(t)
    BY <1>1, <2>4 DEF Recovery, OpCheck, OpLink, OpConfirm, OpUnlink, files, IInv, ShapeInv
  <2> QED BY <1>1, <2>1, <2>2, <2>3, <2>4, WhoSteps
<1>2. IInv /\ [Next]_vars => [\A t \in Trials : Archives(t)]_vars
  BY <1>1
<1> QED BY <1>2, Invariance, PTL DEF Spec, NothingLost, Archives

(* A live claim goes only by its owner's hand, and a dead one only after   *)
(* it is in the archive.                                                   *)
THEOREM ClaimsGoLawfully ==
  ASSUME OneOperator
  PROVE  Spec => ClaimsAreHonoured
<1> DEFINE Honoured(t) ==
      claim[t] # NoClaim /\ claim'[t] # claim[t] =>
        IF Alive(claim[t])
        THEN \E w \in Workers : claim[t] = Me(w) /\ pc'[w] # pc[w]
        ELSE claim[t] \in claimHistory'[t]
<1>1. ASSUME IInv, [Next]_vars, NEW t \in Trials PROVE Honoured(t)
  <2>1. ASSUME NEW w \in Workers, Lawful(w) PROVE Honoured(t)
    <3> SUFFICES ASSUME claim[t] # NoClaim, claim'[t] # claim[t] PROVE Honoured(t)
      OBVIOUS
    <3>1. GivesClaim(w)
      BY <1>1, <2>1 DEF Lawful, KeepsClaims, TakesClaim, IInv, ShapeInv
    <3>2. claim[t] = Me(w)
      BY <1>1, <3>1 DEF GivesClaim, IInv, ShapeInv, OwnerInv
    <3>3. Alive(claim[t]) /\ pc'[w] # pc[w]
      BY <3>1, <3>2 DEF GivesClaim, Alive
    <3> QED BY <3>2, <3>3
  <2>2. Elsewhere \/ (\E w \in Workers : Die(w)) \/ LockExclusive \/ Promotion \/ PromoterDies
          => UNCHANGED claim
    BY DEF Elsewhere, Die, LockExclusive, Promotion, PromoterDies, ReadTrial, SealPhase,
       TakeSnapshot, PublishReport, PublishSchedule, files
  <2>3. ASSUME NEW o \in Operators, Recovery(o) PROVE Honoured(t)
    <3> SUFFICES ASSUME claim[t] # NoClaim, claim'[t] # claim[t] PROVE Honoured(t)
      OBVIOUS
    <3>1. OpUnlink(o)
      BY <2>3 DEF Recovery, OpCheck, OpLink, OpConfirm, files
    <3>2. op[o].trial = t
      BY <1>1, <3>1 DEF OpUnlink, Unclaim, IInv, ShapeInv
    <3>3. claim[t] \in claimHistory'[t] /\ claim[t].life < life[claim[t].owner]
      BY <3>1, <3>2, <1>1 DEF OpUnlink, IInv, OpInv
    <3>4. ~Alive(claim[t])
      BY <1>1, <3>3 DEF Alive, IInv, ShapeInv
    <3> QED BY <3>3, <3>4
  <2> QED BY <1>1, <2>1, <2>2, <2>3, WhoSteps
<1>2. IInv /\ [Next]_vars => [\A t \in Trials : Honoured(t)]_vars
  BY <1>1
<1> QED BY <1>2, Invariance, PTL DEF Spec, ClaimsAreHonoured

--------------------------------------------------------------------------------
(***************************************************************************)
(* More about the tuning phase: that a receipt rests on an attempt that is *)
(* over and was judged by how its child ended, and that the phase is a     *)
(* ledger of results.  Under the invariant proved above the steps that     *)
(* touch a receipt are those of the trial's one owner, before the seal.    *)
(***************************************************************************)

Trying == {"poll", "terminate", "judge", "seal"}

(* Attempts are numbered in the order they begin, a worker between the start*)
(* and the seal is at one of its trial, and one that was judged is over.    *)
AttemptInv ==
  /\ tries \in [Trials -> Nat] /\ DOMAIN attempt = Workers /\ DOMAIN exit = Workers
  /\ \A a \in running : a.trial \in Trials /\ a.try \in 1..tries[a.trial]
  /\ \A w \in Workers :
       /\ pc[w] \notin Trying => attempt[w] = NoAttempt
       /\ pc[w] \in Trying =>
            /\ attempt[w] = [trial |-> Trial(w), try |-> attempt[w].try]
            /\ attempt[w].try \in 1..tries[Trial(w)]
       /\ exit[w] # "none" => pc[w] \in {"poll", "terminate", "judge"}
       /\ exit[w] # "none" \/ pc[w] \in {"judge", "seal"} => attempt[w] \notin running

Kept(t) == history[t] \cup ({receipt[t]} \ {NoReceipt})

(* What a receipt of a trial rests on.                                      *)
Founded(t, r) ==
  /\ r \in Outcomes /\ r.try \in 1..tries[t]
  /\ [trial |-> t, try |-> r.try] \notin running
  /\ \E m \in manifests :
       m.attempt = [trial |-> t, try |-> r.try] /\ m.status = r.status

EarnedInv ==
  /\ receipt = [t \in Trials |-> receipt[t]]
  /\ \A m \in manifests : m.status \in {"success", "failed"} /\ m.earned
  /\ \A t \in Trials : \A r \in Kept(t) : Founded(t, r)

(* Only a failure is about to be withdrawn.                                 *)
RetryInv == \A w \in Workers : pc[w] = "unlink" => receipt[Trial(w)].status = "failed"

(* What the promoter has read of a sealed phase is what is there.           *)
PromInv ==
  /\ prom # "idle" => nextSchedule = Nothing /\ seen = [t \in Trials |-> seen[t]]
  /\ prom \in {"reload", "report", "schedule"} => sealed
  /\ prom = "reload" => \A t \in Trials : t \in Range(reading) \/ seen[t] = receipt[t]
  /\ prom \in {"report", "schedule"} => seen = receipt

JInv == AttemptInv /\ EarnedInv /\ RetryInv /\ PromInv

USE DEF Trial, At, Me, Owning, HasReceipt, Readable, Mine, Archives

LEMMA JInit == Init => JInv
<1> SUFFICES ASSUME Init PROVE JInv
  OBVIOUS
<1>1. AttemptInv
  BY DEF Init, AttemptInv, Trying
<1>2. EarnedInv /\ RetryInv /\ PromInv
  BY DEF Init, EarnedInv, Kept, RetryInv, PromInv, NoReceipt
<1> QED BY <1>1, <1>2 DEF JInv

(* While a worker owns a trial the phase is not sealed, and nobody else has *)
(* that trial.                                                              *)
LEMMA OwnersAreAlone ==
  ASSUME IInv, NEW w \in Workers, pc[w] \in Owning
  PROVE  /\ ~sealed /\ Trial(w) \in Trials /\ todo[w] # <<>>
         /\ \A v \in Workers \ {w} : pc[v] \in Owning => Trial(v) # Trial(w)
<1>1. claim[Trial(w)] = Me(w) /\ Trial(w) \in Trials /\ todo[w] # <<>>
  BY TrialOf DEF IInv, ShapeInv, OwnerInv
<1>2. claim[Trial(w)] # NoClaim
  BY <1>1, TuningAssumption DEF NoClaim
<1>3. ~sealed
  BY <1>1, <1>2 DEF IInv, ReadInv
<1>4. ASSUME NEW v \in Workers \ {w}, pc[v] \in Owning PROVE Trial(v) # Trial(w)
  <2>1. claim[Trial(v)] = Me(v)
    BY <1>4 DEF IInv, OwnerInv
  <2>2. Me(v).owner # Me(w).owner
    OBVIOUS
  <2> QED BY <1>1, <2>1, <2>2
<1> QED BY <1>1, <1>3, <1>4

-----------------------------------------------------------------------------
(* The steps that enter and withdraw nothing.                              *)

\* What the steps of workers at no attempt leave alone.
Quiet == UNCHANGED <<receipt, attempt, exit, running, tries, manifests, sealed,
                     nextSchedule, prom, seen, reading>>

LEMMA QuietStep ==
  ASSUME JInv, NEW w \in Workers, OnlyMoves(w), Quiet,
         pc[w] \notin Trying, pc'[w] \notin Trying,
         \A t \in Trials : history'[t] \subseteq Kept(t),
         pc'[w] = "unlink" => (receipt[Trial(w)].status = "failed")'
  PROVE  JInv'
<1> USE DEF Quiet
<1>1. AttemptInv'
  BY DEF JInv, AttemptInv, OnlyMoves, Trying
<1>2. EarnedInv'
  BY DEF JInv, EarnedInv, Kept, Founded
<1>3. RetryInv' /\ PromInv'
  BY DEF JInv, RetryInv, PromInv, OnlyMoves
<1> QED BY <1>1, <1>2, <1>3 DEF JInv

LEMMA QuietSteps ==
  ASSUME IInv, JInv, NEW w \in Workers,
         \/ \E retry \in BOOLEAN : Invoke(w, retry)
         \/ Look(w) \/ LockShared(w) \/ AcquireClaim(w) \/ Unlock(w) \/ Release(w)
  PROVE  JInv'
<1> DEFINE Resting == {"idle", "next", "lock", "claim", "recheck", "settle", "release"}
<1>0. Lawful(w)
  BY WorkerStep DEF Work
<1>1. Quiet /\ history' = history
  BY DEF Quiet, Invoke, Look, LockShared, AcquireClaim, Unlock, Release, files, locks,
     workers, children, control, promoter
<1>2. pc[w] \in Resting
  BY DEF Invoke, Look, LockShared, AcquireClaim, Unlock, Release
<1>3. pc'[w] \in Resting
  <2>1. CASE \E retry \in BOOLEAN : Invoke(w, retry)
    BY <2>1 DEF Invoke, Goto, IInv, ShapeInv
  <2>2. CASE Look(w)
    BY <2>2, GotoMoves, QuitMoves, NextTrialMoves DEF Look, IInv
  <2>3. CASE LockShared(w) \/ AcquireClaim(w) \/ Unlock(w)
    BY <2>3, GotoMoves, QuitMoves DEF LockShared, AcquireClaim, Unlock, IInv
  <2>4. CASE Release(w)
    BY <2>4, GiveBackGives DEF Release
  <2> QED BY <2>1, <2>2, <2>3, <2>4
<1> QED BY <1>0, <1>1, <1>2, <1>3, QuietStep DEF Lawful, Kept, Trying

(* A worker settles a trial: what it archives was kept already, and what it *)
(* is to withdraw is a failure.                                             *)
LEMMA SettleKeeps ==
  ASSUME IInv, JInv, NEW w \in Workers, Settle(w)
  PROVE  JInv'
<1>0. Lawful(w) /\ pc[w] = "settle" /\ Trial(w) \in Trials /\ todo[w] # <<>>
  BY WorkerStep, TrialOf DEF Work, Settle, IInv
<1>1. Quiet
  BY DEF Quiet, Settle, locks, children, promoter
<1>2. \A t \in Trials : history'[t] \subseteq Kept(t)
  <2>1. CASE HasReceipt(Trial(w)) /\ ~Final(w)
    <3>1. history' = [history EXCEPT ![Trial(w)] = history[Trial(w)] \cup {receipt[Trial(w)]}]
      BY <2>1 DEF Settle
    <3> QED BY <1>0, <2>1, <3>1 DEF Kept, IInv, ShapeInv
  <2>2. CASE ~(HasReceipt(Trial(w)) /\ ~Final(w))
    BY <2>2 DEF Settle, Kept
  <2> QED BY <2>1, <2>2
<1>3. /\ pc'[w] \in {"idle", "next", "unlink", "spawn"}
      /\ pc'[w] = "unlink" => HasReceipt(Trial(w)) /\ ~Final(w) /\ todo' = todo
  <2>1. CASE HasReceipt(Trial(w)) /\ Final(w)
    BY <1>0, <2>1, GiveBackGives DEF Settle
  <2>2. CASE HasReceipt(Trial(w)) /\ ~Final(w)
    BY <1>0, <2>2, GotoMoves DEF Settle, IInv
  <2>3. CASE ~HasReceipt(Trial(w))
    BY <1>0, <2>3, GotoMoves DEF Settle, IInv
  <2> QED BY <2>1, <2>2, <2>3
<1>4. pc'[w] = "unlink" => (receipt[Trial(w)].status = "failed")'
  <2> SUFFICES ASSUME pc'[w] = "unlink" PROVE receipt[Trial(w)].status = "failed"
    BY <1>1, <1>3 DEF Quiet
  <2>1. receipt[Trial(w)] \in Outcomes
    BY <1>0, <1>3 DEF JInv, EarnedInv, Kept, Founded
  <2> QED BY <1>3, <2>1 DEF Final, Outcomes
<1> QED BY <1>0, <1>1, <1>2, <1>3, <1>4, QuietStep DEF Lawful, Trying

-----------------------------------------------------------------------------
(* The steps of an attempt.                                                *)

\* What the steps before the seal leave alone.
NothingEntered == UNCHANGED <<receipt, history, sealed, nextSchedule, prom, seen, reading>>

(* The number of an attempt that begins is new: no receipt and no other    *)
(* worker is at it.                                                        *)
LEMMA SpawnKeeps ==
  ASSUME IInv, JInv, NEW w \in Workers, Spawn(w)
  PROVE  JInv'
<1> DEFINE new == [trial |-> Trial(w), try |-> tries[Trial(w)] + 1]
<1>0. pc[w] = "spawn" /\ Trial(w) \in Trials /\ todo[w] # <<>> /\ OnlyMoves(w)
      /\ pc'[w] = "poll" /\ todo' = todo
  BY TrialOf, GotoMoves DEF Spawn, IInv
<1>1. tries \in [Trials -> Nat] /\ DOMAIN attempt = Workers /\ exit[w] = "none"
  BY <1>0 DEF JInv, AttemptInv
<1>2. /\ tries' = [tries EXCEPT ![Trial(w)] = tries[Trial(w)] + 1]
      /\ attempt' = [attempt EXCEPT ![w] = new]
      /\ running' = running \cup {new}
      /\ exit' = exit /\ manifests' = manifests /\ NothingEntered
  <2>1. tries' = [tries EXCEPT ![Trial(w)] = tries[Trial(w)] + 1]
    BY DEF Spawn
  <2>2. tries'[Trial(w)] = tries[Trial(w)] + 1
    BY <1>0, <1>1, <2>1
  <2>3. attempt' = [attempt EXCEPT ![w] = new] /\ attempt'[w] = new
    BY <1>1, <2>2 DEF Spawn
  <2> QED BY <2>1, <2>3 DEF Spawn, NothingEntered, files, promoter
<1>3. tries' \in [Trials -> Nat] /\ \A t \in Trials : 1..tries[t] \subseteq 1..tries'[t]
  <2>1. \A t \in Trials : tries'[t] \in Nat /\ tries[t] \in Nat /\ tries[t] <= tries'[t]
    BY <1>0, <1>1, <1>2
  <2>2. tries' \in [Trials -> Nat]
    BY <1>0, <1>1, <1>2
  <2> QED BY <2>1, <2>2
<1>4. new.trial = Trial(w) /\ new.try \in 1..tries'[Trial(w)] /\ new.try \notin 1..tries[Trial(w)]
  BY <1>0, <1>1, <1>2
<1>5. AttemptInv'
  <2>1. ASSUME NEW a \in running' PROVE a.trial \in Trials /\ a.try \in 1..tries'[a.trial]
    BY <1>0, <1>2, <1>3, <1>4 DEF JInv, AttemptInv
  <2>2. ASSUME NEW v \in Workers \ {w} PROVE attempt[v] # new
    <3>1. CASE pc[v] \in Trying
      <4>1. Trial(v) # Trial(w)
        BY <1>0, <3>1, OwnersAreAlone DEF Trying
      <4>2. attempt[v] = [trial |-> Trial(v), try |-> attempt[v].try]
        BY <3>1 DEF JInv, AttemptInv
      <4> QED BY <4>1, <4>2
    <3>2. CASE pc[v] \notin Trying
      <4>1. attempt[v].try = 0
        BY <3>2 DEF JInv, AttemptInv, NoAttempt
      <4>2. new.try # 0
        BY <1>0, <1>1
      <4> QED BY <4>1, <4>2
    <3> QED BY <3>1, <3>2
  <2>3. ASSUME NEW v \in Workers \ {w}
        PROVE  /\ pc'[v] = pc[v] /\ todo'[v] = todo[v] /\ attempt'[v] = attempt[v]
               /\ exit'[v] = exit[v] /\ (attempt[v] \in running' <=> attempt[v] \in running)
    BY <1>0, <1>1, <1>2, <2>2 DEF OnlyMoves
  <2>4. ASSUME NEW v \in Workers \ {w}, pc[v] \in Trying PROVE Trial(v) \in Trials
    BY <2>4, OwnersAreAlone DEF Trying
  <2> DEFINE AtAttempt(v) ==
       /\ pc[v] \notin Trying => attempt[v] = NoAttempt
       /\ pc[v] \in Trying =>
            /\ attempt[v] = [trial |-> Trial(v), try |-> attempt[v].try]
            /\ attempt[v].try \in 1..tries[Trial(v)]
       /\ exit[v] # "none" => pc[v] \in {"poll", "terminate", "judge"}
       /\ exit[v] # "none" \/ pc[v] \in {"judge", "seal"} => attempt[v] \notin running
  <2>5. ASSUME NEW v \in Workers \ {w} PROVE AtAttempt(v)'
    <3>1. AtAttempt(v)
      BY DEF JInv, AttemptInv
    <3> QED BY <1>3, <2>3, <2>4, <3>1
  <2>6. AtAttempt(w)'
    <3>1. attempt'[w] = new /\ exit'[w] = "none"
      BY <1>1, <1>2
    <3> QED BY <1>0, <1>4, <3>1 DEF Trying
  <2> QED BY <1>1, <1>2, <1>3, <2>1, <2>5, <2>6 DEF AttemptInv, JInv
<1>6. EarnedInv'
  <2>1. ASSUME NEW t \in Trials, NEW r \in Kept(t) PROVE Founded(t, r)'
    <3>1. Founded(t, r)
      BY DEF JInv, EarnedInv
    <3>2. [trial |-> t, try |-> r.try] # new
      BY <1>4, <3>1 DEF Founded
    <3> QED BY <1>2, <1>3, <3>1, <3>2 DEF Founded
  <2> QED BY <1>2, <2>1 DEF JInv, EarnedInv, Kept, NothingEntered
<1>7. RetryInv' /\ PromInv'
  BY <1>0, <1>2 DEF JInv, RetryInv, PromInv, OnlyMoves, NothingEntered
<1> QED BY <1>5, <1>6, <1>7 DEF JInv

(* A child ends, by itself or by a signal.                                 *)
LEMMA EndKeeps ==
  ASSUME IInv, JInv, NEW w \in Workers,
         \/ ChildExit(w)
         \/ ForceStop(w)
         \/ TerminateGroup(w)
  PROVE  JInv'
<1>0. NothingEntered /\ UNCHANGED <<tries, attempt, manifests>> /\ running' \subseteq running
  BY DEF ChildExit, ForceStop, TerminateGroup, NothingEntered, files, promoter
<1>1. OnlyMoves(w) /\ todo' = todo
  <2>1. CASE ChildExit(w)
    BY <2>1 DEF ChildExit, control, OnlyMoves, IInv, ShapeInv
  <2>2. CASE ForceStop(w) \/ TerminateGroup(w)
    BY <2>2, GotoMoves DEF ForceStop, TerminateGroup, IInv
  <2> QED BY <2>1, <2>2
<1>2. /\ pc[w] \in Trying /\ pc'[w] \in Trying
      /\ exit'[w] # "none" => pc'[w] \in {"poll", "terminate", "judge"}
      /\ exit'[w] # "none" \/ pc'[w] \in {"judge", "seal"} => attempt[w] \notin running'
      /\ pc[w] # "unlink" /\ pc'[w] # "unlink"
      /\ DOMAIN exit' = Workers /\ \A v \in Workers \ {w} : exit'[v] = exit[v]
  <2>1. CASE ChildExit(w)
    <3>1. attempt[w] # NoAttempt
      BY <2>1 DEF ChildExit, JInv, AttemptInv, NoAttempt
    <3>2. pc[w] \in {"poll", "terminate"}
      BY <2>1, <3>1 DEF ChildExit, JInv, AttemptInv, Trying
    <3> QED BY <2>1, <3>2 DEF ChildExit, control, JInv, AttemptInv, Trying
  <2>2. CASE ForceStop(w)
    <3>1. pc[w] = "poll" /\ pc'[w] = "terminate" /\ exit' = exit /\ exit[w] = "none"
      BY <2>2, GotoMoves DEF ForceStop, IInv
    <3> QED BY <3>1 DEF JInv, AttemptInv, Trying
  <2>3. CASE TerminateGroup(w)
    <3>1. pc[w] = "terminate" /\ pc'[w] = "judge" /\ attempt[w] \notin running'
      BY <2>3, GotoMoves DEF TerminateGroup, IInv
    <3> QED BY <2>3, <3>1 DEF TerminateGroup, JInv, AttemptInv, Trying
  <2> QED BY <2>1, <2>2, <2>3
<1>3. AttemptInv'
  BY <1>0, <1>1, <1>2 DEF JInv, AttemptInv, OnlyMoves
<1>4. EarnedInv'
  BY <1>0 DEF JInv, EarnedInv, Kept, Founded, NothingEntered
<1>5. RetryInv' /\ PromInv'
  BY <1>0, <1>1, <1>2 DEF JInv, RetryInv, PromInv, OnlyMoves, NothingEntered
<1> QED BY <1>3, <1>4, <1>5 DEF JInv

(* An attempt that is judged is over, and its manifest says of a success   *)
(* that the child ended well and by itself.                                *)
LEMMA PromoteKeeps ==
  ASSUME IInv, JInv, NEW w \in Workers, Promote(w)
  PROVE  JInv'
<1>0. /\ NothingEntered /\ UNCHANGED <<tries, attempt, running>>
      /\ exit' = [exit EXCEPT ![w] = "none"]
  BY DEF Promote, NothingEntered, promoter
<1>1. /\ OnlyMoves(w) /\ todo' = todo /\ pc[w] \in {"judge", "poll"} /\ pc'[w] = "seal"
      /\ pc[w] = "poll" => exit[w] # "none"
  BY GotoMoves DEF Promote, IInv
<1>2. AttemptInv'
  <2>1. attempt[w] \notin running /\ DOMAIN exit = Workers
    BY <1>1 DEF JInv, AttemptInv
  <2> QED BY <1>0, <1>1, <2>1 DEF JInv, AttemptInv, OnlyMoves, Trying
<1>3. EarnedInv'
  <2>1. PICK v \in Verdicts(w) :
          manifests' = manifests \cup
            {[attempt |-> attempt[w], status |-> v,
              earned |-> v = "success" => ~forced[w] /\ exit[w] = "ok"]}
    BY DEF Promote
  <2>2. v \in {"success", "failed"} /\ (v = "success" => ~forced[w] /\ exit[w] = "ok")
    BY DEF Verdicts
  <2>3. \A m \in manifests' : m.status \in {"success", "failed"} /\ m.earned
    <3>1. (v = "success" => ~forced[w] /\ exit[w] = "ok") = TRUE
      BY <2>2
    <3>2. manifests' = manifests \cup
            {[attempt |-> attempt[w], status |-> v, earned |-> TRUE]}
      BY <2>1, <3>1
    <3>3. ASSUME NEW m \in manifests', m \notin manifests
          PROVE  m.status = v /\ m.earned = TRUE
      BY <3>2, <3>3
    <3>4. \A m \in manifests : m.status \in {"success", "failed"} /\ m.earned
      BY DEF JInv, EarnedInv
    <3> QED BY <2>2, <3>3, <3>4
  <2>4. manifests \subseteq manifests'
    BY <2>1
  <2> QED BY <1>0, <2>3, <2>4 DEF JInv, EarnedInv, Kept, Founded, NothingEntered
<1>4. RetryInv' /\ PromInv'
  BY <1>0, <1>1 DEF JInv, RetryInv, PromInv, OnlyMoves, NothingEntered
<1> QED BY <1>2, <1>3, <1>4 DEF JInv

-----------------------------------------------------------------------------
(* The steps that withdraw and enter a receipt.                            *)

(* The promoter is past its readings or before the seal while a receipt    *)
(* changes: an owner means that the phase is open.                         *)
LEMMA PromoterUntouched ==
  ASSUME PromInv, ~sealed, UNCHANGED <<sealed, nextSchedule, prom, seen, reading>>
  PROVE  PromInv'
BY DEF PromInv

LEMMA UnlinkKeeps ==
  ASSUME IInv, JInv, NEW w \in Workers, UnlinkReceipt(w)
  PROVE  JInv'
<1>0. /\ pc[w] = "unlink" /\ pc'[w] = "spawn" /\ todo' = todo /\ OnlyMoves(w)
      /\ ~sealed /\ Trial(w) \in Trials
  BY OwnersAreAlone, GotoMoves DEF UnlinkReceipt, IInv
<1>1. /\ UNCHANGED <<history, attempt, exit, running, tries, manifests>>
      /\ UNCHANGED <<sealed, nextSchedule, prom, seen, reading>>
      /\ receipt' = [receipt EXCEPT ![Trial(w)] = NoReceipt]
  BY DEF UnlinkReceipt, children, promoter
<1>2. AttemptInv'
  BY <1>0, <1>1 DEF JInv, AttemptInv, OnlyMoves, Trying
<1>3. EarnedInv'
  <2>1. \A t \in Trials : (Kept(t))' \subseteq Kept(t)
    BY <1>0, <1>1 DEF JInv, EarnedInv, Kept
  <2>2. receipt' = [t \in Trials |-> receipt'[t]]
    BY <1>0, <1>1 DEF JInv, EarnedInv
  <2> QED BY <1>1, <2>1, <2>2 DEF JInv, EarnedInv, Founded
<1>4. RetryInv'
  <2>1. ASSUME NEW v \in Workers \ {w}, pc[v] = "unlink" PROVE Trial(v) # Trial(w)
    BY <1>0, <2>1, OwnersAreAlone
  <2> QED BY <1>0, <1>1, <2>1 DEF JInv, RetryInv, OnlyMoves
<1>5. PromInv'
  BY <1>0, <1>1, PromoterUntouched DEF JInv
<1> QED BY <1>2, <1>3, <1>4, <1>5 DEF JInv

(* What is entered is the manifest of the worker's own attempt.            *)
LEMMA SealEnters ==
  ASSUME IInv, JInv, NEW w \in Workers, SealResult(w)
  PROVE  /\ pc[w] = "seal" /\ pc'[w] = "release" /\ todo' = todo /\ OnlyMoves(w)
         /\ ~sealed /\ Trial(w) \in Trials /\ ~HasReceipt(Trial(w))
         /\ \E m \in manifests :
              /\ m.attempt = attempt[w]
              /\ receipt' = [receipt EXCEPT ![Trial(w)] =
                               [try |-> attempt[w].try, status |-> m.status]]
<1>1. pc[w] = "seal" /\ ~sealed /\ Trial(w) \in Trials /\ ~HasReceipt(Trial(w))
  BY OwnersAreAlone DEF SealResult, IInv, ReceiptInv
<1> QED BY <1>1, GotoMoves DEF SealResult, IInv

LEMMA SealKeeps ==
  ASSUME IInv, JInv, NEW w \in Workers, SealResult(w)
  PROVE  JInv'
<1>0. /\ pc[w] = "seal" /\ pc'[w] = "release" /\ todo' = todo /\ OnlyMoves(w)
      /\ ~sealed /\ Trial(w) \in Trials
  BY SealEnters
<1>1. /\ UNCHANGED <<history, exit, running, tries, manifests>>
      /\ UNCHANGED <<sealed, nextSchedule, prom, seen, reading>>
      /\ attempt' = [attempt EXCEPT ![w] = NoAttempt]
  BY DEF SealResult, promoter
<1>2. PICK m \in manifests :
        /\ m.attempt = attempt[w]
        /\ receipt' = [receipt EXCEPT ![Trial(w)] =
                         [try |-> attempt[w].try, status |-> m.status]]
  BY SealEnters
<1>e. PICK e : e = [try |-> attempt[w].try, status |-> m.status]
  OBVIOUS
<1>3. AttemptInv'
  BY <1>0, <1>1 DEF JInv, AttemptInv, OnlyMoves, Trying
<1>4. EarnedInv'
  <2>1. /\ attempt[w] = [trial |-> Trial(w), try |-> attempt[w].try]
        /\ attempt[w].try \in 1..tries[Trial(w)] /\ attempt[w] \notin running
        /\ tries[Trial(w)] \in Nat
    BY <1>0 DEF JInv, AttemptInv, Trying
  <2>2. m.status \in {"success", "failed"} /\ attempt[w].try \in Nat
    BY <2>1 DEF JInv, EarnedInv
  <2>3. e \in Outcomes /\ e.try = attempt[w].try /\ e.status = m.status
    BY <1>e, <2>2 DEF Outcomes
  <2>4. ASSUME NEW t \in Trials, t = Trial(w) PROVE Founded(t, e)'
    <3>1. attempt[w] = [trial |-> t, try |-> e.try] /\ e.try \in 1..tries[t]
      BY <2>1, <2>3, <2>4
    <3> QED BY <1>1, <1>2, <2>1, <2>3, <3>1 DEF Founded
  <2>5. receipt' = [t \in Trials |-> receipt'[t]]
    BY <1>0, <1>2 DEF JInv, EarnedInv
  <2>6. ASSUME NEW t \in Trials, NEW r \in (Kept(t))' PROVE Founded(t, r)'
    <3>1. r \in Kept(t) \/ (t = Trial(w) /\ r = e)
      BY <1>0, <1>1, <1>2, <1>e DEF Kept, JInv, EarnedInv
    <3>2. r \in Kept(t) => Founded(t, r)
      BY DEF JInv, EarnedInv
    <3>3. Founded(t, r) => Founded(t, r)'
      BY <1>1 DEF Founded
    <3> QED BY <2>4, <3>1, <3>2, <3>3
  <2> QED BY <1>1, <2>5, <2>6 DEF JInv, EarnedInv
<1>5. RetryInv'
  <2>1. ASSUME NEW v \in Workers \ {w}, pc[v] = "unlink"
        PROVE  receipt'[Trial(v)] = receipt[Trial(v)]
    <3>1. Trial(v) \in Trials /\ Trial(v) # Trial(w)
      BY <1>0, <2>1, OwnersAreAlone
    <3> QED BY <1>2, <3>1 DEF JInv, EarnedInv
  <2>2. ASSUME NEW v \in Workers, pc'[v] = "unlink"
        PROVE  v \in Workers \ {w} /\ pc[v] = "unlink" /\ todo'[v] = todo[v]
    BY <1>0, <2>2 DEF OnlyMoves
  <2> QED BY <2>1, <2>2 DEF JInv, RetryInv
<1>6. PromInv'
  BY <1>0, <1>1, PromoterUntouched DEF JInv
<1> QED BY <1>3, <1>4, <1>5, <1>6 DEF JInv

(* A worker that dies leaves its child behind, which no receipt will rest  *)
(* on: nobody judges it.                                                   *)
LEMMA DieKeeps ==
  ASSUME IInv, JInv, NEW w \in Workers, Die(w)
  PROVE  JInv'
<1>0. OnlyMoves(w) /\ pc'[w] = "idle"
  BY QuitMoves DEF Die, IInv
<1>1. /\ NothingEntered /\ UNCHANGED <<running, tries, manifests>>
      /\ attempt' = [attempt EXCEPT ![w] = NoAttempt] /\ exit' = [exit EXCEPT ![w] = "none"]
  BY DEF Die, NothingEntered, files, promoter
<1>2. AttemptInv'
  BY <1>0, <1>1 DEF JInv, AttemptInv, OnlyMoves, Trying
<1>3. EarnedInv'
  BY <1>1 DEF JInv, EarnedInv, Kept, Founded, NothingEntered
<1>4. RetryInv' /\ PromInv'
  BY <1>0, <1>1 DEF JInv, RetryInv, PromInv, OnlyMoves, NothingEntered
<1> QED BY <1>2, <1>3, <1>4 DEF JInv

-----------------------------------------------------------------------------
(* The promoter and the operator.                                          *)

LEMMA PromoterKeeps ==
  ASSUME IInv, JInv, LockExclusive \/ Promotion \/ PromoterDies
  PROVE  JInv'
<1> USE DEF files, locks, workers, children, control, promoter, bounds
<1>1. UNCHANGED <<receipt, history, manifests, pc, todo, attempt, exit, running, tries>>
  BY DEF LockExclusive, Promotion, PromoterDies, ReadTrial, SealPhase, TakeSnapshot,
     PublishReport, PublishSchedule
<1>2. AttemptInv' /\ EarnedInv' /\ RetryInv'
  BY <1>1 DEF JInv, AttemptInv, EarnedInv, Kept, Founded, RetryInv
<1>3. PromInv'
  <2> USE DEF JInv, PromInv
  <2>1. CASE GiveUp
    BY <2>1 DEF GiveUp
  <2>2. CASE LockExclusive
    BY <2>2 DEF LockExclusive, NothingRead
  <2>3. CASE ReadTrial /\ ~GiveUp
    <3>1. /\ reading # <<>> /\ reading' = Tail(reading)
          /\ seen' = [seen EXCEPT ![Head(reading)] = receipt[Head(reading)]]
          /\ UNCHANGED <<prom, sealed, nextSchedule>> /\ prom \in {"preflight", "reload"}
      BY <2>3 DEF ReadTrial
    <3>2. /\ Head(reading) \in Trials
          /\ Range(reading) = {Head(reading)} \cup Range(Tail(reading))
      BY <3>1, HeadTail DEF IInv, ReadInv
    <3>3. seen' = [t \in Trials |-> seen'[t]]
      BY <3>1, <3>2
    <3>4. prom = "reload" => \A t \in Trials : t \in Range(reading') \/ seen'[t] = receipt[t]
      BY <3>1, <3>2
    <3> QED BY <1>1, <3>1, <3>3, <3>4
  <2>4. CASE SealPhase
    <3>1. Range(Schedule) = Trials
      BY DEF Trials
    <3>2. prom' = "reload" /\ reading' = Schedule /\ sealed' /\ UNCHANGED <<seen, nextSchedule>>
          /\ prom # "idle"
      BY <2>4 DEF SealPhase
    <3> QED BY <3>1, <3>2
  <2>5. CASE TakeSnapshot /\ ~GiveUp
    <3>1. /\ prom = "reload" /\ reading = <<>> /\ prom' = "report"
          /\ UNCHANGED <<reading, seen, sealed, nextSchedule>>
      BY <2>5 DEF TakeSnapshot
    <3>2. \A t \in Trials : seen[t] = receipt[t]
      <4>1. Range(<<>>) = {}
        BY DEF Range
      <4> QED BY <3>1, <4>1
    <3>3. seen = [t \in Trials |-> seen[t]] /\ receipt = [t \in Trials |-> receipt[t]]
      BY <3>1 DEF EarnedInv
    <3>4. seen = receipt
      BY <3>2, <3>3
    <3> QED BY <1>1, <3>1, <3>4
  <2>6. CASE PublishReport /\ ~GiveUp
    BY <1>1, <2>6 DEF PublishReport
  <2> QED BY <2>1, <2>2, <2>3, <2>4, <2>5, <2>6 DEF Promotion, PromoterDies, PublishSchedule
<1> QED BY <1>2, <1>3 DEF JInv

(* A sealed phase has all its receipts, so there is none to restore.       *)
LEMMA RecoveryRestoresNothing ==
  ASSUME IInv, NEW o \in Operators, Recovery(o)
  PROVE  /\ Quiet /\ UNCHANGED <<history, pc, todo>>
<1>1. ASSUME NEW t \in Trials, OpCheck(o, t) PROVE receipt' = receipt
  <2>1. ~sealed
    BY <1>1 DEF OpCheck, IInv, ReadInv
  <2> QED BY <1>1, <2>1 DEF OpCheck
<1> QED BY <1>1 DEF Recovery, OpCheck, OpLink, OpConfirm, OpUnlink, Quiet, files, workers,
                children, control, promoter

LEMMA StillKeeps ==
  ASSUME JInv, Quiet, UNCHANGED <<history, pc, todo>>
  PROVE  JInv'
BY DEF Quiet, JInv, AttemptInv, EarnedInv, Kept, Founded, RetryInv, PromInv

LEMMA LedgerInductive ==
  ASSUME IInv, JInv, [Next]_vars
  PROVE  JInv'
<1>1. ASSUME UNCHANGED vars PROVE Quiet /\ UNCHANGED <<history, pc, todo>>
  BY <1>1 DEF Quiet, vars, files, workers, children, control, promoter
<1> QED BY <1>1, QuietSteps, SettleKeeps, SpawnKeeps, EndKeeps, PromoteKeeps, UnlinkKeeps,
           SealKeeps, DieKeeps, PromoterKeeps, RecoveryRestoresNothing, StillKeeps
        DEF Next, Work

-----------------------------------------------------------------------------
(* Both invariants hold throughout.                                        *)
LEMMA LedgerInvariance ==
  ASSUME OneOperator
  PROVE  Spec => [](IInv /\ JInv)
<1>1. Init => IInv /\ JInv
  BY InitInv, JInit
<1>2. IInv /\ JInv /\ [Next]_vars => IInv' /\ JInv'
  BY Inductive, LedgerInductive
<1> QED BY <1>1, <1>2, PTL DEF Spec

(* Whoever dies and whichever child ends late: a receipt, in its place or  *)
(* archived, rests on the manifest of an attempt that is over, and a       *)
(* success on a child that ended well and was not signalled.               *)
THEOREM ReceiptsAreEarned ==
  ASSUME OneOperator
  PROVE  Spec => []ReceiptIsEarned
<1>1. ASSUME JInv, NEW t \in Trials, NEW r \in Kept(t)
      PROVE  /\ [trial |-> t, try |-> r.try] \notin running
             /\ \E m \in manifests :
                  m.attempt = [trial |-> t, try |-> r.try] /\ m.status = r.status /\ m.earned
  <2>1. Founded(t, r) /\ \A m \in manifests : m.earned
    BY <1>1 DEF JInv, EarnedInv
  <2>2. PICK m \in manifests :
          m.attempt = [trial |-> t, try |-> r.try] /\ m.status = r.status
    BY <2>1 DEF Founded
  <2>3. m.earned
    BY <2>1
  <2>4. [trial |-> t, try |-> r.try] \notin running
    BY <2>1 DEF Founded
  <2> QED BY <2>2, <2>3, <2>4, Zenon
<1>2. JInv => ReceiptIsEarned
  BY <1>1, Zenon DEF ReceiptIsEarned, Kept
<1> QED BY <1>2, LedgerInvariance, PTL

-----------------------------------------------------------------------------
(* The steps of the phase are steps of the ledger.                         *)

LEMMA WithdrawStep ==
  ASSUME IInv, JInv, NEW w \in Workers, UnlinkReceipt(w)
  PROVE  Ledger!Withdraw(Trial(w)) /\ Trial(w) \in Trials
<1>1. pc[w] = "unlink" /\ ~sealed /\ Trial(w) \in Trials /\ HasReceipt(Trial(w))
  <2>1. pc[w] = "unlink"
    BY DEF UnlinkReceipt
  <2>2. receipt[Trial(w)].status = "failed"
    BY <2>1 DEF JInv, RetryInv
  <2> QED BY <2>1, <2>2, OwnersAreAlone DEF NoReceipt
<1>2. receipt[Trial(w)] \in Outcomes /\ receipt[Trial(w)].status = "failed"
  BY <1>1 DEF JInv, EarnedInv, Kept, Founded, RetryInv
<1> QED BY <1>1, <1>2 DEF UnlinkReceipt, Ledger!Withdraw

LEMMA EnterStep ==
  ASSUME IInv, JInv, NEW w \in Workers, SealResult(w)
  PROVE  Ledger!Enter(Trial(w)) /\ Trial(w) \in Trials
<1>1. ~sealed /\ Trial(w) \in Trials /\ ~HasReceipt(Trial(w))
  BY SealEnters
<1>2. PICK e : receipt' = [receipt EXCEPT ![Trial(w)] = e]
  BY SealEnters
<1>3. receipt'[Trial(w)] = e
  BY <1>1, <1>2 DEF JInv, EarnedInv
<1>4. e \in Outcomes
  <2>1. e = receipt'[Trial(w)] /\ e # NoReceipt
    <3>1. e.status \in {"success", "failed"}
      <4>1. PICK m \in manifests :
              receipt' = [receipt EXCEPT ![Trial(w)] =
                            [try |-> attempt[w].try, status |-> m.status]]
        BY SealEnters
      <4> QED BY <1>1, <1>3, <4>1 DEF JInv, EarnedInv
    <3> QED BY <1>3, <3>1 DEF NoReceipt
  <2>2. JInv'
    BY SealKeeps
  <2>3. PICK t \in Trials : t = Trial(w)
    BY <1>1
  <2> QED BY <2>1, <2>2, <2>3 DEF JInv, EarnedInv, Kept, Founded
<1> QED BY <1>1, <1>2, <1>3, <1>4 DEF SealResult, Ledger!Enter

\* What a ledger step is about.
Bystands == UNCHANGED <<receipt, sealed, nextSchedule>>

LEMMA WorkerBystands ==
  ASSUME IInv, NEW w \in Workers,
         \/ \E retry \in BOOLEAN : Invoke(w, retry)
         \/ Look(w) \/ LockShared(w) \/ AcquireClaim(w) \/ Unlock(w) \/ Settle(w)
         \/ Spawn(w) \/ ChildExit(w) \/ ForceStop(w) \/ TerminateGroup(w) \/ Promote(w)
         \/ Release(w) \/ Die(w)
  PROVE  Bystands
BY DEF Bystands, Invoke, Look, LockShared, AcquireClaim, Unlock, Settle, Spawn, ChildExit,
   ForceStop, TerminateGroup, Promote, Release, Die, files

LEMMA PromotionSteps ==
  ASSUME IInv, JInv, LockExclusive \/ Promotion \/ PromoterDies
  PROVE  Bystands \/ Ledger!Close \/ Ledger!Publish
<1>1. CASE SealPhase
  <2>1. \A t \in Trials : receipt[t] # NoReceipt
    <3>1. Range(<<>>) = {}
      BY DEF Range
    <3> QED BY <1>1, <3>1 DEF SealPhase, IInv, ReadInv
  <2>2. sealed' = TRUE /\ UNCHANGED <<receipt, nextSchedule>>
    BY <1>1 DEF SealPhase
  <2>3. CASE sealed = TRUE
    BY <2>2, <2>3 DEF Bystands
  <2>4. CASE ~sealed
    BY <2>1, <2>2, <2>4 DEF Ledger!Close
  <2> QED BY <2>3, <2>4
<1>2. CASE PublishSchedule
  <2>1. sealed /\ nextSchedule = Nothing /\ seen = receipt
    BY <1>2 DEF PublishSchedule, JInv, PromInv
  <2>2. UNCHANGED <<receipt, sealed>> /\ nextSchedule' \in {seen, nextSchedule}
    BY <1>2 DEF PublishSchedule
  <2> QED BY <2>1, <2>2 DEF Bystands, Ledger!Publish
<1>3. CASE LockExclusive \/ ReadTrial \/ TakeSnapshot \/ PublishReport \/ PromoterDies
  BY <1>3 DEF Bystands, LockExclusive, ReadTrial, TakeSnapshot, PublishReport, PromoterDies,
     files
<1> QED BY <1>1, <1>2, <1>3 DEF Promotion

(* The phase implements the ledger of results: results are entered one by  *)
(* one by their trial's owner, only failures are withdrawn, nothing        *)
(* changes once the phase is sealed, and what is published is exactly what *)
(* the sealed phase holds, for any workers, shards, retries and deaths.    *)
THEOREM PhaseImplementsLedger ==
  ASSUME OneOperator
  PROVE  Spec => ImplementsLedger
<1>1. Init => Ledger!Init
  BY DEF Init, Ledger!Init
<1>2. ASSUME IInv, JInv, [Next]_vars PROVE Ledger!Next \/ Bystands
  <2>1. UNCHANGED vars => Bystands
    BY DEF vars, files, Bystands
  <2>2. ASSUME NEW o \in Operators, Recovery(o) PROVE Bystands
    BY <1>2, <2>2, RecoveryRestoresNothing DEF Quiet, Bystands
  <2>3. ASSUME NEW w \in Workers, UnlinkReceipt(w) \/ SealResult(w) PROVE Ledger!Next
    BY <1>2, <2>3, WithdrawStep, EnterStep DEF Ledger!Next
  <2>4. LockExclusive \/ Promotion \/ PromoterDies => Ledger!Next \/ Bystands
    BY <1>2, PromotionSteps DEF Ledger!Next
  <2>5. ASSUME NEW w \in Workers,
               (\E retry \in BOOLEAN : Invoke(w, retry)) \/ Work(w) \/ LockShared(w)
                 \/ ChildExit(w) \/ ForceStop(w) \/ Die(w)
        PROVE  Ledger!Next \/ Bystands
    BY <1>2, <2>3, <2>5, WorkerBystands DEF Work
  <2> QED BY <1>2, <2>1, <2>2, <2>4, <2>5 DEF Next
<1>3. IInv /\ JInv /\ [Next]_vars => [Ledger!Next]_<<receipt, sealed, nextSchedule>>
  BY <1>2 DEF Bystands
<1> QED BY <1>1, <1>3, LedgerInvariance, PTL DEF Spec, ImplementsLedger
================================================================================
