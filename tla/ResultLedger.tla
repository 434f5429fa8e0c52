----------------------------- MODULE ResultLedger ------------------------------
(***************************************************************************)
(* What a tuning phase promises to whoever reads its outcome: results are  *)
(* entered one by one, a failed one may be withdrawn and entered again, a  *)
(* success stands.  The ledger is closed when it is complete; from then on *)
(* it never changes, and what is published is what it holds.               *)
(***************************************************************************)
CONSTANTS Trials, Results, Failed, NoResult, Unpublished

VARIABLES
  entry,       \* for each trial its result or NoResult
  closed,
  published    \* Unpublished, or the entries the next phase is built on

ledgerVars == <<entry, closed, published>>

Init ==
  /\ entry = [t \in Trials |-> NoResult]
  /\ closed = FALSE
  /\ published = Unpublished

Enter(t) ==
  /\ ~closed /\ entry[t] = NoResult
  /\ entry'[t] \in Results
  /\ entry' = [entry EXCEPT ![t] = entry'[t]]
  /\ UNCHANGED <<closed, published>>

Withdraw(t) ==
  /\ ~closed /\ entry[t] \in Failed
  /\ entry' = [entry EXCEPT ![t] = NoResult]
  /\ UNCHANGED <<closed, published>>

Close ==
  /\ ~closed /\ \A t \in Trials : entry[t] # NoResult
  /\ closed' = TRUE
  /\ UNCHANGED <<entry, published>>

Publish ==
  /\ closed /\ published = Unpublished
  /\ published' = entry
  /\ UNCHANGED <<entry, closed>>

Next ==
  \/ \E t \in Trials : Enter(t) \/ Withdraw(t)
  \/ Close \/ Publish
================================================================================
