---------------------------- MODULE ResumableLog ----------------------------
(***************************************************************************)
(* What a compile that writes streams, checkpoints and resumes promises to *)
(* whoever reads its output directory: checkpoints only ever move forward, *)
(* and the result appears once, complete, after the last stage was saved.  *)
(***************************************************************************)
EXTENDS Integers

CONSTANTS
  LastStage,      \* the number of stages a complete result stands for
  Full,           \* the contents of a complete result
  NoResult        \* "nothing is published"

VARIABLES
  saved,          \* stages covered by the checkpoint, -1 when there is none
  result          \* what the output directory holds

logVars == <<saved, result>>

Init ==
  /\ saved = -1
  /\ result = NoResult

Save ==
  /\ result = NoResult
  /\ saved' \in (saved + 1)..LastStage
  /\ UNCHANGED result

Publish ==
  /\ result = NoResult
  /\ saved = LastStage
  /\ result' = Full
  /\ UNCHANGED saved

Next == Save \/ Publish

Spec == Init /\ [][Next]_logVars
=============================================================================
