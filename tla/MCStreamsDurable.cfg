\* Deadlock is not checked: a published compile is over.
CONSTANTS
  StreamOrder <- MCStreamOrder
  Entries <- MCEntries
  LastStage = 2
  EveryStages = 1
  ProgressEvery = 2
  Interrupts = {0}
  MaxErrors = 0
  MaxKills = 0
  MaxLosses = 1
SPECIFICATION Spec
CHECK_DEADLOCK FALSE
INVARIANTS
  ResumableCheckpoint
