\* Deadlock is not checked: a published compile is over.
CONSTANTS
  StreamOrder <- MCStreamOrder
  Entries <- MCEntries
  LastStage = 3
  EveryStages = 2
  ProgressEvery = 2
  Interrupts = {0, 1}
  MaxErrors = 1
  MaxKills = 1
  MaxLosses = 1
SPECIFICATION FairSpec
CHECK_DEADLOCK FALSE
INVARIANTS
  StreamMatchesChain
  ResumableAfterKill
  OrphanOnlyAfterKill
PROPERTIES
  ImplementsLog
  CheckpointedIsPublished
