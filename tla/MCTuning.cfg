\* Deadlock is not checked: a phase that is published is over.
CONSTANTS
  Schedule <- TwoTrials
  Workers = {"w1", "w2"}
  Operators = {"o1"}
  Shard <- Overlapping
  MaxRetryRuns = 1
  MaxFaults = 1
SPECIFICATION FairSpec
CHECK_DEADLOCK FALSE
INVARIANTS
  OneOwner
  SealedIsComplete
  ReceiptIsEarned
PROPERTIES
  NothingLost
  ClaimsAreHonoured
  ImplementsLedger
  PhasePublished
