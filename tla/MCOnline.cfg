\* Deadlock is not checked: a compile ends, and one killed before its first
\* checkpoint is refused a fresh start.
CONSTANTS
  NAtoms = 6
  NPairs = 2
  Circuits <- MCCircuits
  Methods = {"M1", "M2", "M3", "M4"}
  Horizon = 1
  Interval = 2
  Limits = {0, 1, 2}
  Longest = 7
  MaxKills = 2
SPECIFICATION FairSpec
CHECK_DEADLOCK FALSE
INVARIANTS
  StoreIsSound
  NeverOutOfRoom
  NeverRefused
  LedgerKept
  ChunkStaysPlaced
  LitForAReason
  CheckpointOwnsItsLayers
PROPERTIES
  ImplementsLog
  StartedIsPublished
