\* Deadlock is not checked: a run ends, done or refused.
CONSTANTS
  Atoms = {0, 1, 2, 3}
  Storage <- MCStorage
  Seats <- MCSeats
  Pairs <- MCPairs
  XOf <- MCXOf
  YOf <- MCYOf
  ColOf <- MCColOf
  Homes <- MCHomes
  Programs <- MCPrograms
  Thetas = {1, 2, 3}
  Engines = {"match", "ga", "rich"}
  FinalReturns = {TRUE, FALSE}
  MaxRounds = 3
SPECIFICATION Spec
CHECK_DEADLOCK FALSE
INVARIANTS
  RegistryFollowsStream
  NeverDoubleBooked
  ExecutedLegsClean
  RentCountsIdlePulses
  CapacityHeld
  AuditAgrees
