\* Deadlock is not checked: the driver stops after the last layer.
SPECIFICATION Spec
CONSTANTS
  Atoms = {0, 1}
  Aods = {0}
  Storage <- TwoStorage
  Seats <- OneSeats
  Homes <- TwoHomes
  SitePairs <- OnePair
  RowOf <- MCRowOf
  ColOf <- MCColOf
  TransferTime = 2
  ParkTime = 1
  MoveTime = 3
  OneQTime = 2
  RydTime = 1
  OneQCommon = 1
  InitialMapping <- TwoInitial
  InitialBlocks <- LeadBlock
  Program <- SwapProgram
  MaxCrashes = 0
INVARIANTS
  MirrorsRouter
CHECK_DEADLOCK FALSE
