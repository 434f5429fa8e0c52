\* Deadlock is not checked: the driver stops after the last layer.
SPECIFICATION Spec
CONSTANTS
  Atoms = {0, 1, 2, 3}
  Aods = {0}
  Storage <- FourStorage
  Seats <- MCSeats
  Homes <- SecondPairHomes
  SitePairs <- MCPairs
  RowOf <- MCRowOf
  ColOf <- MCColOf
  TransferTime = 2
  ParkTime = 1
  MoveTime = 3
  OneQTime = 2
  RydTime = 1
  OneQCommon = 0
  InitialMapping <- FourInitial
  InitialBlocks <- NoBlock
  Program <- RepeatProgram
  MaxCrashes = 0
INVARIANTS
  BackBeforeNextPulse
CHECK_DEADLOCK FALSE
