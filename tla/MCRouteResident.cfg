\* Deadlock is not checked: the driver stops after the last layer.
SPECIFICATION Spec
CONSTANTS
  Atoms = {0, 1, 2}
  Aods = {0}
  Storage <- MCStorage
  Seats <- MCSeats
  Homes <- MCHomes
  SitePairs <- MCPairs
  RowOf <- MCRowOf
  ColOf <- MCColOf
  TransferTime = 2
  ParkTime = 1
  MoveTime = 3
  OneQTime = 2
  RydTime = 1
  OneQCommon = 0
  InitialMapping <- MCInitial
  InitialBlocks <- NoBlock
  Program <- MCProgram
  MaxCrashes = 0
INVARIANTS
  TypeOK
  ExposedAtRest
CHECK_DEADLOCK FALSE
