\* Deadlock is not checked: the driver stops after the last layer.
SPECIFICATION FairSpec
CONSTANTS
  Atoms = {0, 1, 2}
  Aods = {0, 1}
  Storage <- MCStorage
  Seats <- OneSeats
  Homes <- NextHomes
  SitePairs <- OnePair
  RowOf <- MCRowOf
  ColOf <- MCColOf
  TransferTime = 2
  ParkTime = 1
  MoveTime = 3
  OneQTime = 2
  RydTime = 1
  OneQCommon = 0
  InitialMapping <- MCInitial
  InitialBlocks <- LeadBlock
  Program <- NextProgram
  MaxCrashes = 1
PROPERTIES
  LayerPublished
INVARIANTS
  NeverRefused
  HandoverInOrder
CHECK_DEADLOCK FALSE
