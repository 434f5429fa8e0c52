\* Deadlock is not checked: a ledger that raised is discarded by its owner,
\* and one with MaxInstr instructions may prune until nothing is left.
SPECIFICATION Spec
CONSTANTS
  a1 = a1
  a2 = a2
  Atoms = {a1, a2}
  Aods = {0, 1}
  Zones = {0}
  OneQTime = 2
  RydTime = 1
  OneQCommon = 1
  GateBlocks <- MCBlocks
  Pulses <- MCPulses
  Jobs <- MCJobs
  MaxInstr = 3
  MaxDeps = 1
INVARIANTS
  TypeOK
  ActiveUnionIsMeasure
  ClocksSummariseEvents
PROPERTIES
  TimelineSpec
CHECK_DEADLOCK FALSE
