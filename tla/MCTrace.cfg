\* Deadlock is not checked: a stream ends.
CONSTANTS
  Atoms = {1, 2, 3}
  Places = {1, 2, 3, 4}
  Homes <- MCHomes
  Hits <- MCHits
  Compatible <- MCCompatible
  OneQTime = 1
  RydbergTime = 1
  TransferTime = 1
  Orders = {"chronological", "dependency"}
  Rotated = {3}
  Pulses <- MCPulses
  Groups = {{2}, {3}, {2, 3}}
  MoveTime = 1
  MaxTime = 6
  MaxEvents = 6
SPECIFICATION Spec
CHECK_DEADLOCK FALSE
INVARIANTS
  ScorerFollows
  GatesAtRest
  ReferenceAgrees
PROPERTIES
  ImplementsTimeline
