SPECIFICATION FairSpec
CONSTANTS
  VMs = {v1}
  None = None
  DeltaCap = 1
  MaxChanges = 2
  MaxMoves = 2
  MaxFaults = 1
INVARIANTS
  TypeOK
  Verified
  Heeded
PROPERTIES
  Settles
  GateRetries
CHECK_DEADLOCK FALSE
