\* Two nodes, between which the VM goes back and forth.
SPECIFICATION FairSpec
CONSTANTS
  Nodes = {n1, n2}
  Observer = n1
  None = None
  TTL = 2
  Horizon = 5
  MaxTime = 5
  MaxSnapshots = 1
  Lossy = {"snapshot"}
INVARIANTS TypeOK StaleCleared
PROPERTIES OneHost ImplementsStore
CHECK_DEADLOCK FALSE
