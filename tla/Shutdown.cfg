\* NetBox, pmxcfs, nft and ip fail, the process dies or is stopped; a migration
\* arrives while it stops.
SPECIFICATION FairStopSpec
CONSTANTS
  v1 = v1  v2 = v2  n1 = n1  n2 = n2  e1 = e1  e2 = e2  f1 = f1  i1 = i1  i2 = i2
  VMs = {v1, v2}
  NoVM = NoVM
  Names = {n1, n2}
  NoName = NoName
  NameOf <- TwoNames
  External = {e1, e2}
  Internal = {i1, i2}
  NoAddress = NoAddress
  Loop = Loop
  Handlers = {h}
  None = None
  Unknown = Unknown
  Tables <- MovedTable
  Deltas <- SecondUpdated
  Foreign = {f1}
  Stored <- NoBackups
  Faults = {"empty", "disk", "crash", "bgp", "kill", "nft", "stop", "hang"}
  MaxFaults = 2
  MaxChanges = 2
  EventStages = {"stopping", "draining", "drained", "withdrawn", "flushed"}
INVARIANTS ForeignUntouched OwnAddressesKnown CleanStop
PROPERTIES RulesConverge Stops
CHECK_DEADLOCK FALSE
