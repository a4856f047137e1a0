\* Every apply holds the mutex: the fetch never fails outright.
SPECIFICATION FairSpec
CONSTANTS
  v1 = v1  v2 = v2  n1 = n1  n2 = n2  e1 = e1  e2 = e2  f1 = f1  i1 = i1  i2 = i2
  VMs = {v1, v2}
  NoVM = NoVM
  Names = {n1, n2}
  NoName = NoName
  NameOf <- TwoNames
  External = {e1, e2}
  Internal = {i1, i2}
  NoAddress = NoAddress
  Loop = Loop
  Handlers = {h}
  None = None
  Unknown = Unknown
  Tables <- TwoTables
  Deltas <- MoveWebhooks
  Foreign = {f1}
  Stored <- NoBackups
  Faults = {"empty", "nft", "bgp", "kill"}
  MaxFaults = 1
  MaxChanges = 3
INVARIANTS TypeOK FingerprintTrue RecordedProgrammed AnnouncedTrue
PROPERTIES RulesBeforeAdvertise Converges
CHECK_DEADLOCK FALSE
