\* Pages of one row, a VM whose VMID comes with its addresses and one without.
SPECIFICATION FairSpec
CONSTANTS
  i1 = i1  i2 = i2  n1 = n1
  VMs = {v1, v2}
  Inline = {v1}
  External = {e1, e2}
  Internal = {i1, i2}
  NoAddress = NoAddress
  NoVM = NoVM
  Names = {n1}
  NoName = NoName
  NameOf <- OneName
  Order <- InOrder
  PageSize = 1
  BatchSize = 1
  MaxEdits = 2
  MaxFaults = 1
INVARIANTS TypeOK FetchSound FetchComplete
PROPERTIES CacheAccurate
CHECK_DEADLOCK FALSE
