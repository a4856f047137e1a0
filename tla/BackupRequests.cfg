SPECIFICATION AskedSpec
CONSTANTS
  VMs = {v1}
  Data = {a}
  Nil = Nil
  None = None
  Unknown = Unknown
  Closers = {}
  WarmOutcomes = {"ok"}
  MaxFaults = 0
  MaxCrashes = 0
INVARIANT LastRequestOnDisk
CHECK_DEADLOCK FALSE
