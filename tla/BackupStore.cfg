\* Two VMs share a batch; the scan may fail, so loads read files; a file
\* operation fails, the process crashes, and close is called again and again.
SPECIFICATION FairSpec
CONSTANTS
  VMs = {v1, v2}
  Data = {a}
  Nil = Nil
  None = None
  Unknown = Unknown
  Closers = {c1}
  WarmOutcomes = {"ok", "scan_failed"}
  MaxFaults = 1
  MaxCrashes = 1
INVARIANTS TypeOK QuietLoadIsDisk DrainedMeansWritten FlusherComes
PROPERTIES EventuallyWritten CloseReturns ImplementsWriteQueue
CHECK_DEADLOCK FALSE
