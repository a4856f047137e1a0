\* Anything may be lost, anything may be reordered.
SPECIFICATION FairSpec
CONSTANTS
  VMs = {v1}
  TTL = 2
  Horizon = 5
  MaxTime = 7
  Webhooks = {"updated", "deleted"}
  Lossy = {"migrate.started", "migrate.synced", "migrate.departed", "migrate.failed", "start.finished", "stop.finished", "snapshot"}
INVARIANTS TypeOK StagedIffStamped
PROPERTIES RegressOnlyOverSnapshot PlacementConverges
CHECK_DEADLOCK FALSE
