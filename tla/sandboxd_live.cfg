SPECIFICATION FairSpec
CONSTANTS
  w1 = w1
  e1 = e1
  e2 = e2
  NoId = NoId
  Workers = {w1}
  Execs = {e1, e2}
  Owner <- OwnerShared
  QueueCapacity = 1
  BadExecs = {e2}
  UpdateKinds <- TimeoutOnly
  Imports = {"timer", "rpc"}
  EarlyClose = FALSE
  Timeouts = {"none", "armed"}
  Submits = {"Execute", "Cancel", "UpdateLimits", "CloseWorker", "Shutdown", "GuestResponse", "HealthCheck"}
  MaxInbox = 1
INVARIANT
  NoLostReschedule
PROPERTY
  ControlResolves
CHECK_DEADLOCK FALSE
