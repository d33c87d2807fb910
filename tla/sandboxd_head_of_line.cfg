SPECIFICATION FairSpec
CONSTANTS
  w1 = w1
  e1 = e1
  e2 = e2
  NoId = NoId
  Workers = {w1}
  Execs = {e1}
  Owner <- OwnerOne
  QueueCapacity = 1
  BadExecs = {}
  UpdateKinds <- StoreOnly
  Imports = {"rpc"}
  EarlyClose = FALSE
  Timeouts = {"none"}
  Submits = {"Execute", "UpdateLimits", "GuestResponse", "HealthCheck"}
  MaxInbox = 3
PROPERTY
  HealthAnswered
CHECK_DEADLOCK FALSE
