SPECIFICATION Spec
CONSTANTS
  w1 = w1
  e1 = e1
  e2 = e2
  NoId = NoId
  Workers = {w1}
  Execs = {e1, e2}
  Owner <- OwnerShared
  QueueCapacity = 1
  BadExecs = {}
  UpdateKinds <- StoreOnly
  Imports = {"spin"}
  EarlyClose = TRUE
  Timeouts = {"none"}
  Submits = {"Execute", "Cancel", "UpdateLimits", "CloseWorker"}
  MaxInbox = 1
INVARIANTS
  TypeOK
  CancelNotLost
  NoLostWakeup
  AwaitedUpdateKept
  OnePlace
  EndedMeansDrained
PROPERTY
  ResultFinal
CHECK_DEADLOCK FALSE
