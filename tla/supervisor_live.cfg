CONSTANTS
  w1 = w1
  w2 = w2
  e1 = e1
  e2 = e2
  k1 = k1
  c1 = c1
  c2 = c2
  c3 = c3
  None = None
  Workers = {w1}
  Execs = {e1, e2}
  Calls = {k1}
  GuestCalls = {c1, c2}
  Owner <- OwnerShared
  ExecOf <- OneEach
  GuestConcurrency = 1
  GuestQueue = 1
  HostConcurrency = 1
  HostQueue = 1
  RequestsCapacity = 1
  Crashes = TRUE
SPECIFICATION FairSpec
CHECK_DEADLOCK FALSE
PROPERTIES RequestsResolve GuestCallsEnd
