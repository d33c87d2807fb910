SPECIFICATION FairSpec
CONSTANTS
  w1 = w1
  c1 = c1
  c2 = c2
  k1 = k1
  None = None
  Workers = {w1}
  Clients = {c1}
  Calls = {k1}
  Callee <- CalleeOne
  Methods = {"m"}
  Faults = {"component", "start", "run", "crash"}
INVARIANTS
  TypeOK
  OneSubprocess
  Owned
  HandlersExposed
  DaemonWorkerClosed
PROPERTIES
  NobodyStuck
CHECK_DEADLOCK FALSE
