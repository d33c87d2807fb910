SPECIFICATION FairSpec
CONSTANTS
  Calls = {c1, c2}
  QueueCapacity = 1
  Modes <- BothModes
  MaxExecs = 2
  MaxSpins = 2
  MaxUpdates = 1
INVARIANTS TypeOK OnlyLeavingSpinDropsCalls
PROPERTIES CallsKeepPromise SpinEndsForCause CallsResolve
CHECK_DEADLOCK FALSE
