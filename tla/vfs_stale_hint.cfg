SPECIFICATION Spec
CONSTANTS
  Procs = {t1, t2}
  Paths <- OneFile
  Versions = {1, 2}
  ReadOnly = {}
  Unreadable = {}
  Negative = FALSE
  Methods = {}
  Ops = {"read", "write"}
  Drops = {}
  Outside = FALSE
INVARIANT
  NothingStaleInserted
