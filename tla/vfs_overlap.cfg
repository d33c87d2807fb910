SPECIFICATION Spec
CONSTANTS
  Procs = {t1, t2}
  Paths <- OneFile
  Versions = {1, 2}
  ReadOnly = {}
  Unreadable = {2}
  Negative = TRUE
  Methods = {}
  Ops = {"stat", "read", "write", "truncate"}
  Drops = {"stat", "read"}
  Outside = TRUE
SYMMETRY TaskSymmetry
INVARIANT
  FreshWhileCurrent
