SPECIFICATION Spec
CONSTANTS
  Procs = {t1}
  Paths <- Tree
  Versions = {1, 2}
  ReadOnly = {2}
  Unreadable = {}
  Negative = TRUE
  Methods = {"rename"}
  Ops = {"stat", "list", "write", "unlink", "rmdir", "mkdir", "rename"}
  Drops = {}
  Outside = FALSE
INVARIANTS
  TypeOK
  Coherent
  NothingStaleInserted
