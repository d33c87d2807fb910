SPECIFICATION Spec
CONSTANTS
  Workers = {w1, w2}
  Weights = {1, 2}
  Capacities = {0, 3}
  YieldInterval = 1
  SampleInterval = 2
  ActivityTimeout = 1
  MaxFuel = 3
  Amounts = {3}
  Caps = {1}
  MaxLate = 1
  MaxWindow = 5
INVARIANTS TypeOK ChargedIsConsumed SplitIsFair WindowsKeptApart
PROPERTIES OnlyExcessIsHeld
SYMMETRY WorkerSymmetry
