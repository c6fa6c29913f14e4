SPECIFICATION Spec
SYMMETRY MCSymmetry
CONSTANTS
  w1 = w1
  w2 = w2
  Workers <- MCWorkers
  Values = {0, 1, 5}
  Bounds <- MCBounds
  MaxRecords = 3
  MaxReloads = 1
INVARIANTS
  SnapshotCovers
  CountsExact
CONSTRAINT Undisturbed
CHECK_DEADLOCK FALSE
