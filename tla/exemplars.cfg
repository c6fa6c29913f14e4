SPECIFICATION Spec
CONSTANTS
  Workers = {1}
  Size = 2
  MaxWrites = 6
  MaxCycles = 3
INVARIANTS
  QuietCollectionExact
CHECK_DEADLOCK FALSE
