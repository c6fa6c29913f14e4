SPECIFICATION Spec
CONSTANTS
  Messages <- MCMessages
  Level <- MCLevel
  Text <- MCText
  Conns <- MCConns
  Hash <- MCHash
  Capacity = 2
  RingCap = 1
  LevelFloor = 4
  CoalesceEnabled = TRUE
  Crashes = FALSE
  ErrorDrainCap = 2
  MaxEvents = 3
INVARIANTS
  ExactCounts
PROPERTIES
  SuppressedWasSampled
