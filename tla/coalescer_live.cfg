SPECIFICATION FairSpec
CONSTANTS
  Messages <- TwoMessages
  Level <- TwoLevel
  Text <- TwoText
  Conns <- MCConns
  Hash <- MCHash
  Capacity = 1
  RingCap = 1
  LevelFloor = 4
  CoalesceEnabled = TRUE
  Crashes = TRUE
  ErrorDrainCap = 2
  MaxEvents = 2
PROPERTIES
  SlotsAreFreed
  WriterReturns
