SPECIFICATION FairSpec
CONSTANTS
  Depth = 2
  MaxBatches = 3
  Size <- MCSize
  Chunk = 1
  SendBudget = 1
  BackoffBase = 1
  BackoffCap = 2
  Hints <- MCHints
  MaxConsecutive = 2
INVARIANTS
  NoBatchLost
  OldestFirst
  DropsCounted
PROPERTIES
  FreshDeferralKept
  QuitEndsLoop
  QueueDrains
CHECK_DEADLOCK FALSE
