SPECIFICATION FairSpec
CONSTANTS
  MaxReloads = 2
  MaxCrashes = 1
  MaxFailures = 1
  MAX_CRASH_RESTARTS = 1
INVARIANTS
  SoleConsumerInTime
  DrainOwnership

  
CHECK_DEADLOCK FALSE
