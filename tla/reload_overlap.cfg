SPECIFICATION Spec
CONSTANTS
  MaxReloads = 1
  MaxCrashes = 0
  MaxFailures = 0
  MAX_CRASH_RESTARTS = 2
INVARIANT
  SoleConsumer
CHECK_DEADLOCK FALSE
