SPECIFICATION HSpec
CONSTANTS
  CRASH_WINDOW_SECS = 9
  MAX_CRASH_RESTARTS = 3
  CRASH_BACKOFF_BASE_MS = 1
  CRASH_BACKOFF_CAP_MS = 2
  MaxReloads = 1
  HEARTBEAT_PERIOD_MS = 1
  HEARTBEAT_STALE_THRESHOLD_MS = 2
INVARIANTS
  StartsBounded
PROPERTIES
  HealthyRunForgiven
  EventuallyDisabled
  NoFalseAlert
  DeathReported
