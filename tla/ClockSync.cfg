SPECIFICATION ClockFairSpec
CONSTANTS
  NanosPerSec = 2
  MaxAttempts = 2
  Timeout = 2
  MaxElapsed = 4
  MaxSkew = 3
PROPERTIES
  ErrorWithinHalfRtt
  KeepsSyncing
CHECK_DEADLOCK FALSE
