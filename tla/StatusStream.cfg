SPECIFICATION StatusFairSpec
CONSTANTS
  LaunchResults <- Ends
  StatusRetryLimit = 4
  MaxDrops = 3
INVARIANT NoMissedUpdate
INVARIANT ResultIsStatus
PROPERTY WaitEnds
CHECK_DEADLOCK FALSE
