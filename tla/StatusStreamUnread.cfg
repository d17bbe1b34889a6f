SPECIFICATION StatusFairSpec
CONSTANTS
  LaunchResults <- Ends
  StatusRetryLimit = 4
  MaxDrops = 1
PROPERTY EndIsReported
CHECK_DEADLOCK FALSE
