SPECIFICATION FairSpec
CONSTANTS
  Config <- Full
  AuthPort = 1
  MaxConns = 2
INVARIANT ServicesBehindIngress
INVARIANT AppStartsComplete
INVARIANT ReportedAfterShutdown
PROPERTY ExitIsReported
CHECK_DEADLOCK FALSE
