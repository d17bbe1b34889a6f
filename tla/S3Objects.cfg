SPECIFICATION FairSpec
CONSTANTS
  Conns = {c}
  Hosts <- MCHosts
  Allow <- MCAllow
  Deny <- MCDeny
  Lower <- MCLower
  Dns <- MCDns
  Loopback = "lo"
  MaxChunks = 1
  Requests = {r}
  Values = {a}
  Configs <- MCConfigs
  S3Host <- MCBucket
  MaxAttempts = 2
  MaxCalls = 2
  None = None
INVARIANT AllowedOnly
INVARIANT StoredStaysReadable
PROPERTY Delivered
PROPERTY Released
PROPERTY RequestsSettle
CHECK_DEADLOCK FALSE
