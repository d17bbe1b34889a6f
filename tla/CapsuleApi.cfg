SPECIFICATION FairSpec
CONSTANTS
  Conns = {c1, c2}
  ClientDers = {k}
  NodeDer = kms
  Nonces = {n1, n2}
  Capacity = 2
  AuthzTtl = 2
  KmsConfigured = TRUE
  UseAppWallet = TRUE
  WeakFallback = FALSE
  None = None
PROPERTY NonceUsedOnce
PROPERTY RevocationBinds
PROPERTY AttestationAnswered
CHECK_DEADLOCK FALSE
