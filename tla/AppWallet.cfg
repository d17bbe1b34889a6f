SPECIFICATION Spec
CONSTANTS
  A = A
  B = B
  r1 = r1
  r2 = r2
  Instances = {A, B}
  Requests = {r1, r2}
  Home <- Apart
  MaxWallets = 2
  None = None
INVARIANT OneWalletInTurn
PROPERTY NoLateInitialiser
