SPECIFICATION FairSpec
CONSTANTS
  A = A
  B = B
  Instances = {A, B}
  Manifest <- ManifestMixed
  ForeignPorts <- LastClockPortTaken
  BindRetryLimit = 2
  ConflictRetryLimit = 2
  NoOwner = NoOwner
  Foreign = Foreign
  ForeignCids = {16}
  PortBase = 20000
  PortStride = 4
  EgressOffset = 0
  ClockSyncOffset = 1
  HostfsOffsetBase = 2
  HostfsCapacity = 2
  ManagedCidStart = 16
  ManagedCidEnd = 17
  U32Max = 2147483647
INVARIANT ServicesReadyBeforeBoot
INVARIANT ReservationExclusive
INVARIANT ListenersInBlock
INVARIANT LeakIsReported
PROPERTY TerminatesOnlyOwn
PROPERTY CancelReturns
CHECK_DEADLOCK FALSE
