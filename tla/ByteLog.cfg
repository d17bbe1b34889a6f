SPECIFICATION LogFairSpec
CONSTANTS
  Readers = {r1, r2}
  Capacity = 4
  ChunkMax = 3
  BufSize = 3
  MaxBytes = 8
INVARIANT RingHoldsTail
INVARIANT StreamIsFaithful
PROPERTY Promise
PROPERTY CatchesUp
CHECK_DEADLOCK FALSE
