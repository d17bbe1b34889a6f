SPECIFICATION FairSpec
CONSTANTS
  p1 = p1
  p2 = p2
  d1 = d1
  d2 = d2
  Procs = {p1, p2}
  Dirs = {d1, d2}
  Requests <- Crossed
  SizeMb <- Resized
  EarlierMb = {1, 2}
  NoProc = NoProc
  MaxWrites = 1
INVARIANT MountedUnderLock
INVARIANT ContainerHasMounts
INVARIANT QuotaHolds
INVARIANT ExitsClean
PROPERTY FilesPreserved
PROPERTY SignalEnds
CHECK_DEADLOCK FALSE
