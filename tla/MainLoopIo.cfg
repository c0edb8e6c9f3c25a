SPECIFICATION Spec
CONSTANTS
  Groups = {1, 2}
  Delays = {0}
  Fds = {4, 5}
  WakeFd = 3
  InitialSize = 2
  Growth = 1
  DrainBuf = 10
  Resolution = 0
  IdleWait = 9
  AllocMayFail = TRUE
  MaxEvents = 3
  MaxOps = 2
  MaxPipe = 1
  MaxTime = 0
INVARIANTS LoopInv DescriptorsWatched NoOrphanDescriptor SafeUntilGrown
PROPERTY ImplementsEventSet
CHECK_DEADLOCK FALSE
