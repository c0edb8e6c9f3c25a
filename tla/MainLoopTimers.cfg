SPECIFICATION Spec
CONSTANTS
  Groups = {1, 2}
  Delays = {1, 2}
  Fds = {}
  WakeFd = 3
  InitialSize = 1
  Growth = 1
  DrainBuf = 10
  Resolution = 0
  IdleWait = 9
  AllocMayFail = FALSE
  MaxEvents = 3
  MaxOps = 2
  MaxPipe = 1
  MaxTime = 2
  Intervals = {1, 2, 3}
INVARIANTS MemorySafe MeetsInTime ScoreCounts
PROPERTY ImplementsEventSet
CHECK_DEADLOCK FALSE
