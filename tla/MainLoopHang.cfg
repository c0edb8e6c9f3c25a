SPECIFICATION FairSpec
CONSTANTS
  Groups = {1}
  Delays = {1}
  Fds = {}
  WakeFd = 3
  InitialSize = 3
  Growth = 3
  DrainBuf = 2
  Resolution = 0
  IdleWait = 9
  AllocMayFail = FALSE
  MaxEvents = 2
  MaxOps = 2
  MaxPipe = 1
  MaxTime = 2
PROPERTY DueTimerServed
CHECK_DEADLOCK FALSE
