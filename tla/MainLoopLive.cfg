SPECIFICATION FairSpec
CONSTANTS
  Groups = {1}
  Delays = {1}
  Fds = {4, 5}
  WakeFd = 3
  InitialSize = 3
  Growth = 3
  DrainBuf = 10
  Resolution = 1
  IdleWait = 9
  AllocMayFail = FALSE
  MaxEvents = 3
  MaxOps = 1
  MaxPipe = 1
  MaxTime = 2
PROPERTIES DueTimerServed InputServed StopHeardPolling
CHECK_DEADLOCK FALSE
