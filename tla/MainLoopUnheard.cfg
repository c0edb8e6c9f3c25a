SPECIFICATION FairSpec
CONSTANTS
  Groups = {1}
  Delays = {1}
  Fds = {4}
  WakeFd = 3
  InitialSize = 3
  Growth = 3
  DrainBuf = 10
  Resolution = 0
  IdleWait = 9
  AllocMayFail = FALSE
  MaxEvents = 1
  MaxOps = 1
  MaxPipe = 1
  MaxTime = 2
PROPERTY StopHeard
CHECK_DEADLOCK FALSE
