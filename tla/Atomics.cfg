SPECIFICATION Spec
CONSTANTS
  Threads = {t1, t2, t3}
  NoThread = NoThread
  NotifyCounts = {1, 2, 9}
  kAllWaiters = 9
  TimedWaits = TRUE
SYMMETRY Symmetry
INVARIANTS MutexInv FreeMutexHasContender
PROPERTIES ImplementsMonitor WaitersStayReachable
CHECK_DEADLOCK FALSE
