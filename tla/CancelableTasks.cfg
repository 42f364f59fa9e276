SPECIFICATION FairSpec
CONSTANTS
  Tasks = {t1, t2, t3}
  NoTask = NoTask
  MaxId = 4
INVARIANTS NothingAfterCancelAndWait SettledNeverRuns
PROPERTIES ImplementsGate CancelAndWaitReturns
CHECK_DEADLOCK FALSE
