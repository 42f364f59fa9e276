SPECIFICATION FairSpec
CONSTANTS
  Functions = {f1}
  Jobs = {j1, j2}
  Tasks = {k1, k2}
  None = None
  Capacity = 2
  AlwaysTurbofan = TRUE
INVARIANTS DispatcherInv NoJobsMeansNone NothingForgotten
PROPERTIES ImplementsPipeline AwaitReturns
CHECK_DEADLOCK FALSE
