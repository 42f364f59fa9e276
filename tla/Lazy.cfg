SPECIFICATION FairSpec
CONSTANTS
  f1 = f1
  f2 = f2
  Functions = {f1, f2}
  Outer <- Nested
  Workers = {w1, w2}
  None = None
  IdleTasksEnabled = TRUE
  MaxThreads = 0
  AllocationFails = TRUE
INVARIANTS LazyInv
PROPERTIES JobsFinish
CHECK_DEADLOCK FALSE
