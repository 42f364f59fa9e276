SPECIFICATION FairSpec
CONSTANTS
  Workers = {w1, w2, w3}
  Owner = Owner
  NumWorkerThreads = 2
  kMaxWorkersPerJob = 3
  MaxItems = 5
INVARIANTS JobInv
PROPERTIES ConcurrencyRespected JobEnds
CHECK_DEADLOCK FALSE
