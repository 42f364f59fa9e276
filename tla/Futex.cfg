SPECIFICATION FairSpec
CONSTANTS
  i1 = i1
  i2 = i2
  Isolates = {i1, i2}
  AsyncNodes = {a1, a2}
  IsolateOf <- OneOwner
  WakeCounts = {1, 2}
  MaxEvents = 2
INVARIANTS FutexInv CountedAreWoken InterruptsNotDropped
PROPERTIES PromiseIsResolved
CHECK_DEADLOCK FALSE
