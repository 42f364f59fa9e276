SPECIFICATION MicrotaskFairSpec
CONSTANTS
  m1 = m1
  m2 = m2
  c1 = c1
  c2 = c2
  Microtasks = {m1, m2, m3}
  Contexts = {c1, c2}
  ContextOf <- Mixed
  None = None
  kMinimumCapacity = 1
  Terminations = TRUE
  MaxDepth = 3
INVARIANTS MicrotaskInv
PROPERTIES ImplementsFifo 
CHECK_DEADLOCK FALSE
