SPECIFICATION Spec
CONSTANTS
  Main = main
  Background = {b1, b2}
  Initiator = initiator
  None = none
  SharedSpace = FALSE
  MaxScopes = 2
SYMMETRY Symmetry
INVARIANTS
  SafepointInv
  SafepointChecks
  WorldStopped
  TimerChecks
  AwaitTrueMeansCollected
  NoWaitOnParkedMain
