SPECIFICATION FairSpec
CONSTANTS
  Main = main
  Background = {}
  Initiator = initiator
  None = none
  SharedSpace = TRUE
  MaxScopes = 1
PROPERTIES
  ImplementsStopTheWorld
  IsolatesDoNotDeadlock
CHECK_DEADLOCK FALSE
