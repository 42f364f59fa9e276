SPECIFICATION FairSpec
CONSTANTS
  Main = main
  Background = {b1}
  Initiator = initiator
  None = none
  SharedSpace = FALSE
  MaxScopes = 1
PROPERTIES
  CollectionWaitersWoken
  SafepointReached
