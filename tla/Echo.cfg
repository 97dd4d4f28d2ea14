SPECIFICATION FairSpec
CONSTANTS
  N = 12
  Cap = 1
INVARIANTS EchoesInOrder
PROPERTIES EchoesArrive MainReturns
CHECK_DEADLOCK FALSE
