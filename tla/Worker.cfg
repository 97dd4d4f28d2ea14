SPECIFICATION FairSpec
CONSTANTS
  Pushers = {p1}
  Reader = reader
  Stoppers = {s1, s2}
  ChanSize = 1
  HandlerPushes = TRUE
  MaxPushes = 1
INVARIANTS AcceptedInOrder NothingLeftRunning
PROPERTIES ImplementsLifecycle StopEndsWorker FailureEndsWorker
CHECK_DEADLOCK FALSE
