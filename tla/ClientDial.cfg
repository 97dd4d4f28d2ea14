SPECIFICATION Spec
CONSTANTS
  Dialers = {"tcp", "websocket", "kcp", "smux"}
  StreamSize = 3
  MaxStarts = 3
INVARIANTS StartedIsWhole StopClosesServing
CHECK_DEADLOCK FALSE
