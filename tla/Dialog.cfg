SPECIFICATION FairSpec
CONSTANTS
  Stoppers = {s1, s2}
  ChanSize = 1
  MaxPacks = 3
INVARIANTS ReceivedIntact OnlyLastIsLost SentUnderSession
PROPERTIES StopEndsDialog
CHECK_DEADLOCK FALSE
