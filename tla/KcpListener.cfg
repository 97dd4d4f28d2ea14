SPECIFICATION FairSpec
CONSTANTS
  s1 = s1
  s2 = s2
  Sessions = {s1, s2}
  Streams <- TwoAndOne
  Loops = {l1, l2}
  ChanSize = 2
PROPERTIES ImplementsHandOver LoopsEnd AcceptedIsServed StopEndsListener
CHECK_DEADLOCK FALSE
