SPECIFICATION FairSpec
CONSTANTS
  Conns = {c1, c2, c3}
  Loops = {l1, l2}
  ChanSize = 2
PROPERTIES ImplementsHandOver LoopsEnd
CHECK_DEADLOCK FALSE
