SPECIFICATION FairSpec
CONSTANTS
  Lens = {0, 1, 2, 4, 5}
  MaxPackSize = 4
  Sizes = {1, 3}
  MaxFrames = 3
INVARIANTS DecodedIsPrefix LentIsHeld
PROPERTIES FramesArrive
CHECK_DEADLOCK FALSE
