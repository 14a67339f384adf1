SPECIFICATION FairSpec
CONSTANTS
  Threads = {"a", "b"}
  Sizes = {2}
  LineSizes = {3}
  Total = 2
  InterByte = 1
INVARIANTS
  OnlyCloseTakesPort
  ShortTransfersAreLate
  LineFits

  
CHECK_DEADLOCK FALSE
