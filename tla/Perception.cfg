SPECIFICATION DataSpec
CONSTANTS
  FrameLen = 4
  MaxFrames = 3
  BufLen = 6
  MaxChunk = 8
  Half = 6
  Distances = {0, 30, 60, 90, 65530}
  Undefined = {0, 60}
  Lengths = {5, 6}
  Levels = {0, 3, 4}
  Intensities = {10, 100}
  Thresholds = {31}
  Counts = {0, 1, 2, 3}
  Ranges = {1, 4}
  Targets = 4
  Fine = 2
  ImageWidth = 10
  ImageHeight = 9
  RectWidth = 4
  RectHeight = 2
  Means = {0, 1, 3}
  Sides = {0, 30, 50, 100}
INVARIANTS
  NothingThrownAway
  FramesHaveHeaders
  SizeNeverWraps
  SmoothIsSymmetric
  RoundWallsStay
  PointsAreMeasured
  TurnsStayWithinLimits
  WindowsInImage
CHECK_DEADLOCK FALSE
