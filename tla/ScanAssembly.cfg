SPECIFICATION Spec
CONSTANTS
  PackPoints = 3
  MaxPoints = 11
  Turn = 12
  Tolerance = 1
  FirstMax = 3
  Spans = {2, 4, 6}
INVARIANTS
  PublishedTurnsAscend
  EmptyTurnsExplained
  WholeTurnsPublished
