SPECIFICATION FairSpec
CONSTANTS
  MaxTurns = 2
INVARIANTS
  GrabsArePublished
  GrabsAreFresh
PROPERTIES
  DestructorReturns
CHECK_DEADLOCK FALSE
