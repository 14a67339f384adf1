SPECIFICATION FairSpec
CONSTANTS
  OperatorValues <- MCOperatorValues
  Messages = {1}
  Handlers = {"sig1", "sig2"}
PROPERTIES
  SafeSignalStops
  RunEnds
CHECK_DEADLOCK FALSE
