SPECIFICATION FairSpec
CONSTANTS
  OperatorValues <- MCOperatorValues
  Messages = {1, 2, 83, 87}
  Handlers = {"sig1"}
INVARIANTS
  AutoStopsInTime
PROPERTIES
  AutoAlternates
  SendDataReturns
CHECK_DEADLOCK FALSE
