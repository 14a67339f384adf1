SPECIFICATION ClientSpec
CONSTANTS
  MaxWaiting = 2
INVARIANTS
  NothingLeftBehind
PROPERTIES
  DisconnectReturns
