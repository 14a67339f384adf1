SPECIFICATION FairSpec
CONSTANT SetTimeOut = 2
INVARIANTS
  NoStaleDescriptor
PROPERTIES
  RequestsHeard
  CallsReturn
CHECK_DEADLOCK FALSE
