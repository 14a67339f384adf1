SPECIFICATION FairSpec
CONSTANTS
  Conns = {c1, c2}
  NoConn = NoConn
  MaxInbox = 2
  MaxKicks = 1
INVARIANTS
  ClientsAreFound
  RegistryIsCurrent
PROPERTIES
  ImplementsSessions
  ClosedIsForgotten
  LateStopEnds
CHECK_DEADLOCK FALSE
