SPECIFICATION CarSpec
CONSTANTS
  Conns = {c1, c2}
  NoConn = NoConn
  MaxInbox = 1
  MaxKicks = 0
  IPs = {ip1, ip2}
  MaxWriters = 3
SYMMETRY CarSymmetry
INVARIANTS
  WalkInsideList
  UsersMatchClients
CHECK_DEADLOCK FALSE
