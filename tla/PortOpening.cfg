SPECIFICATION OpeningSpec
CONSTANTS
  Ports = {"a1", "a2", "b"}
  Procs = {"main", "child"}
  Process <- MCProcess
  Parent <- MCParent
  Gone = "gone"
  Bytesizes = {7, 8}
  Flows = {"none", "software"}
  Bauds = {9600, 38400, 250000}
  CustomBaud = 250000
INVARIANTS
  OpenPortsAreLocked
  NoneWronged
  NoOrphans
  SettingsInForce
  DescriptorsKept
CHECK_DEADLOCK FALSE
