SPECIFICATION WebFairSpec
CONSTANTS
  Connections = {c1, c2}
  NoConnection = NoConnection
PROPERTIES
  UnplugIsNoticed
CHECK_DEADLOCK FALSE
