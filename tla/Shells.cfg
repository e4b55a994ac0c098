SPECIFICATION Spec
CONSTANTS
  c1 = c1
  c2 = c2
  c3 = c3
  Connections = {c1, c2, c3}
  NoConnection = NoConnection
  Nothing = Nothing
  Texts <- TextsTyped
  IsByte <- Digits
  MaxSends = 2
  LogCapacity = 2
  MaxEntries = 3
  Controls <- TwoDevices
INVARIANTS
  NoOrphanPort
  PassiveMeansPassive
  ChoicesHold
  EndsClosed
  PanelsHold
PROPERTIES
  DisconnectEnds
  LeavingEnds
  OnlySentIsErased
CHECK_DEADLOCK FALSE
