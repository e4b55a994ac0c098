SPECIFICATION ShellFairSpec
CONSTANTS
  Devices <- AllDevices
  Preregistered <- Pairs
  Address <- AddressOf
  Group <- Groups
  Frames <- AllFrames
  Traffic <- NearOf
  Latecomers <- Late
  Switched <- Fragile
  Written <- WrittenValues
  Values <- SomeValues
  MaxFrames = 2
  MaxSent = 1
INVARIANTS
  NoFrameSkipped
  InWireOrder
  ShowsNewest
  VehicleFollowsCluster
  OwnWritesAreShown
PROPERTIES
  ChunksAreFinished
