SPECIFICATION Spec
CONSTANTS
  Wires <- FramedWires
  Checksum <- XorChecksum
  Alphabet = {3}
  MaxWire = 15
  MinFrame = 5
  MaxFrame = 8
  LenBias = 2
  MaxChunkBytes = 8
  IdleTimeout = 1
  TickPeriod = 1
  MaxIdle = 3
  MaxResets = 0
INVARIANTS
  NoFrameIsMissed
  StaleBytesAreShortLived
