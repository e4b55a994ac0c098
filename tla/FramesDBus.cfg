SPECIFICATION Spec
CONSTANTS
  Wires <- FullWires
  Checksum <- XorChecksum
  Alphabet = {4, 6, 9}
  MaxWire = 7
  MinFrame = 4
  MaxFrame = 6
  LenBias = 0
  MaxChunkBytes = 7
  IdleTimeout = 1
  TickPeriod = 1
  MaxIdle = 0
  MaxResets = 1
INVARIANTS
  BufferBounded
  FramesAreSound
  NoFrameIsMissed
