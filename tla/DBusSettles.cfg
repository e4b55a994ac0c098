SPECIFICATION FairSpec
CONSTANTS
  r1 = r1
  r2 = r2
  r3 = r3
  Requests <- TwoRequests
  NoRequest = NoRequest
  NoFrame = NoFrame
  PromptIO = FALSE
  MaxChunk = 2
  MaxOverlaps = 1
PROPERTIES
  EverySettles
