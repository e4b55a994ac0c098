SPECIFICATION FairSpec
CONSTANTS
  r1 = r1
  r2 = r2
  r3 = r3
  Requests <- ThreeRequests
  NoRequest = NoRequest
  NoFrame = NoFrame
  PromptIO = TRUE
  MaxChunk = 2
  MaxOverlaps = 2
INVARIANTS
  LeaksNeedOverlaps
PROPERTIES
  EverySettles
  ImplementsLiveRequestQueue
