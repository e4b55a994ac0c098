SPECIFICATION Spec
CONSTANTS
  r1 = r1
  r2 = r2
  r3 = r3
  Requests <- ThreeRequests
  NoRequest = NoRequest
  NoFrame = NoFrame
  PromptIO = FALSE
  MaxChunk = 2
  MaxOverlaps = 1

INVARIANTS
  TypeOK
  HalfDuplex
  TimerGuardsPending
  NoLostWakeup
  AnswersAreReplies
  MatchUnlessAbandoned
PROPERTIES
  ImplementsRequestQueue
