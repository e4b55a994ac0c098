SPECIFICATION EcuSpec
CONSTANTS
  r1 = r1
  r2 = r2
  Requests = {r1, r2}
  NoRequest = NoRequest
  NoFrame = NoFrame
  PromptIO = FALSE
  MaxChunk = 1
  MaxOverlaps = 1
  Ecus = {"DME", "EGS"}
  Plans <- PlansTried
INVARIANTS
  FieldsHoldTheirReplies
  ListSurvivesNoClearing
PROPERTIES
  ForgetsWhatIsCleared
