SPECIFICATION Spec
CONSTANTS
  LastTrack = 3
  LastDisc = 2
  MaxCalls = 3
  Plain = {"on1", "on2"}
  OneShot = {"once"}
  MaxEmits = 3
  LongestPayload = 40
  Characters = {0, 6, 32, 65, 233, 300}
  Foreign = {0, 1, 15, 49, 129, 138, 255}
INVARIANTS
  RoutingCountsPresses
  DoorsTogether
  RadioToldState
  EmissionsHold
  FieldsArrive
  LengthsAgree
  SaysTheSameAgain
  TextsSurvive
CHECK_DEADLOCK FALSE
