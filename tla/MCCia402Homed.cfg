SPECIFICATION CiaSpec
CONSTANTS
  Modes = {"HM"}
  Hands = {}
  Position <- MCNear
  Issued <- Profiles
  StepLimit = 1
  StepTimeout = 3
  HomeTimeout = 4
  HmSettle = 3
  PpQueue = 1
  NLost = 3
  MaxInputs = 4
PROPERTIES
  HomedMeansHomed
CHECK_DEADLOCK FALSE
