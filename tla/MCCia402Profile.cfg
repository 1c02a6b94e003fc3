SPECIFICATION CiaSpec
CONSTANTS
  Modes = {"PP", "HM"}
  Hands = {}
  Position <- MCNear
  Issued <- Profiles
  StepLimit = 1
  StepTimeout = 3
  HomeTimeout = 4
  HmSettle = 3
  PpQueue = 1
  NLost = 3
  MaxInputs = 5
PROPERTIES
  PointsInOrder
  HomedOnGoodFrames
CHECK_DEADLOCK FALSE
