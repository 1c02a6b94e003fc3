SPECIFICATION CiaSpec
CONSTANTS
  Modes = {"CSP", "HM"}
  Hands = {3}
  Position <- MCPosition
  Issued <- Cyclic
  StepLimit = 1
  StepTimeout = 3
  HomeTimeout = 4
  HmSettle = 3
  PpQueue = 1
  NLost = 2
  MaxInputs = 4
INVARIANTS
  DownBeforeLeavingOp
PROPERTIES
  StaysDropped
  NoJump
CHECK_DEADLOCK FALSE
