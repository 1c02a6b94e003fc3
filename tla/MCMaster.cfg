SPECIFICATION MCSpec
CONSTANTS
  NumIdx = 6
  IoEvery = 2
  QuarTicks = 5
  QuarMax = 2
  DiagAge = 2
  DcMod = 16
  GateReuse = 11
  ResyncRun = 2
  ResyncReuse = 4
  MaxDelay = 4
  MaxLate = 3
  MaxTick = 7
  N = 3
  PerFrame = 2
  CountMax = 2
  MaxBad = 2
  MaxPower = 1
  MaxDiag = 3
  TurnIdx = 3
  MaxAge = 1
  Lookahead = 4
  TableCap = 3
  Sanity = 1
  TurnDelay = 1
  MaxLag = 1
  MaxFrame = 4
  MaxOdd = 2
  FreshBits = 3
  StaleAfter = 2
  MaxLateness = 4
  MaxCount = 20
  MaxEntries = 20
  MaxBits = 4
  ByteBits = 4
  CycleTime = 1
  Configs <- MCConfigs
  WdTime = 1
  OpDelay = 2
  RejectTo = {"any"}
INVARIANTS
  OpOnlyAfterOutputs
  OwnReply
  BlameIsSound
  CountsAddUp
  PairsOwnFrame
  VerdictIsTrue
  HandlesPointHome
  RunsAsConfigured
PROPERTIES
  SilentOutputsEndOp
  MotionIsFresh
CHECK_DEADLOCK FALSE
