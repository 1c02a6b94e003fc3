SPECIFICATION MCSpec
CONSTANTS
  CntMax = 3
  MaxResponses = 7
  TxqLen = 3
  LateTicks = 1
  HoldTicks = 2
  MaxFrames = 3
  MaxInject = 2
  MaxClock = 4
  W = 2
  MemBytes = 4
  Chains <- MCChains
  Commands <- MCCommands
  Pdos <- MCPdos
  MaxAssign = 2
  Callers = {"a", "b"}
  QueueLen = 1
  Timeout = 2
  Margin = 2
  MaxCalls = 2
  Openers = {rt, monitor}
  MaxWindows = 4
  Cycle = 10000
  KpDiv = 8
  KiDiv = 256
  MaxAdjust = 500
  LockWindow = 100
  Unlock = 500
  LockSamples = 100
  Drifts <- MCDrifts
  Phases <- MCPhases
  MaxDisturb = 2
  Moments = {0, 40}
INVARIANTS
  CntTellsNewFromOld
  DatagramAsAddressed
  AssignmentIsLegal
PROPERTIES
  RepliesLeaveInOrder
  OwnAnswer
  EveryCallReturns
  MeasuresOnlyOwnFrames
  EndsLocked
CHECK_DEADLOCK FALSE
