SPECIFICATION MCSpec
CONSTANTS
  Message = {m1, m2}
  MaxPuts = 7
  RingMessage = {m1, m2}
  RingLen = 4
  Width = 8
  Word = {1, 2, 3}
  SeqTries = 2
  MaxWrites = 4
  SpCap = 4
  CmdCap = 2
  SkipMax = 2
  CmdPerTick = 1
  Leads = {1, 2, 4}
  MaxHook = 5
  MaxCmd = 2
  MaxLost = 1
  Client = {1, 2, 3}
  CtlSlots = 2
  InCap = 3
  OutCap = 1
  SockCap = 1
  Rate = 1
  Ends <- MCEnds
  Object <- MCObject
  CommArea = {1}
  Steering = {2}
  RxPdo <- MCRxPdo
  InitCmd <- MCInitCmd
  Files <- MCFiles
  Value <- MCValue
  SignBit = 2
  AbortTries = 2
  EvCap = 1
  MaxSdo = 2
  MaxFence = 1
  ExpMax = 2
  InitChunk = 3
  SegChunk = 2
  StrMax = 3
  XferMax = 7
  Chunks <- MCChunks
  Totals = {3, 4, 8}
INVARIANTS
  RecordIsWhole
  RepliesInOrder
PROPERTIES
  TransfersAreWhole
  ImplementsQueue
  RingIsQueue
  SetpointInItsFrame
  WriteIsAllowed
  AbortAnswersOnce
CHECK_DEADLOCK FALSE
