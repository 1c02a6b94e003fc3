SPECIFICATION FairSpec
CONSTANTS
  NSlaves = 2
  MaxAttempts = 2
  CmdqLen = 1
  MaxFaults = 2
INVARIANTS
  BoundedRecovery
PROPERTIES
  ConfigFailureIsFinal
  SlavesSettle
