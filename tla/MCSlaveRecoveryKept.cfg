SPECIFICATION Spec
CONSTANTS
  NSlaves = 2
  MaxAttempts = 2
  CmdqLen = 1
  MaxFaults = 3
INVARIANTS
  KeptInPreOp
