SPECIFICATION FairSpec
CONSTANTS
  NLost = 2
  ProbeTicks = 2
  BackoffTicks = 1
  NSlaves = 2
  GenMod = 3
  KeepTicks = 1
  ApiOn = TRUE
  RecoverOn = TRUE
INVARIANTS
  IInv
PROPERTIES
  ImplementsOwner
  FenceIsGranted
