SPECIFICATION BuSpec
CONSTANTS
  MaxEntries = 20
  MaxBits = 4
  ByteBits = 4
  CycleTime = 1
  Configs <- MCConfigs
INVARIANTS
  OtherVendorsAreRead
CHECK_DEADLOCK FALSE
