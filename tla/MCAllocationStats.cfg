SPECIFICATION AllocSpec
CONSTANTS
  Blocks = {b1, b2}
  Sizes = {2, 3, 4}
  Granule = 2
  WordSize = 32
  MaxAllocated = 14
INVARIANTS
  IreeTotalsBalance
PROPERTIES
  TvmIsHeapUsage
CHECK_DEADLOCK FALSE
