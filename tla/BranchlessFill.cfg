\* Three-bit words, an exception in four, all thresholds.
SPECIFICATION BranchSpec
CONSTANTS
  UINT32_MAX = 7
  Rare = 4
  MaxWeight = 2
  Elements = 2
  Repeats = 2
  Warmup = 1
INVARIANTS HitsMatchPattern
