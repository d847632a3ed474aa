\* The same words; the edge case fill_pattern lists first.
SPECIFICATION BranchSpec
CONSTANTS
  UINT32_MAX = 7
  Rare = 4
  MaxWeight = 2
  Elements = 2
  Repeats = 2
  Warmup = 1
INVARIANTS EveryThresholdHandled
