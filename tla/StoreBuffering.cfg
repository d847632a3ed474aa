\* One warm-up and two measured trials, in each of the three modes.
SPECIFICATION FairSpec
CONSTANTS
  Iterations = 2
  Warmup = 1
INVARIANTS SeqCstForbidsBothZero TrialsIsolated
PROPERTIES Termination
