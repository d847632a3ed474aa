\* Three workers of two increments; the sum of six wraps modulo five.
SPECIFICATION FairSpec
CONSTANTS
  NumThreads = 3
  Iters = 2
  Word = 5
INVARIANTS CountExact
PROPERTIES Termination
