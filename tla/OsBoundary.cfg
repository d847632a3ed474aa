\* Three pages; three starts on files of up to two buffers of three positions;
\* two warm-up round trips and three measured ones.
SPECIFICATION Spec
CONSTANTS
  NumPages = 3
  OtherFaults = 1
  Warmup = 2
  Repeats = 1
  Buffer = 3
  MaxMB = 2
  MaxSpan = 4
  Iterations = 1
  MaxStarts = 3
  WarmupTrips = 2
  RoundTrips = 3
INVARIANTS Lockstep SuccessIsHonest FaultsPerMode ModesDoNotInterfere
  SampledFileIsComplete SameWorkloadWhenAligned
PROPERTIES ImplementsPrivateMemory ProcessesEnd
