\* The same files, any chunk and stride.
SPECIFICATION Spec
CONSTANTS
  Buffer = 3
  MaxMB = 2
  MaxSpan = 4
  Repeats = 1
  MaxStarts = 3
INVARIANTS SameOffsets
