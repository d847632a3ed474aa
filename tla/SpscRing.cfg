\* Indices modulo 8, so that they wrap in the middle of the run.
SPECIFICATION FairSpec
CONSTANTS
  Capacity = 4
  Messages = 10
  Modulus = 8
INVARIANTS NoDataRace
PROPERTIES ImplementsFifo Termination
