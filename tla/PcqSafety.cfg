\* Two producers, three consumers, a ring of two slots that wraps.
SPECIFICATION Spec
CONSTANTS
  NumProducers = 2
  Consumers = {c1, c2, c3}
  Capacity = 2
  ItemsPerProducer = 2
  IdTags = 4
  Nobody = Nobody
SYMMETRY ConsumerSymmetry
INVARIANTS TypeOK MutualExclusion QueueConsistent NoLostWakeup ExactlyOnce
  DrainedBeforeExit ReportExact
PROPERTIES ImplementsFifo
