\* As many ids as `id << 56` tells apart, plus one: 257 producers in the code.
SPECIFICATION Spec
CONSTANTS
  NumProducers = 3
  Consumers = {c1}
  Capacity = 1
  ItemsPerProducer = 1
  IdTags = 2
  Nobody = Nobody
INVARIANTS UniqueStreams
