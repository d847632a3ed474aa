SPECIFICATION FairSpec
CONSTANTS
  NumProducers = 2
  Consumers = {c1, c2}
  Capacity = 1
  ItemsPerProducer = 1
  IdTags = 4
  Nobody = Nobody
PROPERTIES ImplementsFairFifo Termination
