----------------------- MODULE MCProducerConsumerQueue -----------------------
(* Instances of ProducerConsumerQueue for TLC.                              *)
EXTENDS ProducerConsumerQueue, TLC

\* Consumers differ only in the CPU they ask for.
ConsumerSymmetry == Permutations(Consumers)
=============================================================================
