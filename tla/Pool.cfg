\* Three workers and a queue of two slots that wraps, four tasks, two rounds.
SPECIFICATION FairSpec
CONSTANTS
  Workers = {w1, w2, w3}
  Main = Main
  Capacity = 2
  Tasks = 4
  Rounds = 2
  Nobody = Nobody
INVARIANTS ExactlyOnce NoLostWakeup QuietOutsideRounds
PROPERTIES ImplementsFairRounds Termination
