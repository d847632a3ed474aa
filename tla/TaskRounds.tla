----------------------------- MODULE TaskRounds ------------------------------
(***************************************************************************)
(* What the thread pool of 04-concurrency/03-thread-pool-scaling promises  *)
(* its main program: rounds of tasks, each task handed over in order and   *)
(* run once a round, never more of them in flight than the queue and the   *)
(* workers hold, and a round that is over only when all of it has run.     *)
(***************************************************************************)
EXTENDS Naturals, FiniteSets

CONSTANTS
  Tasks,     \* the tasks of a round are 0 .. Tasks - 1
  Rounds,    \* warm-up rounds and the measured one
  InFlight   \* the most tasks submitted and not finished

VARIABLES
  round,      \* the current round, from 1; 0 before the first
  submitted,  \* the tasks handed over in this round
  finished,   \* the tasks run in this round
  over        \* has the program read the results of the last round?

vars == <<round, submitted, finished, over>>
AllTasks == 0 .. Tasks - 1

Init == round = 0 /\ submitted = {} /\ finished = {} /\ over = FALSE

Begin ==
  /\ round < Rounds
  /\ round = 0 \/ finished = AllTasks
  /\ round' = round + 1
  /\ submitted' = {}
  /\ finished' = {}
  /\ UNCHANGED over

Submit ==
  /\ round > 0
  /\ submitted # AllTasks
  /\ Cardinality(submitted \ finished) < InFlight
  /\ submitted' = submitted \cup {Cardinality(submitted)}
  /\ UNCHANGED <<round, finished, over>>

Finish(i) ==
  /\ i \in submitted \ finished
  /\ finished' = finished \cup {i}
  /\ UNCHANGED <<round, submitted, over>>

End ==
  /\ ~over
  /\ round = Rounds
  /\ finished = AllTasks
  /\ over' = TRUE
  /\ UNCHANGED <<round, submitted, finished>>

Next == Begin \/ Submit \/ (\E i \in AllTasks : Finish(i)) \/ End

Spec == Init /\ [][Next]_vars

\* Some task is always handed over, run or waited for until the end.
FairSpec == Spec /\ WF_vars(Next)
=============================================================================
