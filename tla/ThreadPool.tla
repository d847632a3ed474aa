----------------------------- MODULE ThreadPool ------------------------------
(***************************************************************************)
(* 04-concurrency/03-thread-pool-scaling: a fixed set of workers that take *)
(* tasks from a bounded queue, and the main thread that submits rounds of  *)
(* tasks, waits for each round, reads the results, frees them and stops    *)
(* the pool.                                                               *)
(*                                                                         *)
(* A step takes the mutex, or is the rest of a critical section up to the  *)
(* unlock or the wait, or what a thread does with the mutex released.      *)
(* Timing, pinning and the arithmetic of cpu_burn are left out; a failing  *)
(* pthread call ends the process and is not modelled.                      *)
(***************************************************************************)
EXTENDS Naturals, FiniteSets

CONSTANTS
  Workers,    \* the worker threads (--threads of them)
  Main,       \* the main thread
  Capacity,   \* --queue-capacity
  Tasks,      \* --tasks
  Rounds,     \* --warmup and the measured round
  Nobody      \* the mutex has no owner

Threads == Workers \cup {Main}

\* parse_args rejects the rest.
ASSUME PoolAssumption ==
  /\ IsFiniteSet(Workers)
  /\ Workers # {}
  /\ Main \notin Workers
  /\ Nobody \notin Threads
  /\ Capacity \in Nat \ {0}
  /\ Tasks \in Nat \ {0}
  /\ Rounds \in Nat \ {0}

VARIABLES
  mu,          \* the owner of pool->mu, or Nobody
  queue, queue_head, queue_tail, queue_size, stop, outstanding,
               \* the fields of thread_pool_t
  pc,          \* where each thread is
  task,        \* worker_main's local task
  next,        \* submit_round's loop index
  round,       \* how many rounds have begun
  results,     \* how often each result slot was stored to since the memset:
               \* a task stores the same value every time
  checksum     \* the tasks whose value is in the printed checksum

poolVars == <<queue, queue_head, queue_tail, queue_size, stop, outstanding>>
mainVars == <<next, round, checksum>>
vars == <<mu, poolVars, pc, task, results, mainVars>>

AllTasks == 0 .. Tasks - 1
Slots == 0 .. Capacity - 1

-----------------------------------------------------------------------------
(* The mutex and the condition variables, a sleeping thread's pc being the  *)
(* variable it waits on.                                                    *)

NotEmpty == "wait_not_empty"
NotFull == "wait_not_full"
AllDone == "wait_all_done"
CondVars == {NotEmpty, NotFull, AllDone}
Waiters(cv) == {t \in Threads : pc[t] = cv}

\* The pc of a woken thread that has not got the mutex back yet.
Relocking(cv) == CASE cv = NotEmpty -> "take_relock"
                   [] cv = NotFull -> "submit_relock"
                   [] cv = AllDone -> "await_relock"

\* The sets of threads that pthread_cond_signal and pthread_cond_broadcast
\* may wake.
SignalNone(cv) == {{}}
Signal(cv) == IF Waiters(cv) = {} THEN {{}} ELSE {{t} : t \in Waiters(cv)}
BroadcastOne(cv) == Signal(cv)
Broadcast(cv) == {Waiters(cv)}

\* Thread t moves to `to`, and the woken threads go on to take the mutex.
Move(t, to, woken) ==
  pc' = [u \in Threads |-> IF u = t THEN to
                           ELSE IF u \in woken THEN Relocking(pc[u]) ELSE pc[u]]
Goto(t, to) == pc' = [pc EXCEPT ![t] = to]

MutexFree == mu = Nobody

Lock(t, from, to) ==
  /\ pc[t] = from
  /\ MutexFree
  /\ mu' = t
  /\ Goto(t, to)
  /\ UNCHANGED <<poolVars, task, results, mainVars>>

\* pthread_cond_wait: the mutex is released and the thread sleeps, in one step.
Wait(t, from, cv) ==
  /\ pc[t] = from
  /\ mu' = Nobody
  /\ Goto(t, cv)
  /\ UNCHANGED <<poolVars, task, results, mainVars>>

SpuriousWakeup(t) ==
  /\ pc[t] \in CondVars
  /\ Goto(t, Relocking(pc[t]))
  /\ UNCHANGED <<mu, poolVars, task, results, mainVars>>

-----------------------------------------------------------------------------
(* owned_thread_pool_init, with every thread created and none scheduled yet. *)

Init ==
  /\ mu = Nobody
  /\ queue = [s \in Slots |-> 0]
  /\ queue_head = 0
  /\ queue_tail = 0
  /\ queue_size = 0
  /\ stop = FALSE
  /\ outstanding = 0
  /\ pc = [t \in Threads |-> IF t = Main THEN "between" ELSE "idle"]
  /\ task = [w \in Workers |-> 0]
  /\ next = 0
  /\ round = 0
  /\ results = [i \in AllTasks |-> 0]
  /\ checksum = {}

NextIndexNoWrap(i) == i + 1
NextIndex(i) == (i + 1) % Capacity

-----------------------------------------------------------------------------
(* worker_main.                                                             *)

TakeLock(w) == Lock(w, "idle", "take")
TakeRelock(w) == Lock(w, "take_relock", "take")

TakeWait(w) == queue_size = 0 /\ ~stop /\ Wait(w, "take", NotEmpty)

WorkerExit(w) ==
  /\ pc[w] = "take"
  /\ stop
  /\ queue_size = 0
  /\ mu' = Nobody
  /\ Goto(w, "exited")
  /\ UNCHANGED <<poolVars, task, results, mainVars>>

TakeTask(w) ==
  /\ pc[w] = "take"
  /\ queue_size > 0
  /\ task' = [task EXCEPT ![w] = queue[queue_head]]
  /\ queue_head' = NextIndex(queue_head)
  /\ queue_size' = queue_size - 1
  /\ \E woken \in Signal(NotFull) : Move(w, "run", woken)
  /\ mu' = Nobody
  /\ UNCHANGED <<queue, queue_tail, stop, outstanding, results, mainVars>>

\* run_bench_task, with the mutex released.
RunTask(w) ==
  /\ pc[w] = "run"
  /\ results' = [results EXCEPT ![task[w]] = @ + 1]
  /\ Goto(w, "ran")
  /\ UNCHANGED <<mu, poolVars, task, mainVars>>

FinishLock(w) == Lock(w, "ran", "finish")

\* Was this the last outstanding task?
LastButOne == outstanding = 2
LastTask == outstanding = 1

FinishTask(w) ==
  /\ pc[w] = "finish"
  /\ outstanding' = outstanding - 1
  /\ \E woken \in IF LastTask THEN Broadcast(AllDone) ELSE {{}} : Move(w, "idle", woken)
  /\ mu' = Nobody
  /\ UNCHANGED <<queue, queue_head, queue_tail, queue_size, stop, task, results, mainVars>>

-----------------------------------------------------------------------------
(* main: the rounds.                                                        *)

\* memset of the results, then submit_round.
BeginRound ==
  /\ pc[Main] = "between"
  /\ round < Rounds
  /\ round' = round + 1
  /\ results' = [i \in AllTasks |-> 0]
  /\ next' = 0
  /\ Goto(Main, "submit")
  /\ UNCHANGED <<mu, poolVars, task, checksum>>

SubmitLock == next < Tasks /\ Lock(Main, "submit", "enqueue")
SubmitRelock == Lock(Main, "submit_relock", "enqueue")

IsFullOffByOne == queue_size > Capacity
IsFull == queue_size = Capacity

SubmitWait == IsFull /\ ~stop /\ Wait(Main, "enqueue", NotFull)

\* The rest of thread_pool_submit.  Only this thread sets stop, and only
\* after its last call, so `submit attempted after pool stop` is unreachable.
Enqueue ==
  /\ pc[Main] = "enqueue"
  /\ ~IsFull
  /\ ~stop
  /\ queue' = [queue EXCEPT ![queue_tail] = next]
  /\ queue_tail' = NextIndex(queue_tail)
  /\ queue_size' = queue_size + 1
  /\ outstanding' = outstanding + 1
  /\ \E woken \in Signal(NotEmpty) : Move(Main, "submit", woken)
  /\ mu' = Nobody
  /\ next' = next + 1
  /\ UNCHANGED <<queue_head, stop, task, results, round, checksum>>

\* thread_pool_wait_all.
AwaitLock == next = Tasks /\ Lock(Main, "submit", "await")
AwaitRelock == Lock(Main, "await_relock", "await")

QueueDrained == queue_size = 0
NothingOutstanding == outstanding = 0

AwaitWait == ~NothingOutstanding /\ Wait(Main, "await", AllDone)

AwaitDone ==
  /\ pc[Main] = "await"
  /\ NothingOutstanding
  /\ mu' = Nobody
  /\ Goto(Main, "between")
  /\ UNCHANGED <<poolVars, task, results, mainVars>>

\* The checksum is read, then task_args and results are freed.
ReadResults ==
  /\ pc[Main] = "between"
  /\ round = Rounds
  /\ checksum' = {i \in AllTasks : results[i] > 0}
  /\ Goto(Main, "freed")
  /\ UNCHANGED <<mu, poolVars, task, results, next, round>>

-----------------------------------------------------------------------------
(* owned_thread_pool_destroy.                                               *)

StopLock == Lock(Main, "freed", "stopping")

Stop ==
  /\ pc[Main] = "stopping"
  /\ stop' = TRUE
  /\ \E workers \in Broadcast(NotEmpty), submitters \in Broadcast(NotFull) :
       Move(Main, "join", workers \cup submitters)
  /\ mu' = Nobody
  /\ UNCHANGED <<queue, queue_head, queue_tail, queue_size, outstanding,
                 task, results, mainVars>>

JoinNobody == TRUE
WorkersJoined == \A w \in Workers : pc[w] = "exited"

\* Joins the workers, then destroys the mutex and frees the queue and the
\* workers' arguments.
Destroy ==
  /\ pc[Main] = "join"
  /\ WorkersJoined
  /\ Goto(Main, "destroyed")
  /\ UNCHANGED <<mu, poolVars, task, results, mainVars>>

Terminated == pc[Main] = "destroyed" /\ UNCHANGED vars

-----------------------------------------------------------------------------
WorkerStep(w) ==
  \/ TakeLock(w) \/ TakeRelock(w) \/ TakeWait(w) \/ WorkerExit(w) \/ TakeTask(w)
  \/ RunTask(w) \/ FinishLock(w) \/ FinishTask(w)

MainStep ==
  \/ BeginRound \/ SubmitLock \/ SubmitRelock \/ SubmitWait \/ Enqueue
  \/ AwaitLock \/ AwaitRelock \/ AwaitWait \/ AwaitDone
  \/ ReadResults \/ StopLock \/ Stop \/ Destroy

Next ==
  \/ \E w \in Workers : WorkerStep(w)
  \/ MainStep
  \/ \E t \in Threads : SpuriousWakeup(t)
  \/ Terminated

\* Runnable threads keep running, and one that waits for a mutex released
\* again and again gets it; nothing but a signal wakes a sleeper.
Fairness ==
  /\ \A w \in Workers : WF_vars(WorkerStep(w))
                        /\ SF_vars(TakeLock(w) \/ TakeRelock(w) \/ FinishLock(w))
  /\ WF_vars(MainStep)
  /\ SF_vars(SubmitLock \/ SubmitRelock \/ AwaitLock \/ AwaitRelock \/ StopLock)

Spec == Init /\ [][Next]_vars
FairSpec == Spec /\ Fairness

-----------------------------------------------------------------------------
(* Properties.                                                              *)

WorkerPcs == {"idle", "take", NotEmpty, "take_relock", "run", "ran", "finish", "exited"}
RoundPcs == {"submit", "enqueue", NotFull, "submit_relock", "await", AllDone, "await_relock"}
MainPcs == RoundPcs \cup {"between", "freed", "stopping", "join", "destroyed"}

TypeOK ==
  /\ mu \in Threads \cup {Nobody}
  /\ queue \in [Slots -> AllTasks]
  /\ queue_head \in Slots
  /\ queue_tail \in Slots
  /\ queue_size \in 0 .. Capacity
  /\ stop \in BOOLEAN
  /\ outstanding \in Nat
  /\ pc \in [Threads -> WorkerPcs \cup MainPcs]
  /\ \A w \in Workers : pc[w] \in WorkerPcs
  /\ pc[Main] \in MainPcs
  /\ task \in [Workers -> AllTasks]
  /\ next \in 0 .. Tasks
  /\ round \in 0 .. Rounds
  /\ results \in [AllTasks -> Nat]
  /\ checksum \subseteq AllTasks

\* outstanding is the "Number of tasks submitted but not yet completed. This
\* includes tasks waiting in the queue plus tasks currently running" (the
\* comment on thread_pool_t), and the indices describe one ring; only the
\* owner of pool->mu is where they may disagree.
Critical == {"take", "finish", "enqueue", "await", "stopping"}
Busy == {w \in Workers : pc[w] \in {"run", "ran", "finish"}}
Accounted ==
  /\ queue_tail = (queue_head + queue_size) % Capacity
  /\ outstanding = queue_size + Cardinality(Busy)
  /\ \A t \in Threads : pc[t] \in Critical <=> mu = t

\* The tasks in the queue.
Queued(i) == {k \in 0 .. queue_size - 1 : queue[(queue_head + k) % Capacity] = i}

\* Every task of a round is in one place: not submitted yet, once in the
\* queue, being run by one worker, or run once; and outstanding, which
\* thread_pool_wait_all trusts, counts those that are not completed.
ExactlyOnce ==
  /\ Accounted
  /\ pc[Main] \in RoundPcs =>
    \A i \in AllTasks :
      Cardinality(Queued(i)) + Cardinality({w \in Workers : pc[w] = "run" /\ task[w] = i})
      + results[i] = IF i < next THEN 1 ELSE 0

\* A sleeping worker is not needed, also when the pool stops; a sleeping main
\* thread still has what it waits for ahead of it.
TakersComing == {w \in Workers : pc[w] \in {"take", "take_relock"}}
NoLostWakeup ==
  /\ (\E w \in Workers : pc[w] = NotEmpty) => queue_size <= Cardinality(TakersComing) /\ ~stop
  /\ pc[Main] = NotFull => queue_size = Capacity
  /\ pc[Main] = AllDone => outstanding > 0

ResultsRead == pc[Main] \in {"freed", "stopping", "join", "destroyed"}

\* Once thread_pool_wait_all has returned no worker touches a result slot or
\* a task argument: main may clear, read and free them with no lock, and the
\* printed checksum is over all of them.  When the pool is freed no worker is
\* left, and nobody owns or waits on its mutex and condition variables.
QuietOutsideRounds ==
  /\ pc[Main] \notin RoundPcs =>
       queue_size = 0 /\ Busy = {} /\ (round > 0 => \A i \in AllTasks : results[i] = 1)
  /\ ResultsRead => checksum = AllTasks
  /\ pc[Main] = "destroyed" =>
       /\ \A w \in Workers : pc[w] = "exited"
       /\ MutexFree

\* The pool runs rounds of tasks, never with more in flight than the queue
\* and the workers hold; with fair threads each round ends.
Abstract == INSTANCE TaskRounds WITH
  InFlight <- Capacity + Cardinality(Workers),
  submitted <- 0 .. next - 1,
  finished <- {i \in AllTasks : results[i] > 0},
  over <- ResultsRead
ImplementsFairRounds == Abstract!FairSpec

\* The program ends: every worker hears of the stop and is joined.
Termination == <>(pc[Main] = "destroyed")
=============================================================================
