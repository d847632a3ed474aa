--------------------------- MODULE SharedCounters ----------------------------
(***************************************************************************)
(* The three labs whose workers do nothing but increment counters:         *)
(*   mutex_vs_spinlock  one counter under a mutex or a spinlock, a barrier *)
(*                      that main and the workers start from;              *)
(*   lock_contention    one counter under a mutex, no barrier;             *)
(*   false_sharing      one counter per worker, no lock and no barrier.    *)
(* An increment of a volatile counter is a load and a store: nothing but   *)
(* the lock keeps two of them apart.  do_work, its volatile sink and CPU   *)
(* pinning only shape the timing and are left out.                         *)
(***************************************************************************)
EXTENDS Integers, FiniteSets, Functions

CONSTANTS
  NumThreads,  \* the number of worker threads
  Iters,       \* increments per worker
  Word         \* a uint64_t counts modulo Word

ASSUME CountersAssumption ==
  /\ NumThreads \in Nat \ {0}
  /\ Iters \in Nat
  /\ Word \in Nat \ {0}

Workers == 1 .. NumThreads
Main == 0
Nobody == -1
Shared == 0

VARIABLES
  lab,       \* which of the three programs this is
  mode,      \* its lock mode
  owner,     \* the owner of each lock of a bench_lock_t
  counter,   \* the counters: Shared, or one for each worker
  local,     \* the value a worker's ++ has loaded
  done,      \* the increments a worker has made
  pc,        \* where each thread is
  created,   \* how many workers main has created
  arrived,   \* the threads waiting at start_barrier
  timer,     \* has main taken t0, or also t1?
  total      \* the final counter that main prints
vars == <<lab, mode, owner, counter, local, done, pc, created, arrived, timer, total>>

Labs == {"mutex_vs_spinlock", "lock_contention", "false_sharing"}
Locks == {"mutex", "spin"}
ModesOf(l) == CASE l = "mutex_vs_spinlock" -> Locks
                [] l = "lock_contention" -> {"mutex"}
                [] l = "false_sharing" -> {"none"}

HasBarrier == lab = "mutex_vs_spinlock"
Cells == 0 .. NumThreads
\* The counter worker t increments.
Cell(t) == IF lab = "false_sharing" THEN t ELSE Shared

Goto(t, to) == pc' = [pc EXCEPT ![t] = to]

-----------------------------------------------------------------------------
Init ==
  /\ lab \in {l \in Labs : l = "false_sharing" => Iters > 0}
  /\ mode \in ModesOf(lab)
  /\ owner = [k \in Locks |-> Nobody]
  /\ counter = [c \in Cells |-> 0]
  /\ local = [t \in Workers |-> 0]
  /\ done = [t \in Workers |-> 0]
  /\ pc = [t \in Workers \cup {Main} |->
             IF t # Main THEN "not_created"
             ELSE IF HasBarrier THEN "create" ELSE "start_timer"]
  /\ created = 0
  /\ arrived = {}
  /\ timer = "before"
  /\ total = 0

\* The process ends when main returns, whatever its threads are doing.
Running == pc[Main] \notin {"returned", "failed"}

-----------------------------------------------------------------------------
(* main.                                                                    *)

\* t0, before the barrier or before the creation loop.
StartTimer ==
  /\ pc[Main] = "start_timer"
  /\ timer' = "running"
  /\ Goto(Main, IF HasBarrier THEN "barrier" ELSE "create")
  /\ UNCHANGED <<lab, mode, owner, counter, local, done, created, arrived, total>>

\* Where a worker's loop begins, and where it goes after an increment.
LoopHead(n) == IF n = Iters THEN "done" ELSE IF mode = "none" THEN "load" ELSE "acquire"
WorkerEntry == IF HasBarrier THEN "barrier" ELSE LoopHead(0)

\* One round of the creation loop.
Create ==
  /\ pc[Main] = "create"
  /\ created < NumThreads
  /\ created' = created + 1
  /\ Goto(created + 1, WorkerEntry)
  /\ UNCHANGED <<lab, mode, owner, counter, local, done, arrived, timer, total>>

\* pthread_create fails: main returns, with its workers half started.
CreateFails ==
  /\ pc[Main] = "create"
  /\ created < NumThreads
  /\ Goto(Main, "failed")
  /\ UNCHANGED <<lab, mode, owner, counter, local, done, created, arrived, timer, total>>

\* maybe_pin_thread of mutex_vs_spinlock exits when a worker cannot be
\* pinned; the other two programs only warn.
PinFails(t) ==
  /\ HasBarrier
  /\ pc[t] = "barrier"
  /\ t \notin arrived
  /\ Goto(Main, "failed")
  /\ UNCHANGED <<lab, mode, owner, counter, local, done, created, arrived, timer, total>>

CreatedAll ==
  /\ pc[Main] = "create"
  /\ created = NumThreads
  /\ Goto(Main, IF HasBarrier THEN "start_timer" ELSE "join")
  /\ UNCHANGED <<lab, mode, owner, counter, local, done, created, arrived, timer, total>>

\* The join loop has met every worker that main waits for; t1.
JoinedFirst == pc[1] = "done"
Joined == \A t \in Workers : pc[t] = "done"
StopTimer ==
  /\ pc[Main] = "join"
  /\ Joined
  /\ timer' = "stopped"
  /\ Goto(Main, "report")
  /\ UNCHANGED <<lab, mode, owner, counter, local, done, created, arrived, total>>

\* The counter that is printed, or the sum of them.
Report ==
  /\ pc[Main] = "report"
  /\ total' = SumFunction(counter) % Word
  /\ Goto(Main, "returned")
  /\ UNCHANGED <<lab, mode, owner, counter, local, done, created, arrived, timer>>

-----------------------------------------------------------------------------
(* start_barrier.                                                           *)

Parties == NumThreads + 1

\* pthread_barrier_wait: the last to arrive lets everyone go on.
BarrierWait(t) ==
  /\ pc[t] = "barrier"
  /\ t \notin arrived
  /\ IF Cardinality(arrived) + 1 = Parties
       THEN /\ arrived' = {}
            /\ pc' = [u \in Workers \cup {Main} |->
                        IF u \notin arrived \cup {t} THEN pc[u]
                        ELSE IF u = Main THEN "join" ELSE LoopHead(0)]
       ELSE /\ arrived' = arrived \cup {t}
            /\ UNCHANGED pc
  /\ UNCHANGED <<lab, mode, owner, counter, local, done, created, timer, total>>

-----------------------------------------------------------------------------
(* The workers.                                                             *)

LockIgnored(k) == TRUE
LockFree(k) == owner[k] = Nobody

\* bench_lock_acquire takes the lock its mode names, once it is free.
Acquire(t) ==
  /\ pc[t] = "acquire"
  /\ LockFree(mode)
  /\ owner' = [owner EXCEPT ![mode] = t]
  /\ Goto(t, "load")
  /\ UNCHANGED <<lab, mode, counter, local, done, created, arrived, timer, total>>

\* ++ of the counter loads it,
Load(t) ==
  /\ pc[t] = "load"
  /\ local' = [local EXCEPT ![t] = counter[Cell(t)]]
  /\ Goto(t, "store")
  /\ UNCHANGED <<lab, mode, owner, counter, done, created, arrived, timer, total>>

\* and stores the next value.
PlusOne(n) == (n + 1) % Word

Store(t) ==
  /\ pc[t] = "store"
  /\ counter' = [counter EXCEPT ![Cell(t)] = PlusOne(local[t])]
  /\ done' = [done EXCEPT ![t] = @ + 1]
  /\ Goto(t, IF mode = "none" THEN LoopHead(done[t] + 1) ELSE "release")
  /\ UNCHANGED <<lab, mode, owner, local, created, arrived, timer, total>>

\* The lock bench_lock_release gives up.
ReleasedMutex(m) == "mutex"
Released(m) == m

Release(t) ==
  /\ pc[t] = "release"
  /\ owner' = [owner EXCEPT ![Released(mode)] = Nobody]
  /\ Goto(t, LoopHead(done[t]))
  /\ UNCHANGED <<lab, mode, counter, local, done, created, arrived, timer, total>>

-----------------------------------------------------------------------------
MainStep ==
  \/ StartTimer \/ Create \/ CreatedAll \/ BarrierWait(Main) \/ StopTimer \/ Report
WorkerStep(t) == BarrierWait(t) \/ Acquire(t) \/ Load(t) \/ Store(t) \/ Release(t)

Terminated == ~Running /\ UNCHANGED vars
Next ==
  \/ Running /\ (MainStep \/ CreateFails \/ \E t \in Workers : WorkerStep(t) \/ PinFails(t))
  \/ Terminated

\* A runnable thread keeps running.  Neither lock hands itself over fairly,
\* and none has to: every competitor has finitely many rounds.
FairSpec ==
  /\ Init /\ [][Next]_vars
  /\ WF_vars(Running /\ MainStep)
  /\ \A t \in Workers : WF_vars(Running /\ WorkerStep(t))
-----------------------------------------------------------------------------
(* Properties.                                                              *)

TypeOK ==
  /\ lab \in Labs
  /\ mode \in ModesOf(lab)
  /\ owner \in [Locks -> Workers \cup {Nobody}]
  /\ counter \in [Cells -> 0 .. Word - 1]
  /\ local \in [Workers -> 0 .. Word - 1]
  /\ done \in [Workers -> 0 .. Iters]
  /\ pc[Main] \in {"create", "start_timer", "barrier", "join", "report", "returned", "failed"}
  /\ \A t \in Workers :
       pc[t] \in {"not_created", "barrier", "acquire", "load", "store", "release", "done"}
  /\ created \in 0 .. NumThreads
  /\ Running => arrived \subseteq {t \in Workers \cup {Main} : pc[t] = "barrier"}
  /\ timer \in {"before", "running", "stopped"}
  /\ total \in 0 .. Word - 1

\* The interval that is timed holds all of the measured work: no worker
\* touches a counter before t0 or after t1 and, where there is a barrier
\* ("all threads begin their real work at roughly the same moment"), none
\* before every worker is there.
MeasuredExactly ==
  /\ (\E t \in Workers : pc[t] \in {"load", "store"} \/ done[t] > 0) =>
       /\ timer # "before"
       /\ HasBarrier => created = NumThreads
  /\ timer = "stopped" => \A t \in Workers : done[t] = Iters

\* "final_counter = threads x iterations" (the lab's correctness check): no
\* increment is ever lost, whatever the interleaving of loads and stores, and
\* main prints their number, destroys no lock or barrier in use, and has timed
\* the work it prints.
CountExact ==
  /\ MeasuredExactly
  /\ (SumFunction(counter) - SumFunction(done)) % Word = 0
  /\ pc[Main] = "returned" =>
       /\ total = (NumThreads * Iters) % Word
       /\ \A k \in Locks : LockFree(k)
       /\ arrived = {}

\* main returns: the barrier lets everyone through, and no worker waits
\* forever for a lock.
Termination == <>~Running
=============================================================================
