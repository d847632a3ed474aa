-------------------------- MODULE ThreadPool_proofs ---------------------------
(***************************************************************************)
(* Proofs about ThreadPool for any number of workers, slots, tasks and     *)
(* rounds: the types, where each task is, that nobody sleeps through what  *)
(* it waits for, what main may touch between the rounds, and that every    *)
(* step is one of TaskRounds or leaves its variables alone.                *)
(***************************************************************************)
EXTENDS ThreadPool, ProofLemmas

-----------------------------------------------------------------------------
(* The inductive invariant.                                                 *)

\* What main's place in its program says about the rounds and the pool.
MainInOrder ==
  /\ pc[Main] \in {"enqueue", NotFull, "submit_relock"} => next < Tasks
  /\ pc[Main] \in {"await", AllDone, "await_relock"} => next = Tasks
  /\ pc[Main] \in RoundPcs => round > 0
  /\ pc[Main] \notin RoundPcs => outstanding = 0 /\ (round > 0 => next = Tasks)
  /\ ResultsRead => checksum = AllTasks /\ round = Rounds
  /\ stop <=> pc[Main] \in {"join", "destroyed"}
  /\ \A w \in Workers : pc[w] = "exited" => stop
  /\ pc[Main] = "destroyed" => WorkersJoined

\* Tasks are queued in the order of submit_round's loop: the ring holds the
\* last queue_size of those submitted.
QueueInOrder ==
  /\ queue_size <= next
  /\ \A k \in 0 .. queue_size - 1 :
       queue[(queue_head + k) % Capacity] + queue_size = next + k

\* A task not taken from the queue yet has not run; one taken has run once or
\* is run by one worker.
RunsOnce ==
  /\ \A i \in AllTasks :
       /\ results[i] \in {0, 1}
       /\ i + queue_size >= next => results[i] = 0
       /\ i + queue_size < next =>
            results[i] = 1 \/ \E w \in Workers : pc[w] = "run" /\ task[w] = i
  /\ \A w \in Workers : pc[w] = "run" => task[w] + queue_size < next /\ results[task[w]] = 0
  /\ \A v, w \in Workers : pc[v] = "run" /\ pc[w] = "run" /\ task[v] = task[w] => v = w

-----------------------------------------------------------------------------
(* Moves.                                                                   *)

\* What the parameters are, in the form the proofs use.
LEMMA PoolParameters ==
  /\ Capacity \in Nat \ {0} /\ Tasks \in Nat \ {0} /\ Rounds \in Nat \ {0}
  /\ IsFiniteSet(Workers) /\ Main \notin Workers /\ Nobody \notin Threads
  /\ Threads = Workers \cup {Main}
BY PoolAssumption DEF Threads

\* Where a move that wakes nobody leaves the threads.
LEMMA GotoPc ==
  ASSUME TypeOK, NEW t \in Threads, NEW to, Goto(t, to)
  PROVE  \A u \in Threads : pc'[u] = IF u = t THEN to ELSE pc[u]
BY DEF Goto, TypeOK

\* A signal or a broadcast wakes threads that wait on that variable: main is
\* the only one to wait on not_full and all_done, and only workers wait on
\* not_empty.
LEMMA WokenWait ==
  ASSUME TypeOK, NEW cv \in CondVars, NEW woken \in Signal(cv) \cup Broadcast(cv)
  PROVE  /\ woken \subseteq Waiters(cv)
         /\ cv = NotEmpty => woken \subseteq Workers
         /\ cv # NotEmpty => woken = IF pc[Main] = cv THEN {Main} ELSE {}
<1> USE PoolParameters DEF Waiters
<1>1. woken \subseteq Waiters(cv)
  BY DEF Signal, Broadcast
<1>2. ASSUME cv = NotEmpty PROVE Main \notin Waiters(cv)
  BY <1>2 DEF TypeOK, MainPcs, RoundPcs, NotEmpty, NotFull, AllDone
<1>3. ASSUME cv # NotEmpty, NEW w \in Workers PROVE w \notin Waiters(cv)
  BY <1>3 DEF TypeOK, WorkerPcs, CondVars, NotEmpty, NotFull, AllDone
<1>4. cv # NotEmpty => Waiters(cv) = IF pc[Main] = cv THEN {Main} ELSE {}
  BY <1>3
<1>5. Waiters(cv) = {} => woken = {}
  BY DEF Signal, Broadcast
<1>6. Waiters(cv) = {Main} => woken = {Main}
  BY DEF Signal, Broadcast
<1> QED BY <1>1, <1>2, <1>4, <1>5, <1>6

\* Where a move leaves the threads.
LEMMA MovePc ==
  ASSUME TypeOK, NEW t \in Threads, NEW to, NEW cv \in CondVars,
         NEW woken \in Signal(cv) \cup Broadcast(cv), Move(t, to, woken)
  PROVE  \A u \in Threads :
           pc'[u] = IF u = t THEN to ELSE IF u \in woken THEN Relocking(cv) ELSE pc[u]
<1>1. woken \subseteq Waiters(cv)
  BY WokenWait
<1> QED BY <1>1 DEF Move, Waiters

\* A woken thread goes on to take the mutex back.
LEMMA RelockingPcs ==
  /\ Relocking(NotEmpty) = "take_relock"
  /\ Relocking(NotFull) = "submit_relock"
  /\ Relocking(AllDone) = "await_relock"
BY DEF Relocking, NotEmpty, NotFull, AllDone

\* TRUE when t goes to `to` in its own program and nobody else leaves its.
InProgram(t, to) == IF t = Main THEN to \in MainPcs ELSE to \in WorkerPcs

\* A thread that goes on in its own program keeps the program counters in range,
LEMMA GotoTypes ==
  ASSUME TypeOK, NEW t \in Threads, NEW to, Goto(t, to), InProgram(t, to)
  PROVE  /\ pc' \in [Threads -> WorkerPcs \cup MainPcs]
         /\ \A w \in Workers : pc'[w] \in WorkerPcs
         /\ pc'[Main] \in MainPcs
<1> USE PoolParameters
<1>1. \A u \in Threads : pc'[u] = IF u = t THEN to ELSE pc[u]
  BY GotoPc
<1> QED BY <1>1 DEF Goto, TypeOK, InProgram

\* and so does one that wakes others on its way.
LEMMA MoveTypes ==
  ASSUME TypeOK, NEW t \in Threads, NEW to, NEW cv \in CondVars,
         NEW woken \in Signal(cv) \cup Broadcast(cv), Move(t, to, woken), InProgram(t, to)
  PROVE  /\ pc' \in [Threads -> WorkerPcs \cup MainPcs]
         /\ \A w \in Workers : pc'[w] \in WorkerPcs
         /\ pc'[Main] \in MainPcs
<1> USE PoolParameters
<1>1. \A u \in Threads :
        pc'[u] = IF u = t THEN to ELSE IF u \in woken THEN Relocking(cv) ELSE pc[u]
  BY MovePc
<1>2. /\ cv = NotEmpty => woken \subseteq Workers
      /\ cv # NotEmpty => woken \subseteq {Main}
  BY WokenWait
<1>3. /\ Relocking(NotEmpty) \in WorkerPcs
      /\ cv # NotEmpty => Relocking(cv) \in MainPcs
  BY RelockingPcs DEF CondVars, WorkerPcs, MainPcs, RoundPcs
<1>4. \A w \in Workers : pc'[w] \in WorkerPcs
  BY <1>1, <1>2, <1>3 DEF TypeOK, InProgram
<1>5. pc'[Main] \in MainPcs
  BY <1>1, <1>2, <1>3 DEF TypeOK, InProgram
<1>6. pc' = [u \in Threads |-> pc'[u]]
  BY DEF Move
<1> QED BY <1>4, <1>5, <1>6

\* Taking the mutex, and releasing it to sleep, change nothing else.
LEMMA LockWaitTypes ==
  ASSUME TypeOK, NEW t \in Threads, NEW from, NEW to, InProgram(t, to),
         Lock(t, from, to) \/ Wait(t, from, to)
  PROVE  TypeOK'
<1>1. Goto(t, to)
  BY DEF Lock, Wait
<1>2. mu' \in Threads \cup {Nobody}
  BY DEF Lock, Wait
<1>3. UNCHANGED <<poolVars, task, results, mainVars>>
  BY DEF Lock, Wait
<1> QED BY <1>1, <1>2, <1>3, GotoTypes DEF TypeOK, poolVars, mainVars

\* The steps of a worker keep the types.
LEMMA WorkerTypes ==
  ASSUME TypeOK, Accounted, NEW w \in Workers, WorkerStep(w)
  PROVE  TypeOK'
<1> USE PoolParameters
<1>0. /\ w \in Threads /\ w # Main
      /\ \A to \in WorkerPcs : InProgram(w, to)
      /\ "take" \in WorkerPcs /\ NotEmpty \in WorkerPcs /\ "exited" \in WorkerPcs
      /\ "run" \in WorkerPcs /\ "ran" \in WorkerPcs /\ "finish" \in WorkerPcs /\ "idle" \in WorkerPcs
      /\ NotFull \in CondVars /\ AllDone \in CondVars
  BY DEF InProgram, WorkerPcs, CondVars
<1>1. CASE TakeLock(w) \/ TakeRelock(w) \/ FinishLock(w)
  BY <1>0, <1>1, LockWaitTypes DEF TakeLock, TakeRelock, FinishLock
<1>2. CASE TakeWait(w)
  BY <1>0, <1>2, LockWaitTypes DEF TakeWait
<1>3. CASE WorkerExit(w)
  BY <1>0, <1>3, GotoTypes DEF WorkerExit, TypeOK, poolVars, mainVars
<1>4. CASE TakeTask(w)
  <2>1. PICK woken \in Signal(NotFull) : Move(w, "run", woken)
    BY <1>4 DEF TakeTask
  <2>2. /\ pc' \in [Threads -> WorkerPcs \cup MainPcs]
        /\ \A v \in Workers : pc'[v] \in WorkerPcs
        /\ pc'[Main] \in MainPcs
    BY <1>0, <2>1, MoveTypes
  <2>3. queue_head' \in Slots
    BY <1>4, RingIndices DEF TakeTask, TypeOK, NextIndex, Slots
  <2>4. queue_size' \in 0 .. Capacity
    BY <1>4 DEF TakeTask, TypeOK
  <2>5. task' \in [Workers -> AllTasks]
    BY <1>4 DEF TakeTask, TypeOK
  <2> QED BY <1>4, <2>2, <2>3, <2>4, <2>5 DEF TakeTask, TypeOK, mainVars
<1>5. CASE RunTask(w)
  <2>1. results' \in [AllTasks -> Nat]
    BY <1>5 DEF RunTask, TypeOK
  <2> QED BY <1>0, <1>5, <2>1, GotoTypes DEF RunTask, TypeOK, poolVars, mainVars
<1>6. CASE FinishTask(w)
  <2>1. PICK woken \in Signal(AllDone) \cup Broadcast(AllDone) \cup {{}} : Move(w, "idle", woken)
    BY <1>6 DEF FinishTask
  <2>2. /\ pc' \in [Threads -> WorkerPcs \cup MainPcs]
        /\ \A v \in Workers : pc'[v] \in WorkerPcs
        /\ pc'[Main] \in MainPcs
    <3>1. CASE woken # {}
      BY <1>0, <2>1, <3>1, MoveTypes
    <3>2. CASE woken = {}
      BY <1>0, <2>1, <3>2 DEF Move, TypeOK
    <3> QED BY <3>1, <3>2
  <2>3. outstanding' \in Nat
    <3>1. w \in Busy
      BY <1>6 DEF FinishTask, Busy
    <3>2. IsFiniteSet(Busy)
      BY FS_Subset DEF Busy
    <3>3. Cardinality(Busy) \in Nat /\ Cardinality(Busy) # 0
      BY <3>1, <3>2, FS_EmptySet, FS_CardinalityType
    <3> QED BY <1>6, <3>3 DEF FinishTask, Accounted, TypeOK
  <2> QED BY <1>6, <2>2, <2>3 DEF FinishTask, TypeOK, mainVars
<1> QED BY <1>1, <1>2, <1>3, <1>4, <1>5, <1>6 DEF WorkerStep

\* The steps of main keep the types.
LEMMA MainTypes ==
  ASSUME TypeOK, MainInOrder, MainStep
  PROVE  TypeOK'
<1> USE PoolParameters
<1>0. /\ Main \in Threads
      /\ \A to \in MainPcs : InProgram(Main, to)
      /\ {"submit", "enqueue", NotFull, "await", AllDone, "between", "freed",
          "stopping", "join", "destroyed"} \subseteq MainPcs
      /\ NotEmpty \in CondVars
  BY DEF InProgram, MainPcs, RoundPcs, CondVars
<1>1. CASE SubmitLock \/ SubmitRelock \/ AwaitLock \/ AwaitRelock \/ StopLock
  BY <1>0, <1>1, LockWaitTypes DEF SubmitLock, SubmitRelock, AwaitLock, AwaitRelock, StopLock
<1>2. CASE SubmitWait \/ AwaitWait
  BY <1>0, <1>2, LockWaitTypes DEF SubmitWait, AwaitWait
<1>3. CASE BeginRound
  <2>1. results' \in [AllTasks -> Nat] /\ next' \in 0 .. Tasks /\ round' \in 0 .. Rounds
    BY <1>3 DEF BeginRound, TypeOK
  <2> QED BY <1>0, <1>3, <2>1, GotoTypes DEF BeginRound, TypeOK, poolVars
<1>4. CASE Enqueue
  <2>1. PICK woken \in Signal(NotEmpty) : Move(Main, "submit", woken)
    BY <1>4 DEF Enqueue
  <2>2. /\ pc' \in [Threads -> WorkerPcs \cup MainPcs]
        /\ \A v \in Workers : pc'[v] \in WorkerPcs
        /\ pc'[Main] \in MainPcs
    BY <1>0, <2>1, MoveTypes
  <2>3. next < Tasks /\ next \in AllTasks
    BY <1>4 DEF Enqueue, MainInOrder, TypeOK, AllTasks
  <2>4. queue_tail' \in Slots
    BY <1>4, RingIndices DEF Enqueue, TypeOK, NextIndex, Slots
  <2>5. queue_size' \in 0 .. Capacity /\ outstanding' \in Nat /\ next' \in 0 .. Tasks
    BY <1>4, <2>3 DEF Enqueue, TypeOK, IsFull
  <2>6. queue' \in [Slots -> AllTasks]
    BY <1>4, <2>3 DEF Enqueue, TypeOK
  <2> QED BY <1>4, <2>2, <2>4, <2>5, <2>6 DEF Enqueue, TypeOK
<1>5. CASE AwaitDone \/ Destroy
  BY <1>0, <1>5, GotoTypes DEF AwaitDone, Destroy, TypeOK, poolVars, mainVars
<1>6. CASE ReadResults
  BY <1>0, <1>6, GotoTypes DEF ReadResults, TypeOK, poolVars
<1>7. CASE Stop
  <2>1. PICK woken \in Broadcast(NotEmpty), submitters \in Broadcast(NotFull) :
               Move(Main, "join", woken \cup submitters)
    BY <1>7 DEF Stop
  <2>2. submitters = {}
    <3>1. pc[Main] # NotFull
      BY <1>7 DEF Stop, NotFull
    <3>2. NotFull \in CondVars /\ NotFull # NotEmpty
      BY DEF CondVars, NotFull, NotEmpty
    <3> QED BY <2>1, <3>1, <3>2, WokenWait
  <2>3. woken \cup submitters = woken
    BY <2>2
  <2>4. /\ pc' \in [Threads -> WorkerPcs \cup MainPcs]
        /\ \A v \in Workers : pc'[v] \in WorkerPcs
        /\ pc'[Main] \in MainPcs
    BY <1>0, <2>1, <2>3, MoveTypes
  <2> QED BY <1>7, <2>4 DEF Stop, TypeOK, mainVars
<1> QED BY <1>1, <1>2, <1>3, <1>4, <1>5, <1>6, <1>7 DEF MainStep

\* Waking without a signal keeps a thread in its program.
LEMMA SpuriousTypes ==
  ASSUME TypeOK, NEW t \in Threads, SpuriousWakeup(t)
  PROVE  TypeOK' /\ InProgram(t, Relocking(pc[t]))
<1> USE PoolParameters
<1>1. InProgram(t, Relocking(pc[t]))
  BY RelockingPcs DEF SpuriousWakeup, CondVars, InProgram, TypeOK, WorkerPcs, MainPcs,
                      RoundPcs, NotEmpty, NotFull, AllDone
<1> QED BY <1>1, GotoTypes DEF SpuriousWakeup, TypeOK, poolVars, mainVars

\* Every step of the pool preserves the types.
LEMMA TypeStep == TypeOK /\ Accounted /\ MainInOrder /\ [Next]_vars => TypeOK'
<1> SUFFICES ASSUME TypeOK, Accounted, MainInOrder, [Next]_vars PROVE TypeOK'
  OBVIOUS
<1>1. UNCHANGED vars => TypeOK'
  BY DEF TypeOK, vars, poolVars, mainVars
<1> QED BY <1>1, WorkerTypes, MainTypes, SpuriousTypes DEF Next, Terminated

-----------------------------------------------------------------------------
(* Who is where.  A step moves one thread from one pc to another; whoever   *)
(* else it moves goes from a condition variable to take the mutex back.     *)

Woken(u) == pc[u] \in CondVars /\ pc'[u] = Relocking(pc[u])
Moves(t, from, to) ==
  /\ pc[t] = from
  /\ pc'[t] = to
  /\ \A u \in Threads : u # t => pc'[u] = pc[u] \/ Woken(u)

\* Going on, with nobody else concerned, is a move,
LEMMA GotoMoves ==
  ASSUME TypeOK, NEW t \in Threads, NEW to, Goto(t, to)
  PROVE  Moves(t, pc[t], to)
BY GotoPc DEF Moves

\* and so is going on after a signal or a broadcast.
LEMMA MoveMoves ==
  ASSUME TypeOK, NEW t \in Threads, NEW to, NEW cv \in CondVars,
         NEW woken \in Signal(cv) \cup Broadcast(cv) \cup {{}}, Move(t, to, woken)
  PROVE  Moves(t, pc[t], to)
<1>1. CASE woken \in Signal(cv) \cup Broadcast(cv)
  BY <1>1, MovePc, WokenWait DEF Moves, Woken, Waiters
<1>2. CASE woken = {}
  BY <1>2 DEF Move, Moves
<1> QED BY <1>1, <1>2

\* The moves of a worker.
LEMMA WorkerMoves ==
  ASSUME TypeOK, NEW w \in Workers
  PROVE  /\ TakeLock(w) => Moves(w, "idle", "take")
         /\ TakeRelock(w) => Moves(w, "take_relock", "take")
         /\ TakeWait(w) => Moves(w, "take", NotEmpty)
         /\ WorkerExit(w) => Moves(w, "take", "exited")
         /\ TakeTask(w) => Moves(w, "take", "run")
         /\ RunTask(w) => Moves(w, "run", "ran")
         /\ FinishLock(w) => Moves(w, "ran", "finish")
         /\ FinishTask(w) => Moves(w, "finish", "idle")
<1> USE PoolParameters
<1>0. w \in Threads /\ NotFull \in CondVars /\ AllDone \in CondVars
  BY DEF CondVars
<1>1. ASSUME TakeTask(w) PROVE Moves(w, "take", "run")
  BY <1>0, <1>1, MoveMoves DEF TakeTask
<1>2. ASSUME FinishTask(w) PROVE Moves(w, "finish", "idle")
  <2>1. PICK woken \in Signal(AllDone) \cup Broadcast(AllDone) \cup {{}} : Move(w, "idle", woken)
    BY <1>2 DEF FinishTask
  <2> QED BY <1>0, <1>2, <2>1, MoveMoves DEF FinishTask
<1> QED BY <1>0, <1>1, <1>2, GotoMoves
        DEF TakeLock, TakeRelock, TakeWait, WorkerExit, RunTask, FinishLock, Lock, Wait

\* The moves of main.
LEMMA MainMoves ==
  ASSUME TypeOK
  PROVE  /\ BeginRound => Moves(Main, "between", "submit")
         /\ SubmitLock => Moves(Main, "submit", "enqueue")
         /\ SubmitRelock => Moves(Main, "submit_relock", "enqueue")
         /\ SubmitWait => Moves(Main, "enqueue", NotFull)
         /\ Enqueue => Moves(Main, "enqueue", "submit")
         /\ AwaitLock => Moves(Main, "submit", "await")
         /\ AwaitRelock => Moves(Main, "await_relock", "await")
         /\ AwaitWait => Moves(Main, "await", AllDone)
         /\ AwaitDone => Moves(Main, "await", "between")
         /\ ReadResults => Moves(Main, "between", "freed")
         /\ StopLock => Moves(Main, "freed", "stopping")
         /\ Stop => Moves(Main, "stopping", "join")
         /\ Destroy => Moves(Main, "join", "destroyed")
<1> USE PoolParameters
<1>0. Main \in Threads /\ NotEmpty \in CondVars
  BY DEF CondVars
<1>1. ASSUME Enqueue PROVE Moves(Main, "enqueue", "submit")
  BY <1>0, <1>1, MoveMoves DEF Enqueue
<1>2. ASSUME Stop PROVE Moves(Main, "stopping", "join")
  <2>1. PICK woken : /\ woken \in Broadcast(NotEmpty) /\ Move(Main, "join", woken)
    <3>1. NotFull \in CondVars /\ NotFull # NotEmpty /\ pc[Main] # NotFull
      BY <1>2 DEF CondVars, NotFull, NotEmpty, Stop
    <3>2. \A submitters \in Broadcast(NotFull) : submitters = {}
      BY <3>1, WokenWait
    <3>3. PICK workers \in Broadcast(NotEmpty), submitters \in Broadcast(NotFull) :
            Move(Main, "join", workers \cup submitters)
      BY <1>2 DEF Stop
    <3>4. workers \cup submitters = workers
      BY <3>2
    <3> QED BY <3>3, <3>4
  <2> QED BY <1>0, <1>2, <2>1, MoveMoves DEF Stop
<1>3. /\ BeginRound => Goto(Main, "submit") /\ pc[Main] = "between"
      /\ AwaitDone => Goto(Main, "between") /\ pc[Main] = "await"
      /\ ReadResults => Goto(Main, "freed") /\ pc[Main] = "between"
      /\ Destroy => Goto(Main, "destroyed") /\ pc[Main] = "join"
  BY DEF BeginRound, AwaitDone, ReadResults, Destroy
<1>4. /\ SubmitLock => Goto(Main, "enqueue") /\ pc[Main] = "submit"
      /\ SubmitRelock => Goto(Main, "enqueue") /\ pc[Main] = "submit_relock"
      /\ SubmitWait => Goto(Main, NotFull) /\ pc[Main] = "enqueue"
      /\ AwaitLock => Goto(Main, "await") /\ pc[Main] = "submit"
      /\ AwaitRelock => Goto(Main, "await") /\ pc[Main] = "await_relock"
      /\ AwaitWait => Goto(Main, AllDone) /\ pc[Main] = "await"
      /\ StopLock => Goto(Main, "stopping") /\ pc[Main] = "freed"
  BY DEF SubmitLock, SubmitRelock, SubmitWait, AwaitLock, AwaitRelock, AwaitWait, StopLock,
         Lock, Wait
<1> QED BY <1>0, <1>1, <1>2, <1>3, <1>4, GotoMoves

\* A thread that wakes without a signal.
LEMMA SpuriousMoves ==
  ASSUME TypeOK, NEW t \in Threads, SpuriousWakeup(t)
  PROVE  \A u \in Threads : pc'[u] = pc[u] \/ Woken(u)
BY GotoPc DEF SpuriousWakeup, Woken

\* Waking up concerns none of the places that the invariants speak of.
Placed == Critical \cup {"run", "ran", "exited", "destroyed"}
\* A thread that is being woken up is in none of those places, before or after.
LEMMA WokenElsewhere ==
  ASSUME NEW u, Woken(u)
  PROVE  pc[u] \notin Placed /\ pc'[u] \notin Placed
BY RelockingPcs DEF Woken, Placed, Critical, CondVars, NotEmpty, NotFull, AllDone

\* The busy workers after a move.
LEMMA BusyMoves ==
  ASSUME NEW t \in Threads, NEW from, NEW to, Moves(t, from, to)
  PROVE  Busy' = IF t \in Workers /\ to \in {"run", "ran", "finish"} THEN Busy \cup {t}
                 ELSE Busy \ {t}
<1>1. \A u \in Workers : u # t => (u \in Busy' <=> u \in Busy)
  BY WokenElsewhere, PoolParameters DEF Moves, Busy, Placed, Critical
<1> QED BY <1>1 DEF Moves, Busy

\* As many workers are busy as tasks are taken and not completed.
LEMMA BusyFinite ==
  /\ IsFiniteSet(Busy) /\ Cardinality(Busy) \in Nat
  /\ \A w : w \notin Busy => Cardinality(Busy \cup {w}) = Cardinality(Busy) + 1
  /\ \A w \in Busy : Cardinality(Busy \ {w}) = Cardinality(Busy) - 1
<1>1. IsFiniteSet(Busy)
  BY PoolParameters, FS_Subset DEF Busy
<1> QED BY <1>1, FS_CardinalityType, FS_AddElement, FS_RemoveElement

-----------------------------------------------------------------------------
(* The pool's fields agree: Accounted, in its three parts.                  *)

RingAgrees == queue_tail = (queue_head + queue_size) % Capacity
OutstandingAgrees == outstanding = queue_size + Cardinality(Busy)
Exclusive == \A t \in Threads : pc[t] \in Critical <=> mu = t

\* The three kinds of step, as far as the mutex goes.
LEMMA ExclusiveMoves ==
  ASSUME Exclusive, NEW t \in Threads, NEW from, NEW to, Moves(t, from, to),
         \/ mu = Nobody /\ mu' = t /\ to \in Critical
         \/ from \in Critical /\ to \notin Critical /\ mu' = Nobody
         \/ from \notin Critical /\ to \notin Critical /\ mu' = mu
  PROVE  Exclusive'
<1>1. \A u \in Threads : u # t => (pc'[u] \in Critical <=> pc[u] \in Critical)
  BY WokenElsewhere DEF Moves, Placed
<1>2. pc[t] = from /\ pc'[t] = to /\ Nobody \notin Threads
  BY PoolParameters DEF Moves
<1> QED BY <1>1, <1>2 DEF Exclusive

\* No step lets a second thread into the mutex.
LEMMA ExclusiveStep == TypeOK /\ Exclusive /\ [Next]_vars => Exclusive'
<1> SUFFICES ASSUME TypeOK, Exclusive, [Next]_vars PROVE Exclusive'
  OBVIOUS
<1> USE PoolParameters
<1>1. ASSUME NEW w \in Workers, WorkerStep(w) PROVE Exclusive'
  <2> USE DEF Critical, NotEmpty
  <2>0. w \in Threads
    OBVIOUS
  <2>1. CASE TakeLock(w) \/ TakeRelock(w) \/ FinishLock(w)
    BY <2>0, <2>1, WorkerMoves, ExclusiveMoves
       DEF TakeLock, TakeRelock, FinishLock, Lock, MutexFree
  <2>2. CASE TakeWait(w) \/ WorkerExit(w) \/ TakeTask(w) \/ FinishTask(w)
    BY <2>0, <2>2, WorkerMoves, ExclusiveMoves
       DEF TakeWait, Wait, WorkerExit, TakeTask, FinishTask
  <2>3. CASE RunTask(w)
    BY <2>0, <2>3, WorkerMoves, ExclusiveMoves DEF RunTask
  <2> QED BY <1>1, <2>1, <2>2, <2>3 DEF WorkerStep
<1>2. ASSUME MainStep PROVE Exclusive'
  <2> USE DEF Critical, NotFull, AllDone
  <2>0. Main \in Threads
    OBVIOUS
  <2>1. CASE SubmitLock \/ SubmitRelock \/ AwaitLock \/ AwaitRelock \/ StopLock
    BY <2>0, <2>1, MainMoves, ExclusiveMoves
       DEF SubmitLock, SubmitRelock, AwaitLock, AwaitRelock, StopLock, Lock, MutexFree
  <2>2. CASE SubmitWait \/ Enqueue \/ AwaitWait \/ AwaitDone \/ Stop
    BY <2>0, <2>2, MainMoves, ExclusiveMoves
       DEF SubmitWait, AwaitWait, Wait, Enqueue, AwaitDone, Stop
  <2>3. CASE BeginRound \/ ReadResults \/ Destroy
    BY <2>0, <2>3, MainMoves, ExclusiveMoves DEF BeginRound, ReadResults, Destroy
  <2> QED BY <1>2, <2>1, <2>2, <2>3 DEF MainStep
<1>3. ASSUME NEW t \in Threads, SpuriousWakeup(t) PROVE Exclusive'
  BY <1>3, SpuriousMoves, WokenElsewhere DEF SpuriousWakeup, Exclusive, Placed
<1>4. ASSUME UNCHANGED vars PROVE Exclusive'
  BY <1>4 DEF vars, Exclusive
<1> QED BY <1>1, <1>2, <1>3, <1>4 DEF Next, Terminated

\* Only taking and submitting a task move the indices of the ring.
LEMMA RingStep == TypeOK /\ RingAgrees /\ [Next]_vars => RingAgrees'
<1> SUFFICES ASSUME TypeOK, RingAgrees, [Next]_vars PROVE RingAgrees'
  OBVIOUS
<1> USE PoolParameters
<1>0. queue_head \in 0 .. Capacity - 1 /\ queue_size \in 0 .. Capacity
  BY DEF TypeOK, Slots
<1>1. ASSUME NEW w \in Workers, TakeTask(w) PROVE RingAgrees'
  <2>1. /\ queue_tail' = queue_tail /\ queue_size' = queue_size - 1 /\ queue_size > 0
        /\ queue_head' = (queue_head + 1) % Capacity
    BY <1>1 DEF TakeTask, NextIndex
  <2>2. (((queue_head + 1) % Capacity) + (queue_size - 1)) % Capacity
          = (queue_head + queue_size) % Capacity
    BY <1>0, <2>1, RingIndices
  <2> QED BY <2>1, <2>2 DEF RingAgrees
<1>2. ASSUME Enqueue PROVE RingAgrees'
  <2>1. /\ queue_head' = queue_head /\ queue_size' = queue_size + 1 /\ queue_size < Capacity
        /\ queue_tail' = (queue_tail + 1) % Capacity
    BY <1>0, <1>2 DEF Enqueue, NextIndex, IsFull
  <2>2. (((queue_head + queue_size) % Capacity) + 1) % Capacity
          = (queue_head + (queue_size + 1)) % Capacity
    BY <1>0, <2>1, RingIndices
  <2> QED BY <2>1, <2>2 DEF RingAgrees
<1>3. ASSUME UNCHANGED <<queue_head, queue_tail, queue_size>> PROVE RingAgrees'
  BY <1>3 DEF RingAgrees
<1>4. ASSUME NEW w \in Workers, WorkerStep(w), ~TakeTask(w) PROVE RingAgrees'
  BY <1>3, <1>4 DEF WorkerStep, TakeLock, TakeRelock, TakeWait, WorkerExit, RunTask,
                    FinishLock, FinishTask, Lock, Wait, poolVars
<1>5. ASSUME MainStep, ~Enqueue PROVE RingAgrees'
  BY <1>3, <1>5 DEF MainStep, BeginRound, SubmitLock, SubmitRelock, SubmitWait, AwaitLock,
                    AwaitRelock, AwaitWait, AwaitDone, ReadResults, StopLock, Stop, Destroy,
                    Lock, Wait, poolVars
<1>6. ASSUME (\E t \in Threads : SpuriousWakeup(t)) \/ UNCHANGED vars PROVE RingAgrees'
  BY <1>3, <1>6 DEF SpuriousWakeup, vars, poolVars
<1> QED BY <1>1, <1>2, <1>4, <1>5, <1>6 DEF Next, Terminated

\* A task is outstanding from its submission to its completion.
LEMMA OutstandingStep ==
  TypeOK /\ OutstandingAgrees /\ [Next]_vars => OutstandingAgrees'
<1> SUFFICES ASSUME TypeOK, OutstandingAgrees, [Next]_vars PROVE OutstandingAgrees'
  OBVIOUS
<1> USE PoolParameters
<1>0. queue_size \in Nat /\ outstanding \in Nat /\ Cardinality(Busy) \in Nat
  BY BusyFinite DEF TypeOK
<1>1. ASSUME UNCHANGED <<queue_size, outstanding>>, Busy' = Busy PROVE OutstandingAgrees'
  BY <1>1 DEF OutstandingAgrees
<1>2. ASSUME NEW w \in Workers, WorkerStep(w) PROVE OutstandingAgrees'
  <2>0. w \in Threads
    OBVIOUS
  <2>1. CASE TakeLock(w) \/ TakeRelock(w) \/ TakeWait(w) \/ WorkerExit(w)
    <3>1. /\ UNCHANGED <<queue_size, outstanding>>
          /\ \E to \in {"take", NotEmpty, "exited"} : Moves(w, pc[w], to)
          /\ pc[w] \in {"idle", "take_relock", "take"}
      BY <2>1, WorkerMoves
         DEF TakeLock, TakeRelock, TakeWait, WorkerExit, Lock, Wait, poolVars
    <3>2. w \notin Busy /\ Busy' = Busy \ {w}
      BY <2>0, <3>1, BusyMoves DEF Busy, NotEmpty
    <3> QED BY <1>1, <3>1, <3>2
  <2>2. CASE RunTask(w) \/ FinishLock(w)
    <3>1. /\ UNCHANGED <<queue_size, outstanding>>
          /\ \E to \in {"ran", "finish"} : Moves(w, pc[w], to)
          /\ pc[w] \in {"run", "ran"}
      BY <2>2, WorkerMoves DEF RunTask, FinishLock, Lock, poolVars
    <3>2. w \in Busy /\ Busy' = Busy \cup {w}
      BY <2>0, <3>1, BusyMoves DEF Busy
    <3> QED BY <1>1, <3>1, <3>2
  <2>3. CASE TakeTask(w)
    <3>1. /\ outstanding' = outstanding /\ queue_size' = queue_size - 1 /\ queue_size > 0
          /\ Moves(w, "take", "run") /\ pc[w] = "take"
      BY <2>3, WorkerMoves DEF TakeTask
    <3>2. w \notin Busy /\ Busy' = Busy \cup {w}
      BY <2>0, <3>1, BusyMoves DEF Busy
    <3>3. Cardinality(Busy') = Cardinality(Busy) + 1
      BY <3>2, BusyFinite
    <3> QED BY <1>0, <3>1, <3>3 DEF OutstandingAgrees
  <2>4. CASE FinishTask(w)
    <3>1. /\ outstanding' = outstanding - 1 /\ queue_size' = queue_size
          /\ Moves(w, "finish", "idle") /\ pc[w] = "finish"
      BY <2>4, WorkerMoves DEF FinishTask
    <3>2. w \in Busy /\ Busy' = Busy \ {w}
      BY <2>0, <3>1, BusyMoves DEF Busy
    <3>3. Cardinality(Busy') = Cardinality(Busy) - 1 /\ Cardinality(Busy) # 0
      BY <3>2, BusyFinite, FS_EmptySet
    <3> QED BY <1>0, <3>1, <3>3 DEF OutstandingAgrees
  <2> QED BY <1>2, <2>1, <2>2, <2>3, <2>4 DEF WorkerStep
<1>3. ASSUME MainStep PROVE OutstandingAgrees'
  <2>1. Busy' = Busy
    <3>1. Main \in Threads /\ Main \notin Busy /\ \E to : Moves(Main, pc[Main], to)
      BY <1>3, MainMoves DEF Busy, MainStep, Moves
    <3> QED BY <3>1, BusyMoves
  <2>2. CASE Enqueue
    BY <1>0, <2>1, <2>2 DEF Enqueue, OutstandingAgrees
  <2>3. CASE ~Enqueue
    BY <1>1, <1>3, <2>1, <2>3
       DEF MainStep, BeginRound, SubmitLock, SubmitRelock, SubmitWait, AwaitLock,
           AwaitRelock, AwaitWait, AwaitDone, ReadResults, StopLock, Stop, Destroy,
           Lock, Wait, poolVars
  <2> QED BY <2>2, <2>3
<1>4. ASSUME NEW t \in Threads, SpuriousWakeup(t) PROVE OutstandingAgrees'
  <2>1. Busy' = Busy
    BY <1>4, SpuriousMoves, WokenElsewhere DEF Busy, Placed, Critical
  <2> QED BY <1>1, <1>4, <2>1 DEF SpuriousWakeup, poolVars
<1>5. ASSUME UNCHANGED vars PROVE OutstandingAgrees'
  BY <1>1, <1>5 DEF vars, poolVars, Busy
<1> QED BY <1>2, <1>3, <1>4, <1>5 DEF Next, Terminated

\* Every step keeps the mutex, the ring and the count of outstanding tasks in order.
LEMMA AccountedStep == TypeOK /\ Accounted /\ [Next]_vars => Accounted'
BY ExclusiveStep, RingStep, OutstandingStep
   DEF Accounted, Exclusive, RingAgrees, OutstandingAgrees

-----------------------------------------------------------------------------
(* Main's program.                                                          *)

\* With nothing outstanding the queue is empty and no worker is busy.
LEMMA NothingOutstandingMeans ==
  ASSUME TypeOK, Accounted, outstanding = 0
  PROVE  queue_size = 0 /\ Busy = {}
<1>1. queue_size \in Nat /\ Cardinality(Busy) \in Nat
  BY BusyFinite, PoolParameters DEF TypeOK
<1>2. queue_size = 0 /\ Cardinality(Busy) = 0
  BY <1>1 DEF Accounted
<1> QED BY <1>2, BusyFinite, FS_EmptySet

\* Main is where it was after the step of another thread, or has woken up.
LEMMA MainStays ==
  ASSUME TypeOK, pc'[Main] = pc[Main] \/ Woken(Main)
  PROVE  /\ pc'[Main] \in {"enqueue", NotFull, "submit_relock"}
              <=> pc[Main] \in {"enqueue", NotFull, "submit_relock"}
         /\ pc'[Main] \in {"await", AllDone, "await_relock"}
              <=> pc[Main] \in {"await", AllDone, "await_relock"}
         /\ pc'[Main] \in RoundPcs <=> pc[Main] \in RoundPcs
         /\ ResultsRead' <=> ResultsRead
         /\ pc'[Main] \in {"join", "destroyed"} <=> pc[Main] \in {"join", "destroyed"}
         /\ pc'[Main] = "destroyed" <=> pc[Main] = "destroyed"
<1>1. pc[Main] # NotEmpty
  BY DEF TypeOK, MainPcs, RoundPcs, NotEmpty, NotFull, AllDone
<1> QED BY <1>1, RelockingPcs
        DEF Woken, CondVars, RoundPcs, ResultsRead, NotEmpty, NotFull, AllDone

\* Outside the rounds every task of the last round has run.
LEMMA RoundComplete ==
  ASSUME TypeOK, Accounted, MainInOrder, RunsOnce, pc[Main] \notin RoundPcs
  PROVE  /\ queue_size = 0 /\ Busy = {}
         /\ round > 0 => \A i \in AllTasks : results[i] = 1
<1>1. queue_size = 0 /\ Busy = {}
  BY NothingOutstandingMeans DEF MainInOrder
<1>2. \A w \in Workers : pc[w] # "run"
  BY <1>1 DEF Busy
<1>3. ASSUME round > 0, NEW i \in AllTasks PROVE results[i] = 1
  <2>1. next = Tasks
    BY <1>3 DEF MainInOrder
  <2>2. i + queue_size < next
    BY <1>1, <2>1, PoolParameters DEF AllTasks
  <2> QED BY <1>2, <2>2 DEF RunsOnce
<1> QED BY <1>1, <1>3

\* A worker takes no step once main has destroyed the pool, finishes no task
\* outside the rounds, and exits only when the pool stops.
LEMMA MainInOrderStep ==
  TypeOK /\ Accounted /\ MainInOrder /\ RunsOnce /\ [Next]_vars => MainInOrder'
<1> SUFFICES ASSUME TypeOK, Accounted, MainInOrder, RunsOnce, [Next]_vars PROVE MainInOrder'
  OBVIOUS
<1> USE PoolParameters
<1>1. ASSUME pc'[Main] = pc[Main] \/ Woken(Main), UNCHANGED <<mainVars, stop>>,
             pc[Main] \notin RoundPcs => outstanding' = outstanding,
             \A w \in Workers : pc'[w] = "exited" => pc[w] = "exited" \/ stop,
             WorkersJoined => WorkersJoined'
      PROVE  MainInOrder'
  <2>1. /\ pc'[Main] \in {"enqueue", NotFull, "submit_relock"}
             <=> pc[Main] \in {"enqueue", NotFull, "submit_relock"}
        /\ pc'[Main] \in {"await", AllDone, "await_relock"}
             <=> pc[Main] \in {"await", AllDone, "await_relock"}
        /\ pc'[Main] \in RoundPcs <=> pc[Main] \in RoundPcs
        /\ ResultsRead' <=> ResultsRead
        /\ pc'[Main] \in {"join", "destroyed"} <=> pc[Main] \in {"join", "destroyed"}
        /\ pc'[Main] = "destroyed" <=> pc[Main] = "destroyed"
    BY <1>1, MainStays
  <2> QED BY <1>1, <2>1 DEF MainInOrder, mainVars
<1>2. ASSUME NEW w \in Workers, WorkerStep(w) PROVE MainInOrder'
  <2>1. \E to : Moves(w, pc[w], to) /\ pc[w] # "exited" /\ (to = "exited" => stop)
    BY <1>2, WorkerMoves DEF WorkerStep, Moves, WorkerExit, NotEmpty
  <2>2. /\ pc'[Main] = pc[Main] \/ Woken(Main)
        /\ \A v \in Workers : v # w => (pc'[v] = "exited" <=> pc[v] = "exited")
        /\ pc'[w] = "exited" => stop
        /\ ~WorkersJoined
    BY <2>1, WokenElsewhere DEF Moves, Placed, WorkersJoined
  <2>3. UNCHANGED <<mainVars, stop>>
    BY <1>2 DEF WorkerStep, TakeLock, TakeRelock, TakeWait, WorkerExit, TakeTask, RunTask,
                FinishLock, FinishTask, Lock, Wait, poolVars
  <2>4. CASE FinishTask(w)
    <3>1. pc[Main] \in RoundPcs
      <4>1. w \in Busy
        BY <2>4 DEF FinishTask, Busy
      <4> QED BY <4>1, NothingOutstandingMeans DEF MainInOrder
    <3> QED BY <1>1, <2>2, <2>3, <3>1
  <2>5. CASE ~FinishTask(w)
    <3>1. outstanding' = outstanding
      BY <1>2, <2>5 DEF WorkerStep, TakeLock, TakeRelock, TakeWait, WorkerExit, TakeTask,
                        RunTask, FinishLock, Lock, Wait, poolVars
    <3> QED BY <1>1, <2>2, <2>3, <3>1
  <2> QED BY <2>4, <2>5
<1>3. ASSUME NEW t \in Threads, SpuriousWakeup(t) PROVE MainInOrder'
  <2>1. \A u \in Threads : pc'[u] = pc[u] \/ Woken(u)
    BY <1>3, SpuriousMoves
  <2>2. \A w \in Workers : pc'[w] = "exited" <=> pc[w] = "exited"
    BY <2>1, WokenElsewhere DEF Placed
  <2> QED BY <1>1, <1>3, <2>1, <2>2 DEF SpuriousWakeup, WorkersJoined, poolVars
<1>4. ASSUME UNCHANGED vars PROVE MainInOrder'
  BY <1>1, <1>4 DEF vars, poolVars, WorkersJoined
<1>5. ASSUME MainStep PROVE MainInOrder'
  <2> USE DEF NotFull, AllDone, NotEmpty, RoundPcs, ResultsRead
  <2>1. \A w \in Workers : pc'[w] = "exited" <=> pc[w] = "exited"
    <3>1. \E to : Moves(Main, pc[Main], to)
      BY <1>5, MainMoves DEF MainStep, Moves
    <3> QED BY <3>1, WokenElsewhere DEF Moves, Placed
  <2>2. \A w \in Workers : pc'[w] = "exited" => stop
    BY <2>1 DEF MainInOrder
  <2>3. CASE BeginRound
    <3>1. Moves(Main, "between", "submit")
      BY <2>3, MainMoves
    <3> QED BY <2>2, <2>3, <3>1 DEF BeginRound, MainInOrder, Moves, poolVars, TypeOK
  <2>4. CASE SubmitLock \/ SubmitRelock \/ SubmitWait
    <3>1. /\ pc[Main] \in {"submit", "submit_relock", "enqueue"}
          /\ pc'[Main] \in {"enqueue", NotFull}
          /\ next < Tasks
      BY <2>4, MainMoves DEF Moves, SubmitLock, SubmitRelock, MainInOrder
    <3> QED BY <2>2, <2>4, <3>1 DEF SubmitLock, SubmitRelock, SubmitWait, Lock, Wait,
                                    MainInOrder, poolVars, mainVars
  <2>5. CASE Enqueue
    <3>1. Moves(Main, "enqueue", "submit")
      BY <2>5, MainMoves
    <3> QED BY <2>2, <2>5, <3>1 DEF Enqueue, MainInOrder, Moves
  <2>6. CASE AwaitLock \/ AwaitRelock \/ AwaitWait
    <3>1. /\ pc[Main] \in {"submit", "await_relock", "await"}
          /\ pc'[Main] \in {"await", AllDone}
          /\ next = Tasks
      BY <2>6, MainMoves DEF Moves, AwaitLock, AwaitRelock, MainInOrder
    <3> QED BY <2>2, <2>6, <3>1 DEF AwaitLock, AwaitRelock, AwaitWait, Lock, Wait,
                                    MainInOrder, poolVars, mainVars
  <2>7. CASE AwaitDone
    <3>1. Moves(Main, "await", "between")
      BY <2>7, MainMoves
    <3> QED BY <2>2, <2>7, <3>1
            DEF AwaitDone, NothingOutstanding, MainInOrder, Moves, poolVars, mainVars
  <2>8. CASE StopLock
    <3>1. Moves(Main, "freed", "stopping")
      BY <2>8, MainMoves
    <3> QED BY <2>2, <2>8, <3>1 DEF StopLock, Lock, MainInOrder, Moves, poolVars, mainVars
  <2>9. CASE Stop
    <3>1. Moves(Main, "stopping", "join")
      BY <2>9, MainMoves
    <3> QED BY <2>2, <2>9, <3>1 DEF Stop, MainInOrder, Moves, mainVars
  <2>10. CASE Destroy
    <3>1. Moves(Main, "join", "destroyed")
      BY <2>10, MainMoves
    <3> QED BY <2>1, <2>2, <2>10, <3>1
            DEF Destroy, WorkersJoined, MainInOrder, Moves, poolVars, mainVars
  <2>11. CASE ReadResults
    <3>1. Moves(Main, "between", "freed") /\ round > 0
      BY <2>11, MainMoves DEF ReadResults
    <3>2. \A i \in AllTasks : results[i] = 1
      BY <3>1, RoundComplete DEF Moves
    <3>3. checksum' = AllTasks
      BY <2>11, <3>2 DEF ReadResults
    <3> QED BY <2>2, <2>11, <3>1, <3>3 DEF ReadResults, MainInOrder, Moves, poolVars
  <2> QED BY <1>5, <2>3, <2>4, <2>5, <2>6, <2>7, <2>8, <2>9, <2>10, <2>11 DEF MainStep
<1> QED BY <1>2, <1>3, <1>4, <1>5 DEF Next, Terminated

-----------------------------------------------------------------------------
(* Where the tasks are.                                                     *)

\* A task is stored behind those in the ring, in a slot of its own, and taken
\* from the front.
LEMMA QueueInOrderStep ==
  TypeOK /\ Accounted /\ MainInOrder /\ QueueInOrder /\ [Next]_vars => QueueInOrder'
<1> SUFFICES ASSUME TypeOK, Accounted, MainInOrder, QueueInOrder, [Next]_vars
             PROVE  QueueInOrder'
  OBVIOUS
<1> USE PoolParameters
<1>0. /\ queue_head \in 0 .. Capacity - 1 /\ queue_size \in 0 .. Capacity /\ next \in Nat
      /\ \A k \in 0 .. queue_size - 1 : queue[(queue_head + k) % Capacity] \in Nat
  <2>1. \A k \in 0 .. queue_size - 1 : (queue_head + k) % Capacity \in Slots
    BY RingIndices DEF TypeOK, Slots
  <2> QED BY <2>1 DEF TypeOK, Slots, AllTasks
<1>1. ASSUME NEW w \in Workers, TakeTask(w) PROVE QueueInOrder'
  <2>1. /\ queue' = queue /\ next' = next /\ queue_size' = queue_size - 1 /\ queue_size > 0
        /\ queue_head' = (queue_head + 1) % Capacity
    BY <1>1 DEF TakeTask, NextIndex, mainVars
  <2>2. ASSUME NEW k \in 0 .. queue_size - 2
        PROVE  queue[(((queue_head + 1) % Capacity) + k) % Capacity] + (queue_size - 1) = next + k
    <3>1. k + 1 \in 0 .. Capacity /\ k + 1 > 0 /\ (k + 1) - 1 = k
      BY <1>0
    <3>2. (((queue_head + 1) % Capacity) + ((k + 1) - 1)) % Capacity = (queue_head + (k + 1)) % Capacity
      BY <1>0, <3>1, RingIndices
    <3>3. (((queue_head + 1) % Capacity) + k) % Capacity = (queue_head + (k + 1)) % Capacity
      BY <3>1, <3>2
    <3>4. k + 1 \in 0 .. queue_size - 1
      BY <1>0
    <3>5. /\ queue[(queue_head + (k + 1)) % Capacity] + queue_size = next + (k + 1)
          /\ queue[(queue_head + (k + 1)) % Capacity] \in Nat
      BY <1>0, <3>4 DEF QueueInOrder
    <3> QED BY <1>0, <3>3, <3>5
  <2>3. queue_size - 1 <= next /\ (queue_size - 1) - 1 = queue_size - 2
    BY <1>0 DEF QueueInOrder
  <2>4. queue_size' - 1 = queue_size - 2
    BY <2>1, <2>3
  <2>5. \A k \in 0 .. queue_size' - 1 :
          queue'[(queue_head' + k) % Capacity] + queue_size' = next' + k
    BY <2>1, <2>2, <2>4
  <2> QED BY <2>1, <2>3, <2>5 DEF QueueInOrder
<1>2. ASSUME Enqueue PROVE QueueInOrder'
  <2>1. /\ queue_head' = queue_head /\ queue_size' = queue_size + 1 /\ queue_size < Capacity
        /\ next' = next + 1 /\ queue' = [queue EXCEPT ![queue_tail] = next]
        /\ queue_tail = (queue_head + queue_size) % Capacity /\ queue_tail \in Slots
    BY <1>0, <1>2 DEF Enqueue, IsFull, Accounted, TypeOK
  <2>2. ASSUME NEW k \in 0 .. queue_size
        PROVE  queue'[(queue_head + k) % Capacity] + (queue_size + 1) = (next + 1) + k
    <3>1. CASE k = queue_size
      <4>1. queue'[(queue_head + k) % Capacity] = next
        BY <2>1, <3>1 DEF TypeOK
      <4> QED BY <1>0, <3>1, <4>1
    <3>2. CASE k # queue_size
      <4>1. k \in 0 .. queue_size - 1 /\ k \in 0 .. Capacity - 1 /\ queue_size \in 0 .. Capacity - 1
        BY <1>0, <2>1, <3>2
      <4>2. (queue_head + k) % Capacity # queue_tail
        BY <1>0, <2>1, <3>2, <4>1, RingDistinct
      <4>3. (queue_head + k) % Capacity \in Slots
        BY <1>0, <4>1, RingIndices DEF Slots
      <4>4. queue'[(queue_head + k) % Capacity] = queue[(queue_head + k) % Capacity]
        BY <2>1, <4>2, <4>3 DEF TypeOK
      <4>5. /\ queue[(queue_head + k) % Capacity] + queue_size = next + k
            /\ queue[(queue_head + k) % Capacity] \in Nat
        BY <1>0, <4>1 DEF QueueInOrder
      <4> QED BY <1>0, <4>4, <4>5
    <3> QED BY <3>1, <3>2
  <2>3. queue_size + 1 <= next + 1
    BY <1>0 DEF QueueInOrder
  <2>4. (queue_size + 1) - 1 = queue_size
    BY <1>0
  <2> QED BY <2>1, <2>2, <2>3, <2>4 DEF QueueInOrder
<1>3. ASSUME BeginRound PROVE QueueInOrder'
  <2>1. queue_size = 0 /\ queue_size' = 0 /\ next' = 0
    BY <1>3, NothingOutstandingMeans DEF BeginRound, MainInOrder, RoundPcs, poolVars,
       NotFull, AllDone
  <2> QED BY <2>1 DEF QueueInOrder
<1>4. ASSUME UNCHANGED <<queue, queue_head, queue_size, next>> PROVE QueueInOrder'
  BY <1>4 DEF QueueInOrder
<1>5. ASSUME NEW w \in Workers, WorkerStep(w), ~TakeTask(w) PROVE QueueInOrder'
  BY <1>4, <1>5 DEF WorkerStep, TakeLock, TakeRelock, TakeWait, WorkerExit, RunTask,
                    FinishLock, FinishTask, Lock, Wait, poolVars, mainVars
<1>6. ASSUME MainStep, ~Enqueue, ~BeginRound PROVE QueueInOrder'
  BY <1>4, <1>6 DEF MainStep, SubmitLock, SubmitRelock, SubmitWait, AwaitLock, AwaitRelock,
                    AwaitWait, AwaitDone, ReadResults, StopLock, Stop, Destroy, Lock, Wait,
                    poolVars, mainVars
<1>7. ASSUME (\E t \in Threads : SpuriousWakeup(t)) \/ UNCHANGED vars PROVE QueueInOrder'
  BY <1>4, <1>7 DEF SpuriousWakeup, vars, poolVars, mainVars
<1> QED BY <1>1, <1>2, <1>3, <1>5, <1>6, <1>7 DEF Next, Terminated

\* The workers that run a task after a move.
LEMMA RunningMoves ==
  ASSUME NEW t \in Threads, NEW from, NEW to, Moves(t, from, to)
  PROVE  \A w \in Workers : pc'[w] = "run" <=> IF w = t THEN to = "run" ELSE pc[w] = "run"
BY WokenElsewhere, PoolParameters DEF Moves, Placed

\* Taking a task makes it the one its worker runs, running it stores its
\* result, and a round begins with no task in the queue or with a worker.
LEMMA RunsOnceStep ==
  TypeOK /\ Accounted /\ MainInOrder /\ QueueInOrder /\ RunsOnce /\ [Next]_vars => RunsOnce'
<1> SUFFICES ASSUME TypeOK, Accounted, MainInOrder, QueueInOrder, RunsOnce, [Next]_vars
             PROVE  RunsOnce'
  OBVIOUS
<1> USE PoolParameters
<1>0. /\ queue_size \in Nat /\ next \in Nat /\ AllTasks \subseteq Nat
      /\ \A w \in Workers : task[w] \in AllTasks
  BY DEF TypeOK, AllTasks
<1>1. ASSUME UNCHANGED <<queue_size, next, task, results>>,
             \A w \in Workers : pc'[w] = "run" <=> pc[w] = "run"
      PROVE  RunsOnce'
  BY <1>1 DEF RunsOnce
<1>2. ASSUME NEW w \in Workers, TakeTask(w) PROVE RunsOnce'
  <2>0. w \in Threads
    OBVIOUS
  <2>1. /\ queue_size' = queue_size - 1 /\ queue_size > 0 /\ next' = next /\ results' = results
        /\ task' = [task EXCEPT ![w] = queue[queue_head]]
        /\ pc[w] # "run" /\ Moves(w, "take", "run")
    BY <1>2, WorkerMoves DEF TakeTask, mainVars
  <2>2. \A v \in Workers : pc'[v] = "run" <=> v = w \/ pc[v] = "run"
    BY <2>0, <2>1, RunningMoves
  <2>3. queue[queue_head] + queue_size = next /\ queue[queue_head] \in AllTasks
    <3>1. 0 \in 0 .. queue_size - 1
      BY <1>0, <2>1
    <3>2. queue_head \in Nat /\ queue_head < Capacity /\ queue_head \in Slots
      BY DEF TypeOK, Slots
    <3>3. (queue_head + 0) % Capacity = queue_head
      BY <3>2, ModSmall
    <3>4. queue[(queue_head + 0) % Capacity] + queue_size = next + 0
      BY <3>1 DEF QueueInOrder
    <3> QED BY <1>0, <3>2, <3>3, <3>4 DEF TypeOK
  <2> DEFINE i0 == queue[queue_head]
  <2>4. /\ task'[w] = i0 /\ results[i0] = 0
        /\ \A v \in Workers : v # w => task'[v] = task[v]
    BY <2>1, <2>3 DEF TypeOK, RunsOnce
  <2>5. /\ i0 + queue_size = next /\ i0 \in AllTasks
        /\ \A i \in AllTasks : i + queue_size' < next' <=> i + queue_size < next \/ i = i0
        /\ \A i \in AllTasks : i + queue_size' >= next' <=> i + queue_size >= next /\ i # i0
    BY <1>0, <2>1, <2>3
  <2> HIDE DEF i0
  <2>6. ASSUME NEW i \in AllTasks
        PROVE  /\ results'[i] \in {0, 1}
               /\ i + queue_size' >= next' => results'[i] = 0
               /\ i + queue_size' < next' =>
                    results'[i] = 1 \/ \E v \in Workers : pc'[v] = "run" /\ task'[v] = i
    <3>1. CASE i = i0
      BY <1>0, <2>1, <2>2, <2>4, <2>5, <3>1
    <3>2. CASE i # i0
      <4>1. /\ results[i] \in {0, 1}
            /\ i + queue_size >= next => results[i] = 0
            /\ i + queue_size < next =>
                 results[i] = 1 \/ \E v \in Workers : pc[v] = "run" /\ task[v] = i
        BY DEF RunsOnce
      <4> QED BY <2>1, <2>2, <2>4, <2>5, <3>2, <4>1
    <3> QED BY <3>1, <3>2
  <2>7. ASSUME NEW v \in Workers, pc'[v] = "run"
        PROVE  task'[v] + queue_size' < next' /\ results'[task'[v]] = 0
    <3>1. CASE v = w
      BY <2>1, <2>4, <2>5, <3>1
    <3>2. CASE v # w
      <4>1. task[v] + queue_size < next /\ results[task[v]] = 0
        BY <2>2, <2>7, <3>2 DEF RunsOnce
      <4> QED BY <1>0, <2>1, <2>4, <2>5, <3>2, <4>1
    <3> QED BY <3>1, <3>2
  <2>8. ASSUME NEW u \in Workers, NEW v \in Workers, pc'[u] = "run", pc'[v] = "run",
               task'[u] = task'[v]
        PROVE  u = v
    <3>1. ASSUME NEW x \in Workers, x # w, pc[x] = "run" PROVE task[x] # i0
      <4>1. task[x] + queue_size < next
        BY <3>1 DEF RunsOnce
      <4> QED BY <1>0, <2>5, <4>1
    <3> QED BY <2>2, <2>4, <2>8, <3>1 DEF RunsOnce
  <2> QED BY <2>6, <2>7, <2>8 DEF RunsOnce
<1>3. ASSUME NEW w \in Workers, RunTask(w) PROVE RunsOnce'
  <2>0. w \in Threads
    OBVIOUS
  <2>1. /\ UNCHANGED <<queue_size, next, task>>
        /\ results' = [results EXCEPT ![task[w]] = @ + 1]
        /\ pc[w] = "run" /\ Moves(w, "run", "ran")
    BY <1>3, WorkerMoves DEF RunTask, mainVars, poolVars
  <2>2. \A v \in Workers : pc'[v] = "run" <=> v # w /\ pc[v] = "run"
    BY <2>0, <2>1, RunningMoves
  <2>3. /\ task[w] + queue_size < next /\ results[task[w]] = 0
        /\ \A v \in Workers : v # w /\ pc[v] = "run" => task[v] # task[w]
    BY <2>1 DEF RunsOnce
  <2>4. \A i \in AllTasks : results'[i] = IF i = task[w] THEN 1 ELSE results[i]
    BY <1>0, <2>1, <2>3 DEF TypeOK
  <2>5. ASSUME NEW i \in AllTasks
        PROVE  /\ results'[i] \in {0, 1}
               /\ i + queue_size' >= next' => results'[i] = 0
               /\ i + queue_size' < next' =>
                    results'[i] = 1 \/ \E v \in Workers : pc'[v] = "run" /\ task'[v] = i
    <3>1. CASE i = task[w]
      BY <1>0, <2>1, <2>3, <2>4, <3>1
    <3>2. CASE i # task[w]
      BY <2>1, <2>2, <2>4, <3>2 DEF RunsOnce
    <3> QED BY <3>1, <3>2
  <2>6. ASSUME NEW v \in Workers, pc'[v] = "run"
        PROVE  task'[v] + queue_size' < next' /\ results'[task'[v]] = 0
    BY <1>0, <2>1, <2>2, <2>3, <2>4, <2>6 DEF RunsOnce
  <2> QED BY <2>1, <2>2, <2>5, <2>6 DEF RunsOnce
<1>4. ASSUME BeginRound PROVE RunsOnce'
  <2>0. Main \in Threads
    OBVIOUS
  <2>1. /\ queue_size = 0 /\ queue_size' = 0 /\ next' = 0 /\ Busy = {}
        /\ results' = [i \in AllTasks |-> 0] /\ Moves(Main, "between", "submit")
    BY <1>4, NothingOutstandingMeans, MainMoves
       DEF BeginRound, MainInOrder, RoundPcs, poolVars, NotFull, AllDone
  <2>2. \A v \in Workers : pc'[v] # "run"
    BY <2>0, <2>1, RunningMoves DEF Busy
  <2>3. \A i \in AllTasks : results'[i] = 0 /\ ~(i + queue_size' < next')
    BY <1>0, <2>1
  <2> QED BY <2>2, <2>3 DEF RunsOnce
<1>5. ASSUME Enqueue PROVE RunsOnce'
  <2>0. Main \in Threads
    OBVIOUS
  <2>1. /\ queue_size' = queue_size + 1 /\ next' = next + 1 /\ UNCHANGED <<task, results>>
        /\ Moves(Main, "enqueue", "submit")
    BY <1>5, MainMoves DEF Enqueue
  <2>2. \A v \in Workers : pc'[v] = "run" <=> pc[v] = "run"
    BY <2>0, <2>1, RunningMoves
  <2>3. \A i \in AllTasks : /\ i + queue_size' < next' <=> i + queue_size < next
                            /\ i + queue_size' >= next' <=> i + queue_size >= next
    <3> SUFFICES ASSUME NEW i \in AllTasks
                 PROVE  /\ i + queue_size' < next' <=> i + queue_size < next
                        /\ i + queue_size' >= next' <=> i + queue_size >= next
      OBVIOUS
    <3>1. /\ queue_size' = queue_size + 1 /\ next' = next + 1
          /\ i \in Nat /\ queue_size \in Nat /\ next \in Nat
      BY <1>0, <2>1
    <3>2. /\ i + (queue_size + 1) < next + 1 <=> i + queue_size < next
          /\ i + (queue_size + 1) >= next + 1 <=> i + queue_size >= next
      BY <3>1
    <3> QED BY <3>1, <3>2
  <2>4. ASSUME NEW i \in AllTasks
        PROVE  /\ results'[i] \in {0, 1}
               /\ i + queue_size' >= next' => results'[i] = 0
               /\ i + queue_size' < next' =>
                    results'[i] = 1 \/ \E v \in Workers : pc'[v] = "run" /\ task'[v] = i
    <3>1. /\ results[i] \in {0, 1}
          /\ i + queue_size >= next => results[i] = 0
          /\ i + queue_size < next =>
               results[i] = 1 \/ \E v \in Workers : pc[v] = "run" /\ task[v] = i
      BY DEF RunsOnce
    <3>2. results' = results /\ task' = task
      BY <2>1
    <3> QED BY <2>2, <2>3, <3>1, <3>2
  <2>5. ASSUME NEW v \in Workers, pc'[v] = "run"
        PROVE  task'[v] + queue_size' < next' /\ results'[task'[v]] = 0
    <3>1. task[v] + queue_size < next /\ results[task[v]] = 0 /\ task[v] \in AllTasks
      BY <1>0, <2>2, <2>5 DEF RunsOnce
    <3> QED BY <2>1, <2>3, <3>1
  <2> QED BY <2>1, <2>2, <2>4, <2>5 DEF RunsOnce
<1>6. ASSUME NEW w \in Workers, WorkerStep(w), ~TakeTask(w), ~RunTask(w) PROVE RunsOnce'
  <2>0. w \in Threads
    OBVIOUS
  <2>1. UNCHANGED <<queue_size, next, task, results>>
    BY <1>6 DEF WorkerStep, TakeLock, TakeRelock, TakeWait, WorkerExit, FinishLock,
                FinishTask, Lock, Wait, poolVars, mainVars
  <2>2. \E from, to : Moves(w, from, to) /\ from # "run" /\ to # "run"
    BY <1>6, WorkerMoves DEF WorkerStep, NotEmpty
  <2>3. \A v \in Workers : pc'[v] = "run" <=> pc[v] = "run"
    BY <2>0, <2>2, RunningMoves DEF Moves
  <2> QED BY <1>1, <2>1, <2>3
<1>7. ASSUME MainStep, ~BeginRound, ~Enqueue PROVE RunsOnce'
  <2>0. Main \in Threads
    OBVIOUS
  <2>1. UNCHANGED <<queue_size, next, task, results>>
    BY <1>7 DEF MainStep, SubmitLock, SubmitRelock, SubmitWait, AwaitLock, AwaitRelock,
                AwaitWait, AwaitDone, ReadResults, StopLock, Stop, Destroy, Lock, Wait,
                poolVars, mainVars
  <2>2. \E from, to : Moves(Main, from, to)
    BY <1>7, MainMoves DEF MainStep
  <2>3. \A v \in Workers : pc'[v] = "run" <=> pc[v] = "run"
    BY <2>0, <2>2, RunningMoves
  <2> QED BY <1>1, <2>1, <2>3
<1>8. ASSUME NEW t \in Threads, SpuriousWakeup(t) PROVE RunsOnce'
  <2>1. \A v \in Workers : pc'[v] = "run" <=> pc[v] = "run"
    BY <1>8, SpuriousMoves, WokenElsewhere DEF Placed
  <2> QED BY <1>1, <1>8, <2>1 DEF SpuriousWakeup, poolVars, mainVars
<1>9. ASSUME UNCHANGED vars PROVE RunsOnce'
  BY <1>1, <1>9 DEF vars, poolVars, mainVars
<1> QED BY <1>2, <1>3, <1>4, <1>5, <1>6, <1>7, <1>8, <1>9 DEF Next, Terminated

-----------------------------------------------------------------------------
(* Nobody sleeps through what it waits for.                                 *)

TakerSide ==
  (\E w \in Workers : pc[w] = NotEmpty) => queue_size <= Cardinality(TakersComing) /\ ~stop
MainSide ==
  /\ pc[Main] = NotFull => queue_size = Capacity
  /\ pc[Main] = AllDone => outstanding > 0

\* The takers that are coming can be counted, one by one.
LEMMA TakersFinite ==
  /\ IsFiniteSet(TakersComing) /\ Cardinality(TakersComing) \in Nat
  /\ \A w : w \notin TakersComing => Cardinality(TakersComing \cup {w}) = Cardinality(TakersComing) + 1
  /\ \A w \in TakersComing : Cardinality(TakersComing \ {w}) = Cardinality(TakersComing) - 1
<1>1. IsFiniteSet(TakersComing)
  BY PoolParameters, FS_Subset DEF TakersComing
<1> QED BY <1>1, FS_CardinalityType, FS_AddElement, FS_RemoveElement

\* A step that puts no worker to sleep and takes none of those on their way
\* to the queue elsewhere.
LEMMA TakerSideKept ==
  ASSUME TypeOK, TakerSide, UNCHANGED <<queue_size, stop>>,
         \A w \in Workers : /\ pc'[w] = NotEmpty => pc[w] = NotEmpty
                            /\ pc[w] \in {"take", "take_relock"} =>
                                 pc'[w] \in {"take", "take_relock"}
  PROVE  TakerSide'
<1> USE PoolParameters
<1>1. TakersComing \subseteq TakersComing' /\ IsFiniteSet(TakersComing')
  BY FS_Subset DEF TakersComing
<1>2. /\ Cardinality(TakersComing) <= Cardinality(TakersComing')
      /\ Cardinality(TakersComing) \in Nat /\ Cardinality(TakersComing') \in Nat
  BY <1>1, FS_Subset, FS_CardinalityType
<1>3. queue_size \in Nat
  BY DEF TypeOK
<1> QED BY <1>2, <1>3 DEF TakerSide

\* Who is woken joins those on their way.
LEMMA WokenTakes ==
  ASSUME TypeOK, NEW t \in Threads, NEW from, NEW to, Moves(t, from, to), to # NotEmpty,
         t \in Workers => from \notin {"take", "take_relock"} \/ to \in {"take", "take_relock"}
  PROVE  \A w \in Workers : /\ pc'[w] = NotEmpty => pc[w] = NotEmpty
                            /\ pc[w] \in {"take", "take_relock"} =>
                                 pc'[w] \in {"take", "take_relock"}
<1> SUFFICES ASSUME NEW w \in Workers
             PROVE  /\ pc'[w] = NotEmpty => pc[w] = NotEmpty
                    /\ pc[w] \in {"take", "take_relock"} =>
                         pc'[w] \in {"take", "take_relock"}
  OBVIOUS
<1>1. CASE w = t
  BY <1>1 DEF Moves
<1>2. CASE w # t /\ pc'[w] = pc[w]
  BY <1>2
<1>3. CASE Woken(w)
  BY <1>3, RelockingPcs DEF Woken, CondVars, NotEmpty, NotFull, AllDone
<1> QED BY <1>1, <1>2, <1>3, PoolParameters DEF Moves

\* Submitting a task wakes a sleeping worker, and the stop wakes them all.
LEMMA TakerSideStep == TypeOK /\ TakerSide /\ [Next]_vars => TakerSide'
<1> SUFFICES ASSUME TypeOK, TakerSide, [Next]_vars PROVE TakerSide'
  OBVIOUS
<1> USE PoolParameters
<1>0. queue_size \in Nat /\ NotEmpty \in CondVars
  BY DEF TypeOK, CondVars
<1>1. ASSUME NEW w \in Workers, WorkerStep(w) PROVE TakerSide'
  <2>0. w \in Threads
    OBVIOUS
  <2>1. CASE TakeLock(w) \/ TakeRelock(w) \/ RunTask(w) \/ FinishLock(w) \/ FinishTask(w)
    <3>1. UNCHANGED <<queue_size, stop>>
      BY <2>1 DEF TakeLock, TakeRelock, RunTask, FinishLock, FinishTask, Lock, poolVars
    <3>2. \E from, to : /\ Moves(w, from, to) /\ to # NotEmpty
                        /\ from \notin {"take", "take_relock"} \/ to \in {"take", "take_relock"}
      BY <2>1, WorkerMoves DEF NotEmpty
    <3>3. \A v \in Workers : /\ pc'[v] = NotEmpty => pc[v] = NotEmpty
                             /\ pc[v] \in {"take", "take_relock"} =>
                                  pc'[v] \in {"take", "take_relock"}
      BY <2>0, <3>2, WokenTakes
    <3> QED BY <3>1, <3>3, TakerSideKept
  <2>2. CASE TakeWait(w)
    <3>1. queue_size' = 0 /\ ~stop'
      BY <2>2 DEF TakeWait, Wait, poolVars
    <3>2. Cardinality(TakersComing') \in Nat
      BY FS_Subset, FS_CardinalityType DEF TakersComing
    <3> QED BY <3>1, <3>2 DEF TakerSide
  <2>3. CASE WorkerExit(w)
    <3>1. \A v \in Workers : pc[v] # NotEmpty
      BY <2>3 DEF WorkerExit, TakerSide
    <3>2. \A v \in Workers : pc'[v] # NotEmpty
      BY <2>3, <3>1, WorkerMoves, RelockingPcs
         DEF Moves, Woken, CondVars, NotEmpty, NotFull, AllDone
    <3> QED BY <3>2 DEF TakerSide
  <2>4. CASE TakeTask(w)
    <3>1. PICK woken \in Signal(NotFull) : Move(w, "run", woken)
      BY <2>4 DEF TakeTask
    <3>2. NotFull \in CondVars /\ NotFull # NotEmpty
      BY DEF CondVars, NotFull, NotEmpty
    <3>3. \A v \in Workers : pc'[v] = IF v = w THEN "run" ELSE pc[v]
      BY <2>0, <3>1, <3>2, WokenWait, MovePc
    <3>4. /\ w \in TakersComing /\ TakersComing' = TakersComing \ {w}
          /\ \A v \in Workers : pc'[v] = NotEmpty => pc[v] = NotEmpty
      BY <2>4, <3>3 DEF TakeTask, TakersComing, NotEmpty
    <3>5. Cardinality(TakersComing') = Cardinality(TakersComing) - 1
      BY <3>4, TakersFinite
    <3>6. queue_size' = queue_size - 1 /\ stop' = stop
      BY <2>4 DEF TakeTask
    <3> QED BY <1>0, <3>4, <3>5, <3>6, TakersFinite DEF TakerSide
  <2> QED BY <1>1, <2>1, <2>2, <2>3, <2>4 DEF WorkerStep
<1>2. CASE Enqueue
  <2>1. PICK woken \in Signal(NotEmpty) : Move(Main, "submit", woken)
    BY <1>2 DEF Enqueue
  <2>2. \A v \in Workers : pc'[v] = IF v \in woken THEN "take_relock" ELSE pc[v]
    BY <1>0, <2>1, MovePc, RelockingPcs
  <2>3. queue_size' = queue_size + 1 /\ stop' = stop
    BY <1>2 DEF Enqueue
  <2>4. CASE Waiters(NotEmpty) = {}
    <3>1. \A v \in Workers : pc'[v] # NotEmpty
      BY <2>2, <2>4 DEF Waiters, NotEmpty
    <3> QED BY <3>1 DEF TakerSide
  <2>5. CASE Waiters(NotEmpty) # {}
    <3>1. PICK u \in Waiters(NotEmpty) : woken = {u}
      BY <2>1, <2>5 DEF Signal
    <3>2. u \in Workers /\ pc[u] = NotEmpty
      BY <1>0, <2>1, <3>1, WokenWait DEF Waiters
    <3>3. u \notin TakersComing /\ TakersComing' = TakersComing \cup {u}
      BY <2>2, <3>1, <3>2 DEF TakersComing, NotEmpty
    <3>4. Cardinality(TakersComing') = Cardinality(TakersComing) + 1
      BY <3>3, TakersFinite
    <3>5. queue_size <= Cardinality(TakersComing) /\ ~stop
      BY <3>2 DEF TakerSide
    <3> QED BY <1>0, <2>3, <3>4, <3>5, TakersFinite DEF TakerSide
  <2> QED BY <2>4, <2>5
<1>3. CASE Stop
  <2>1. PICK workers \in Broadcast(NotEmpty), submitters \in Broadcast(NotFull) :
          Move(Main, "join", workers \cup submitters)
    BY <1>3 DEF Stop
  <2>2. \A v \in Workers : pc[v] = NotEmpty => pc'[v] = "take_relock"
    BY <2>1, RelockingPcs DEF Move, Broadcast, Waiters
  <2>3. \A v \in Workers : pc[v] # NotEmpty => pc'[v] # NotEmpty
    BY <1>3, MainMoves, RelockingPcs DEF Moves, Woken, CondVars, NotEmpty, NotFull, AllDone
  <2>4. \A v \in Workers : pc'[v] # NotEmpty
    BY <2>2, <2>3 DEF NotEmpty
  <2> QED BY <2>4 DEF TakerSide
<1>4. ASSUME MainStep, ~Enqueue, ~Stop PROVE TakerSide'
  <2>0. Main \in Threads
    OBVIOUS
  <2>1. UNCHANGED <<queue_size, stop>>
    BY <1>4 DEF MainStep, BeginRound, SubmitLock, SubmitRelock, SubmitWait, AwaitLock,
                AwaitRelock, AwaitWait, AwaitDone, ReadResults, StopLock, Destroy, Lock,
                Wait, poolVars
  <2>2. \E from, to : Moves(Main, from, to) /\ to # NotEmpty
    BY <1>4, MainMoves DEF MainStep, NotEmpty, NotFull, AllDone
  <2>3. \A v \in Workers : /\ pc'[v] = NotEmpty => pc[v] = NotEmpty
                           /\ pc[v] \in {"take", "take_relock"} =>
                                pc'[v] \in {"take", "take_relock"}
    BY <2>0, <2>2, WokenTakes
  <2> QED BY <2>1, <2>3, TakerSideKept
<1>5. ASSUME NEW t \in Threads, SpuriousWakeup(t) PROVE TakerSide'
  <2>1. UNCHANGED <<queue_size, stop>>
    BY <1>5 DEF SpuriousWakeup, poolVars
  <2>2. \A v \in Workers : /\ pc'[v] = NotEmpty => pc[v] = NotEmpty
                           /\ pc[v] \in {"take", "take_relock"} =>
                                pc'[v] \in {"take", "take_relock"}
    BY <1>5, SpuriousMoves, RelockingPcs DEF Woken, CondVars, NotEmpty, NotFull, AllDone
  <2> QED BY <2>1, <2>2, TakerSideKept
<1>6. ASSUME UNCHANGED vars PROVE TakerSide'
  BY <1>6 DEF vars, poolVars, TakerSide, TakersComing
<1> QED BY <1>1, <1>2, <1>3, <1>4, <1>5, <1>6 DEF Next, Terminated

\* Taking a task from a full ring wakes the submitting main, and completing
\* the last task the waiting one.
LEMMA MainSideStep == TypeOK /\ Accounted /\ MainSide /\ [Next]_vars => MainSide'
<1> SUFFICES ASSUME TypeOK, Accounted, MainSide, [Next]_vars PROVE MainSide'
  OBVIOUS
<1> USE PoolParameters
<1>0. /\ outstanding \in Nat /\ NotFull \in CondVars /\ AllDone \in CondVars
      /\ NotFull # NotEmpty /\ AllDone # NotEmpty /\ NotFull # AllDone
  BY DEF TypeOK, CondVars, NotFull, NotEmpty, AllDone
<1>1. ASSUME pc'[Main] = pc[Main] \/ Woken(Main)
      PROVE  /\ pc'[Main] = NotFull => pc[Main] = NotFull
             /\ pc'[Main] = AllDone => pc[Main] = AllDone
  BY <1>1, RelockingPcs DEF Woken, CondVars, NotEmpty, NotFull, AllDone
<1>2. ASSUME NEW w \in Workers, TakeTask(w) PROVE MainSide'
  <2>1. PICK woken \in Signal(NotFull) : Move(w, "run", woken)
    BY <1>2 DEF TakeTask
  <2>2. pc'[Main] = IF pc[Main] = NotFull THEN "submit_relock" ELSE pc[Main]
    BY <1>0, <2>1, WokenWait, MovePc, RelockingPcs
  <2>3. pc'[Main] # NotFull /\ (pc'[Main] = AllDone => pc[Main] = AllDone)
    BY <2>2 DEF NotFull, AllDone
  <2> QED BY <1>2, <2>3 DEF TakeTask, MainSide
<1>3. ASSUME NEW w \in Workers, FinishTask(w) PROVE MainSide'
  <2>1. /\ outstanding' = outstanding - 1 /\ queue_size' = queue_size
        /\ pc'[Main] = pc[Main] \/ Woken(Main)
    BY <1>3, WorkerMoves DEF FinishTask, Moves
  <2>2. outstanding > 0
    <3>1. w \in Busy
      BY <1>3 DEF FinishTask, Busy
    <3> QED BY <1>0, <3>1, NothingOutstandingMeans
  <2>3. CASE LastTask
    <3>1. PICK woken \in Broadcast(AllDone) : Move(w, "idle", woken)
      BY <1>3, <2>3 DEF FinishTask
    <3>2. pc'[Main] = IF pc[Main] = AllDone THEN "await_relock" ELSE pc[Main]
      BY <1>0, <3>1, WokenWait, MovePc, RelockingPcs
    <3>3. pc'[Main] # AllDone
      BY <3>2 DEF AllDone
    <3> QED BY <1>1, <2>1, <3>3 DEF MainSide
  <2>4. CASE ~LastTask
    <3>1. outstanding - 1 > 0
      BY <1>0, <2>2, <2>4 DEF LastTask
    <3> QED BY <1>1, <2>1, <3>1 DEF MainSide
  <2> QED BY <2>3, <2>4
<1>4. ASSUME NEW w \in Workers, WorkerStep(w), ~TakeTask(w), ~FinishTask(w) PROVE MainSide'
  <2>1. UNCHANGED <<queue_size, outstanding>>
    BY <1>4 DEF WorkerStep, TakeLock, TakeRelock, TakeWait, WorkerExit, RunTask, FinishLock,
                Lock, Wait, poolVars
  <2>2. \E to : Moves(w, pc[w], to)
    BY <1>4, WorkerMoves DEF WorkerStep, Moves
  <2>3. pc'[Main] = pc[Main] \/ Woken(Main)
    BY <2>2 DEF Moves
  <2> QED BY <1>1, <2>1, <2>3 DEF MainSide
<1>5. ASSUME MainStep PROVE MainSide'
  <2>1. CASE SubmitWait
    BY <2>1, MainMoves DEF SubmitWait, IsFull, Wait, Moves, MainSide, poolVars, NotFull, AllDone
  <2>2. CASE AwaitWait
    BY <1>0, <2>2, MainMoves
       DEF AwaitWait, NothingOutstanding, Wait, Moves, MainSide, poolVars, NotFull, AllDone
  <2>3. CASE ~SubmitWait /\ ~AwaitWait
    <3>1. \E from, to : Moves(Main, from, to) /\ to # NotFull /\ to # AllDone
      BY <1>5, <2>3, MainMoves DEF MainStep, NotFull, AllDone
    <3> QED BY <3>1 DEF Moves, MainSide
  <2> QED BY <2>1, <2>2, <2>3
<1>6. ASSUME NEW t \in Threads, SpuriousWakeup(t) PROVE MainSide'
  BY <1>1, <1>6, SpuriousMoves DEF SpuriousWakeup, MainSide, poolVars
<1>7. ASSUME UNCHANGED vars PROVE MainSide'
  BY <1>7 DEF vars, poolVars, MainSide
<1> QED BY <1>2, <1>3, <1>4, <1>5, <1>6, <1>7 DEF Next, Terminated

\* No step loses a wake-up, of a worker or of main.
LEMMA NoLostWakeupStep == TypeOK /\ Accounted /\ NoLostWakeup /\ [Next]_vars => NoLostWakeup'
BY TakerSideStep, MainSideStep DEF NoLostWakeup, TakerSide, MainSide

-----------------------------------------------------------------------------
(* The theorems.                                                            *)

PoolInvariant ==
  /\ TypeOK /\ Accounted /\ MainInOrder /\ QueueInOrder /\ RunsOnce /\ NoLostWakeup

\* owned_thread_pool_init, before the first round.
LEMMA PoolInit == Init => PoolInvariant
<1> SUFFICES ASSUME Init PROVE PoolInvariant
  OBVIOUS
<1> USE PoolParameters DEF Init
<1>1. TypeOK
  <2>0. 0 \in Slots /\ 0 \in AllTasks /\ 0 \in 0 .. Capacity /\ 0 \in Nat
    BY DEF Slots, AllTasks
  <2>1. /\ mu \in Threads \cup {Nobody} /\ queue \in [Slots -> AllTasks]
        /\ queue_head \in Slots /\ queue_tail \in Slots /\ queue_size \in 0 .. Capacity
        /\ stop \in BOOLEAN /\ outstanding \in Nat
    BY <2>0
  <2>2. /\ pc \in [Threads -> WorkerPcs \cup MainPcs]
        /\ \A w \in Workers : pc[w] \in WorkerPcs
        /\ pc[Main] \in MainPcs
    BY DEF WorkerPcs, MainPcs
  <2>3. /\ task \in [Workers -> AllTasks] /\ next \in 0 .. Tasks /\ round \in 0 .. Rounds
        /\ results \in [AllTasks -> Nat] /\ checksum \subseteq AllTasks
    BY DEF AllTasks
  <2> QED BY <2>1, <2>2, <2>3 DEF TypeOK
<1>2. Accounted
  <2>1. Busy = {}
    BY DEF Busy
  <2>2. 0 % Capacity = 0
    BY ModSmall
  <2> QED BY <2>1, <2>2, FS_EmptySet DEF Accounted, Critical
<1>3. MainInOrder
  BY DEF MainInOrder, RoundPcs, ResultsRead, NotFull, AllDone
<1>4. QueueInOrder /\ RunsOnce
  BY DEF QueueInOrder, RunsOnce, AllTasks
<1>5. NoLostWakeup
  BY DEF NoLostWakeup, NotEmpty, NotFull, AllDone
<1> QED BY <1>1, <1>2, <1>3, <1>4, <1>5 DEF PoolInvariant

\* The parts of the invariant need each other and hold together.
THEOREM PoolHolds == Spec => []PoolInvariant
<1>1. PoolInvariant /\ [Next]_vars => PoolInvariant'
  BY TypeStep, AccountedStep, MainInOrderStep, QueueInOrderStep, RunsOnceStep,
     NoLostWakeupStep DEF PoolInvariant
<1> QED BY <1>1, PoolInit, PTL DEF Spec

\* Every variable keeps its type.
THEOREM PoolTypes == Spec => []TypeOK
<1>1. PoolInvariant => TypeOK
  BY DEF PoolInvariant
<1> QED BY <1>1, PoolHolds, PTL

\* A sleeping worker is not needed and a sleeping main still waits for
\* something: the signals and broadcasts of the pool are enough.
THEOREM PoolSignalsSuffice == Spec => []NoLostWakeup
<1>1. PoolInvariant => NoLostWakeup
  BY DEF PoolInvariant
<1> QED BY <1>1, PoolHolds, PTL

\* The one place of a task, counted.
LEMMA OncePlaced ==
  ASSUME PoolInvariant, NEW i \in AllTasks
  PROVE  Cardinality(Queued(i)) + Cardinality({w \in Workers : pc[w] = "run" /\ task[w] = i})
         + results[i] = IF i < next THEN 1 ELSE 0
<1> USE PoolParameters
<1> DEFINE Runners == {w \in Workers : pc[w] = "run" /\ task[w] = i}
<1>0. /\ queue_size \in Nat /\ next \in Nat /\ i \in Nat /\ queue_size <= next
      /\ \A k \in 0 .. queue_size - 1 : queue[(queue_head + k) % Capacity] \in Nat
  <2>1. \A k \in 0 .. queue_size - 1 : (queue_head + k) % Capacity \in Slots
    BY RingIndices DEF PoolInvariant, TypeOK, Slots
  <2> QED BY <2>1 DEF PoolInvariant, TypeOK, QueueInOrder, AllTasks
<1>1. \A k \in 0 .. queue_size - 1 : k \in Queued(i) <=> i + queue_size = next + k
  <2>1. \A k \in 0 .. queue_size - 1 :
          queue[(queue_head + k) % Capacity] + queue_size = next + k
    BY DEF PoolInvariant, QueueInOrder
  <2> QED BY <1>0, <2>1 DEF Queued
<1>2. Queued(i) \subseteq 0 .. queue_size - 1
  BY DEF Queued
<1>3. CASE i + queue_size < next
  <2>1. Queued(i) = {}
    BY <1>0, <1>1, <1>2, <1>3
  <2>2. results[i] = 1 \/ \E w \in Workers : w \in Runners
    BY <1>3 DEF PoolInvariant, RunsOnce
  <2>3. /\ \A w \in Runners : results[i] = 0
        /\ \A v, w \in Runners : v = w
    BY DEF PoolInvariant, RunsOnce
  <2>4. CASE results[i] = 1
    <3>1. Runners = {}
      BY <2>3, <2>4
    <3>2. Cardinality(Queued(i)) = 0 /\ Cardinality(Runners) = 0 /\ i < next
      BY <1>0, <1>3, <2>1, <3>1, FS_EmptySet
    <3> HIDE DEF Runners
    <3> QED BY <2>4, <3>2 DEF Runners
  <2>5. CASE results[i] # 1
    <3>1. PICK w \in Runners : TRUE
      BY <2>2, <2>5
    <3>2. Runners = {w} /\ results[i] = 0
      BY <2>3, <3>1
    <3> HIDE DEF Runners
    <3>3. Cardinality(Runners) = 1
      BY <3>2, FS_Singleton
    <3>4. Cardinality(Queued(i)) = 0 /\ i < next
      BY <1>0, <1>3, <2>1, FS_EmptySet
    <3> QED BY <3>2, <3>3, <3>4 DEF Runners
  <2> QED BY <2>4, <2>5
<1>4. CASE i + queue_size >= next
  <2>1. results[i] = 0
    BY <1>4 DEF PoolInvariant, RunsOnce
  <2>2. Runners = {}
    BY <1>0, <1>4 DEF PoolInvariant, RunsOnce
  <2>3. CASE i < next
    <3> DEFINE k == i + queue_size - next
    <3>1. k \in 0 .. queue_size - 1 /\ i + queue_size = next + k
      BY <1>0, <1>4, <2>3
    <3>2. Queued(i) = {k}
      BY <1>0, <1>1, <1>2, <3>1
    <3> HIDE DEF Runners, k
    <3>3. Cardinality(Queued(i)) = 1 /\ Cardinality(Runners) = 0
      BY <2>2, <3>2, FS_EmptySet, FS_Singleton
    <3> QED BY <2>1, <2>3, <3>3 DEF Runners
  <2>4. CASE ~(i < next)
    <3>1. Queued(i) = {}
      BY <1>0, <1>1, <1>2, <2>4
    <3> QED BY <2>1, <2>2, <2>4, <3>1, FS_EmptySet
  <2> QED BY <2>3, <2>4
<1> QED BY <1>0, <1>3, <1>4

\* Every task of a round is run once, and outstanding counts those that are
\* not completed.
THEOREM TasksRunOnce == Spec => []ExactlyOnce
<1>1. PoolInvariant => ExactlyOnce
  BY OncePlaced DEF ExactlyOnce, PoolInvariant
<1> QED BY <1>1, PoolHolds, PTL

\* Between the rounds, and after the last, main has the results, the task
\* arguments and at the end the pool to itself.
THEOREM QuietBetweenRounds == Spec => []QuietOutsideRounds
<1>1. PoolInvariant => QuietOutsideRounds
  <2> SUFFICES ASSUME PoolInvariant PROVE QuietOutsideRounds
    OBVIOUS
  <2> USE DEF PoolInvariant
  <2>1. pc[Main] \notin RoundPcs =>
          queue_size = 0 /\ Busy = {} /\ (round > 0 => \A i \in AllTasks : results[i] = 1)
    BY RoundComplete
  <2>2. ResultsRead => checksum = AllTasks
    BY DEF MainInOrder
  <2>3. ASSUME pc[Main] = "destroyed"
        PROVE  (\A w \in Workers : pc[w] = "exited") /\ MutexFree
    <3>1. \A w \in Workers : pc[w] = "exited"
      BY <2>3 DEF MainInOrder, WorkersJoined
    <3>2. \A t \in Threads : pc[t] \notin Critical
      BY <2>3, <3>1, PoolParameters DEF Critical
    <3>3. mu \notin Threads
      BY <3>2 DEF Accounted
    <3> QED BY <3>1, <3>3 DEF TypeOK, MutexFree
  <2> QED BY <2>1, <2>2, <2>3 DEF QuietOutsideRounds
<1> QED BY <1>1, PoolHolds, PTL

-----------------------------------------------------------------------------
(* The pool implements the rounds of TaskRounds.                            *)

Submitted == 0 .. next - 1
FinishedTasks == {i \in AllTasks : results[i] > 0}
roundVars == <<round, Submitted, FinishedTasks, ResultsRead>>

\* The tasks in flight are in the queue or with a worker.
LEMMA InFlightBound ==
  ASSUME PoolInvariant
  PROVE  /\ IsFiniteSet(Submitted \ FinishedTasks)
         /\ Cardinality(Submitted \ FinishedTasks) \in Nat
         /\ Cardinality(Submitted \ FinishedTasks) <= queue_size + Cardinality(Workers)
<1> USE PoolParameters DEF PoolInvariant
<1> DEFINE A == (next - queue_size) .. (next - 1)
           B == {task[w] : w \in Workers}
<1>0. /\ queue_size \in Nat /\ next \in Nat /\ queue_size <= next /\ next <= Tasks
  BY DEF TypeOK, QueueInOrder
<1>1. Submitted \ FinishedTasks \subseteq A \cup B
  <2> SUFFICES ASSUME NEW i \in Submitted, i \notin FinishedTasks PROVE i \in A \cup B
    OBVIOUS
  <2>1. i \in AllTasks /\ i \in Nat /\ i < next
    BY <1>0 DEF Submitted, AllTasks
  <2>2. results[i] = 0
    BY <2>1 DEF FinishedTasks, RunsOnce
  <2>3. CASE i + queue_size < next
    <3>1. \E w \in Workers : pc[w] = "run" /\ task[w] = i
      BY <2>1, <2>2, <2>3 DEF RunsOnce
    <3> QED BY <3>1
  <2>4. CASE i + queue_size >= next
    BY <1>0, <2>1, <2>4
  <2> QED BY <1>0, <2>1, <2>3, <2>4
<1>2. IsFiniteSet(A) /\ Cardinality(A) = queue_size
  <2>1. next - queue_size \in Int /\ next - 1 \in Int
    BY <1>0
  <2>2. IsFiniteSet(A) /\ Cardinality(A) = IF next - queue_size > next - 1 THEN 0
                                           ELSE (next - 1) - (next - queue_size) + 1
    BY <2>1, FS_Interval
  <2> QED BY <1>0, <2>2
<1>3. /\ IsFiniteSet(B) /\ Cardinality(B) \in Nat
      /\ Cardinality(B) <= Cardinality(Workers) /\ Cardinality(Workers) \in Nat
  <2> DEFINE f == [w \in Workers |-> task[w]]
  <2>1. f \in Surjection(Workers, B)
    BY DEF Surjection
  <2>2. IsFiniteSet(B) /\ Cardinality(B) <= Cardinality(Workers)
    <3> HIDE DEF f, B
    <3> QED BY <2>1, FS_Surjection DEF ExistsSurjection
  <2> HIDE DEF B
  <2> QED BY <2>2, FS_CardinalityType
<1> HIDE DEF A, B
<1>4. /\ IsFiniteSet(A \cup B)
      /\ Cardinality(A \cup B) = Cardinality(A) + Cardinality(B) - Cardinality(A \cap B)
  BY <1>2, <1>3, FS_Union
<1>5. IsFiniteSet(A \cap B) /\ Cardinality(A \cap B) \in Nat
  BY <1>2, FS_Intersection, FS_CardinalityType
<1>6. /\ IsFiniteSet(Submitted \ FinishedTasks)
      /\ Cardinality(Submitted \ FinishedTasks) \in Nat
      /\ Cardinality(Submitted \ FinishedTasks) <= Cardinality(A \cup B)
  BY <1>1, <1>4, FS_Subset, FS_CardinalityType
<1>7. Cardinality(A \cup B) \in Nat
  BY <1>4, FS_CardinalityType
<1> QED BY <1>0, <1>2, <1>3, <1>4, <1>5, <1>6, <1>7

\* The steps that neither begin a round, submit or run a task, nor read the
\* results.
LEMMA QuietRounds ==
  ASSUME UNCHANGED <<round, next, results>>, ResultsRead' = ResultsRead
  PROVE  UNCHANGED roundVars
BY DEF roundVars, Submitted, FinishedTasks

\* The abstract module counts with the operator this one counts with.
LEMMA SameCardinality == \A S : Abstract!Cardinality(S) = Cardinality(S)
BY DEF Abstract!Cardinality, Cardinality

\* A step of the pool is a step of the rounds, or leaves them alone.
LEMMA PoolStepRefines ==
  PoolInvariant /\ [Next]_vars => [Abstract!Next]_roundVars
<1> SUFFICES ASSUME PoolInvariant, [Next]_vars PROVE Abstract!Next \/ UNCHANGED roundVars
  OBVIOUS
<1> USE PoolParameters
<1>0. TypeOK
  BY DEF PoolInvariant
<1>1. ASSUME BeginRound PROVE Abstract!Begin
  <2>1. /\ round < Rounds /\ round' = round + 1 /\ next' = 0
        /\ results' = [i \in AllTasks |-> 0] /\ Moves(Main, "between", "submit")
    BY <1>0, <1>1, MainMoves DEF BeginRound
  <2>2. round = 0 \/ FinishedTasks = AllTasks
    <3>1. pc[Main] \notin RoundPcs
      BY <2>1 DEF Moves, RoundPcs, NotFull, AllDone
    <3>2. round > 0 => \A i \in AllTasks : results[i] = 1
      BY <3>1, RoundComplete DEF PoolInvariant
    <3>3. round \in Nat
      BY <1>0 DEF TypeOK
    <3> QED BY <3>2, <3>3 DEF FinishedTasks
  <2>3. Submitted' = {} /\ FinishedTasks' = {}
    BY <2>1 DEF Submitted, FinishedTasks
  <2>4. ResultsRead' = ResultsRead
    BY <2>1 DEF ResultsRead, Moves
  <2> QED BY <2>1, <2>2, <2>3, <2>4
          DEF Abstract!Begin, Abstract!AllTasks, Submitted, FinishedTasks, AllTasks
<1>2. ASSUME Enqueue PROVE Abstract!Submit
  <2>1. /\ UNCHANGED <<round, results>> /\ next' = next + 1 /\ queue_size < Capacity
        /\ Moves(Main, "enqueue", "submit")
    BY <1>0, <1>2, MainMoves DEF Enqueue, IsFull, TypeOK
  <2>2. next < Tasks /\ next \in Nat /\ round > 0 /\ queue_size \in Nat
    BY <1>0, <2>1 DEF PoolInvariant, MainInOrder, Moves, RoundPcs, TypeOK
  <2>3. next \in AllTasks /\ next \notin Submitted
    BY <2>2 DEF AllTasks, Submitted
  <2>4. Cardinality(Submitted \ FinishedTasks) < Capacity + Cardinality(Workers)
    <3>1. Cardinality(Workers) \in Nat
      BY FS_CardinalityType
    <3> QED BY <2>1, <2>2, <3>1, InFlightBound
  <2>5. Submitted' = Submitted \cup {Cardinality(Submitted)}
    <3>1. Cardinality(Submitted) = next
      BY <2>2, FS_Interval DEF Submitted
    <3>2. 0 .. (next + 1) - 1 = (0 .. next - 1) \cup {next}
      BY <2>2
    <3> QED BY <2>1, <3>1, <3>2 DEF Submitted
  <2>6. FinishedTasks' = FinishedTasks /\ ResultsRead' = ResultsRead
    BY <2>1 DEF FinishedTasks, ResultsRead, Moves
  <2>7. /\ Abstract!Cardinality(Submitted \ FinishedTasks) < Capacity + Cardinality(Workers)
        /\ Submitted' = Submitted \cup {Abstract!Cardinality(Submitted)}
        /\ Submitted # AllTasks
    BY <2>3, <2>4, <2>5, SameCardinality
  <2> QED BY <2>1, <2>2, <2>6, <2>7
          DEF Abstract!Submit, Abstract!AllTasks, Submitted, FinishedTasks, AllTasks
<1>3. ASSUME NEW w \in Workers, RunTask(w) PROVE Abstract!Next
  <2>1. /\ UNCHANGED <<round, next>> /\ results' = [results EXCEPT ![task[w]] = @ + 1]
        /\ pc[w] = "run" /\ Moves(w, "run", "ran") /\ task[w] \in AllTasks
    BY <1>0, <1>3, WorkerMoves DEF RunTask, mainVars, TypeOK
  <2>2. results[task[w]] = 0 /\ task[w] + queue_size < next
    BY <2>1 DEF PoolInvariant, RunsOnce
  <2>3. \A i \in AllTasks : results'[i] = IF i = task[w] THEN 1 ELSE results[i]
    BY <1>0, <2>1, <2>2 DEF TypeOK
  <2>4. task[w] \in Submitted \ FinishedTasks
    <3>1. task[w] \in Nat /\ queue_size \in Nat /\ next \in Nat
      BY <1>0, <2>1 DEF TypeOK, AllTasks
    <3>2. task[w] \in 0 .. next - 1
      BY <2>2, <3>1
    <3> QED BY <2>2, <3>2 DEF Submitted, FinishedTasks
  <2>5. FinishedTasks' = FinishedTasks \cup {task[w]}
    BY <2>1, <2>3 DEF FinishedTasks
  <2>6. Submitted' = Submitted
    BY <2>1 DEF Submitted
  <2>7. ResultsRead' = ResultsRead
    <3>1. pc'[Main] = pc[Main] \/ Woken(Main)
      BY <2>1 DEF Moves
    <3> QED BY <1>0, <3>1, MainStays DEF ResultsRead
  <2>8. PICK i \in AllTasks : i = task[w]
    BY <2>1
  <2>9. Abstract!Finish(i)
    BY <2>1, <2>4, <2>5, <2>6, <2>7, <2>8 DEF Abstract!Finish, Submitted, FinishedTasks
  <2> QED BY <2>9 DEF Abstract!Next, Abstract!AllTasks, AllTasks
<1>4. ASSUME ReadResults PROVE Abstract!End
  <2>1. /\ round = Rounds /\ UNCHANGED <<round, next, results>> /\ Moves(Main, "between", "freed")
    BY <1>0, <1>4, MainMoves DEF ReadResults
  <2>2. FinishedTasks = AllTasks
    <3>1. pc[Main] \notin RoundPcs /\ round > 0
      BY <2>1 DEF Moves, RoundPcs, NotFull, AllDone
    <3>2. \A i \in AllTasks : results[i] = 1
      BY <3>1, RoundComplete DEF PoolInvariant
    <3> QED BY <3>2 DEF FinishedTasks
  <2>3. ~ResultsRead /\ ResultsRead'
    BY <2>1 DEF ResultsRead, Moves
  <2>4. Submitted' = Submitted /\ FinishedTasks' = FinishedTasks
    BY <2>1 DEF Submitted, FinishedTasks
  <2> QED BY <2>1, <2>2, <2>3, <2>4
          DEF Abstract!End, Abstract!AllTasks, Submitted, FinishedTasks, AllTasks
<1>5. ASSUME NEW w \in Workers, WorkerStep(w), ~RunTask(w) PROVE UNCHANGED roundVars
  <2>1. UNCHANGED <<round, next, results>>
    BY <1>5 DEF WorkerStep, TakeLock, TakeRelock, TakeWait, WorkerExit, TakeTask, FinishLock,
                FinishTask, Lock, Wait, mainVars
  <2>2. \E to : Moves(w, pc[w], to)
    BY <1>0, <1>5, WorkerMoves DEF WorkerStep, Moves
  <2>3. ResultsRead' = ResultsRead
    <3>1. pc'[Main] = pc[Main] \/ Woken(Main)
      BY <2>2 DEF Moves
    <3> QED BY <1>0, <3>1, MainStays DEF ResultsRead
  <2> QED BY <2>1, <2>3, QuietRounds
<1>6. ASSUME MainStep, ~BeginRound, ~Enqueue, ~ReadResults PROVE UNCHANGED roundVars
  <2>1. UNCHANGED <<round, next, results>>
    BY <1>6 DEF MainStep, SubmitLock, SubmitRelock, SubmitWait, AwaitLock, AwaitRelock,
                AwaitWait, AwaitDone, StopLock, Stop, Destroy, Lock, Wait, mainVars
  <2>2. ResultsRead' = ResultsRead
    BY <1>0, <1>6, MainMoves DEF MainStep, Moves, ResultsRead, NotFull, AllDone
  <2> QED BY <2>1, <2>2, QuietRounds
<1>7. ASSUME NEW t \in Threads, SpuriousWakeup(t) PROVE UNCHANGED roundVars
  <2>1. ResultsRead' = ResultsRead
    BY <1>0, <1>7, SpuriousMoves, MainStays DEF ResultsRead
  <2> QED BY <1>7, <2>1, QuietRounds DEF SpuriousWakeup, mainVars
<1>8. ASSUME UNCHANGED vars PROVE UNCHANGED roundVars
  BY <1>8, QuietRounds DEF vars, mainVars, ResultsRead
<1> QED BY <1>1, <1>2, <1>3, <1>4, <1>5, <1>6, <1>7, <1>8
        DEF Next, Terminated, Abstract!Next, Abstract!AllTasks, AllTasks

\* Whatever the schedule and the wake-ups, main sees rounds of tasks that are
\* handed over in order and each run once, never more of them in flight than
\* the queue and the workers hold.
THEOREM PoolRunsRounds == Spec => Abstract!Spec
<1>1. Init => Abstract!Init
  BY PoolParameters DEF Init, Abstract!Init, AllTasks, ResultsRead
<1>2. PoolInvariant /\ [Next]_vars => [Abstract!Next]_(Abstract!vars)
  BY PoolStepRefines DEF roundVars, Submitted, FinishedTasks, Abstract!vars
<1> QED BY <1>1, <1>2, PoolHolds, PTL DEF Spec, Abstract!Spec
=============================================================================
