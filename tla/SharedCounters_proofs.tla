------------------------ MODULE SharedCounters_proofs -------------------------
(***************************************************************************)
(* No increment of a counter is lost and the interval that is timed holds  *)
(* all of the measured work, for any number of workers and of iterations   *)
(* and any width of the counters.                                          *)
(*                                                                         *)
(* The three programs share one invariant: who may have started (InOrder,  *)
(* StartedTogether), where a worker is in its loop (Rounds), that a worker *)
(* between load and store has the lock or a counter of its own             *)
(* (Exclusive, Fresh), and that the sum of the counters is the number of   *)
(* increments made, modulo the width of a word (NothingLost).              *)
(*                                                                         *)
(* The other lab whose total is a sum is branchless-code, which has one    *)
(* thread: its two kernels and its count agree, for any array, weights and *)
(* threshold (KernelsAgree).                                               *)
(***************************************************************************)
EXTENDS SharedCounters, BranchlessCode, ProofLemmas, SequenceTheorems

Everyone == Workers \cup {Main}
MainPcs == {"create", "start_timer", "barrier", "join", "report", "returned", "failed"}
WorkerPcs == {"not_created", "barrier", "acquire", "load", "store", "release", "done"}
Started(t) == pc[t] \notin {"not_created", "barrier"}

-----------------------------------------------------------------------------
(* The inductive invariant.                                                 *)

\* The types of the data, and that every thread has a place, those at the
\* barrier in front of it.
Data ==
  /\ lab \in Labs
  /\ mode \in ModesOf(lab)
  /\ owner \in [Locks -> Workers \cup {Nobody}]
  /\ counter \in [Cells -> 0 .. Word - 1]
  /\ local \in [Workers -> 0 .. Word - 1]
  /\ done \in [Workers -> 0 .. Iters]
  /\ created \in 0 .. NumThreads
  /\ timer \in {"before", "running", "stopped"}
  /\ total \in 0 .. Word - 1
Places ==
  /\ pc \in [Everyone -> MainPcs \cup WorkerPcs]
  /\ pc[Main] \in MainPcs
  /\ \A t \in Workers : pc[t] \in WorkerPcs
  /\ arrived \subseteq Everyone
  /\ Running => \A t \in arrived : pc[t] = "barrier"
Types == Data /\ Places

\* main's program: it creates the workers one by one, starts the timer before
\* it lets any begin, and stops it when all are done.
InOrder ==
  /\ \A t \in Workers : pc[t] = "not_created" <=> t > created
  /\ created < NumThreads =>
        pc[Main] \in {"create", "failed"} \/ (~HasBarrier /\ pc[Main] = "start_timer")
  /\ ~HasBarrier => \A t \in Everyone : pc[t] # "barrier"
  /\ ~HasBarrier /\ pc[Main] = "start_timer" => created = 0
  /\ Running /\ timer = "before" => pc[Main] = "start_timer" \/ (HasBarrier /\ pc[Main] = "create")
  /\ pc[Main] \in {"report", "returned"} => timer = "stopped"
  /\ timer = "stopped" => \A t \in Workers : pc[t] = "done"

\* Where there is a barrier, nobody has passed it or everybody has.
StartedTogether ==
  \A t \in Workers : Started(t) =>
    /\ timer # "before"
    /\ HasBarrier => /\ created = NumThreads
                     /\ pc[Main] \in {"join", "report", "returned", "failed"}
                     /\ \A u \in Workers : pc[u] # "barrier"

\* Where a worker is tells how many rounds it has left.
Rounds ==
  \A t \in Workers :
    /\ ~Started(t) => done[t] = 0
    /\ pc[t] \in {"acquire", "load", "store"} => done[t] < Iters
    /\ pc[t] = "done" => done[t] = Iters
    /\ mode = "none" => pc[t] \notin {"acquire", "release"}

\* The lock of the mode belongs to the one worker that is between acquire and
\* release; the other lock is free.
Holds == {"load", "store", "release"}
Exclusive ==
  /\ \A k \in Locks : owner[k] # Nobody => k = mode /\ pc[owner[k]] \in Holds
  /\ mode \in Locks => \A t \in Workers : pc[t] \in Holds => owner[mode] = t

\* A value that was loaded is still that of the counter when it is stored.
Fresh == \A t \in Workers : pc[t] = "store" => local[t] = counter[Cell(t)]

\* The counters hold every increment made.
NothingLost == (SumFunction(counter) - SumFunction(done)) % Word = 0

\* What main leaves behind.
LeftClean ==
  pc[Main] = "returned" =>
    /\ total = (NumThreads * Iters) % Word
    /\ \A k \in Locks : LockFree(k)
    /\ arrived = {}

CountersInvariant ==
  /\ Types /\ InOrder /\ StartedTogether /\ Rounds /\ Exclusive /\ Fresh /\ NothingLost /\ LeftClean

-----------------------------------------------------------------------------
(* Constants and helpers.                                                   *)

\* The workers are counted, and main is none of them.
LEMMA Constants ==
  /\ NumThreads \in Nat \ {0} /\ Iters \in Nat /\ Word \in Nat \ {0}
  /\ Main \notin Workers /\ Nobody \notin Workers
  /\ IsFiniteSet(Workers) /\ Cardinality(Workers) = NumThreads
  /\ IsFiniteSet(Cells) /\ Workers \subseteq Cells /\ Shared \in Cells /\ Shared \notin Workers
  /\ IsFiniteSet(Everyone) /\ Cardinality(Everyone) = Parties
<1>1. NumThreads \in Nat \ {0} /\ Iters \in Nat /\ Word \in Nat \ {0}
  BY CountersAssumption
<1>2. Main \notin Workers /\ Nobody \notin Workers
  BY DEF Main, Nobody, Workers
<1>3. IsFiniteSet(Workers) /\ Cardinality(Workers) = NumThreads
  BY <1>1, FS_Interval DEF Workers
<1>4. IsFiniteSet(Cells) /\ Workers \subseteq Cells /\ Shared \in Cells /\ Shared \notin Workers
  BY <1>1, FS_Interval DEF Workers, Cells, Shared
<1>5. IsFiniteSet(Everyone) /\ Cardinality(Everyone) = Cardinality(Workers) + 1
  BY <1>2, <1>3, FS_AddElement DEF Everyone
<1> QED BY <1>1, <1>2, <1>3, <1>4, <1>5 DEF Parties

\* A thread that goes on is the only one that does.
LEMMA GotoPc ==
  ASSUME Types, NEW t \in Everyone, NEW to, Goto(t, to)
  PROVE  \A u \in Everyone : pc'[u] = IF u = t THEN to ELSE pc[u]
BY DEF Types, Places, Goto

\* Where LoopHead leads.
LEMMA LoopHeadMeans ==
  ASSUME NEW n
  PROVE  \/ n = Iters /\ LoopHead(n) = "done"
         \/ n # Iters /\ mode = "none" /\ LoopHead(n) = "load"
         \/ n # Iters /\ mode # "none" /\ LoopHead(n) = "acquire"
BY DEF LoopHead

\* The lock mode goes with the program.
LEMMA ModesOfTheLabs ==
  ASSUME Data
  PROVE  /\ mode = "none" <=> lab = "false_sharing"
         /\ mode \in Locks <=> mode # "none"
         /\ HasBarrier => mode \in Locks
         /\ HasBarrier <=> lab = "mutex_vs_spinlock"
BY DEF Data, ModesOf, Labs, Locks, HasBarrier

\* The counters and the increments made can be added up.
LEMMA Sums ==
  ASSUME Data
  PROVE  /\ SumFunction(counter) = SumFunctionOnSet(counter, Cells)
         /\ SumFunction(done) = SumFunctionOnSet(done, Workers)
         /\ SumFunction(counter) \in Nat /\ SumFunction(done) \in Nat
<1>1. DOMAIN counter = Cells /\ DOMAIN done = Workers
  BY DEF Data
<1>2. (\A c \in Cells : counter[c] \in Nat) /\ (\A t \in Workers : done[t] \in Nat)
  BY Constants DEF Data
<1>3. SumFunctionOnSet(counter, Cells) \in Nat /\ SumFunctionOnSet(done, Workers) \in Nat
  BY <1>2, Constants, SumType
<1> QED BY <1>1, <1>3 DEF SumFunction

\* The last thread to arrive at the barrier finds everybody there, and lets
\* everybody go on; the others wait.
LEMMA BarrierWaits ==
  ASSUME Types, Running, NEW t \in Everyone, BarrierWait(t)
  PROVE  \/ /\ arrived' = arrived \cup {t} /\ pc' = pc /\ pc[t] = "barrier"
         \/ /\ arrived' = {}
            /\ \A u \in Everyone : pc[u] = "barrier"
            /\ \A u \in Workers : pc'[u] = LoopHead(0)
            /\ pc'[Main] = "join"
            /\ pc' \in [Everyone -> {"join", LoopHead(0)}]
<1>1. /\ pc[t] = "barrier" /\ t \notin arrived /\ arrived \subseteq Everyone
      /\ \A u \in arrived : pc[u] = "barrier"
  BY DEF Types, Places, BarrierWait
<1>2. CASE Cardinality(arrived) + 1 # Parties
  BY <1>1, <1>2 DEF BarrierWait
<1>3. CASE Cardinality(arrived) + 1 = Parties
  <2>1. IsFiniteSet(arrived)
    BY <1>1, Constants, FS_Subset
  <2>2. Cardinality(arrived \cup {t}) = Parties
    BY <1>1, <1>3, <2>1, FS_AddElement
  <2>3. arrived \cup {t} = Everyone
    BY <1>1, <2>2, Constants, FS_Subset
  <2>4. /\ arrived' = {}
        /\ pc' = [u \in Everyone |-> IF u = Main THEN "join" ELSE LoopHead(0)]
    BY <1>3, <2>3 DEF BarrierWait, Everyone
  <2> QED BY <1>1, <2>3, <2>4, Constants DEF Everyone
<1> QED BY <1>2, <1>3

-----------------------------------------------------------------------------
(* Types.                                                                   *)

\* The places after a thread has gone on: main within its program, or a worker
\* within its, and not past the barrier.
LEMMA GotoPlaces ==
  ASSUME Types, Running, NEW t \in Everyone, NEW to, Goto(t, to),
         IF t = Main THEN to \in MainPcs ELSE to \in WorkerPcs,
         pc[t] # "barrier" \/ (t = Main /\ to = "failed"),
         arrived' = arrived
  PROVE  Places'
<1>1. /\ pc' \in [Everyone -> MainPcs \cup WorkerPcs]
      /\ pc'[Main] \in MainPcs
      /\ \A u \in Workers : pc'[u] \in WorkerPcs
  BY Constants, GotoPc DEF Types, Places, Goto, Everyone, MainPcs, WorkerPcs
<1>2. arrived \subseteq Everyone /\ \A u \in arrived : pc[u] = "barrier"
  BY DEF Types, Places
<1>3. CASE pc[t] # "barrier"
  BY <1>1, <1>2, <1>3, GotoPc DEF Places
<1>4. CASE t = Main /\ to = "failed"
  <2>1. ~Running'
    BY <1>4, GotoPc DEF Running
  <2> QED BY <1>1, <1>2, <2>1 DEF Places
<1> QED BY <1>3, <1>4

\* Every step preserves the types.
LEMMA TypesStep == Types /\ InOrder /\ Rounds /\ [Next]_vars => Types'
<1> SUFFICES ASSUME Types, InOrder, Rounds, [Next]_vars PROVE Types'
  OBVIOUS
<1> USE Constants
<1>0. Main \in Everyone /\ Workers \subseteq Everyone
  BY DEF Everyone
<1>1. \A n : LoopHead(n) \in WorkerPcs
  BY DEF LoopHead, WorkerPcs
<1>2. ASSUME Running, StartTimer PROVE Types'
  <2>1. Places'
    BY <1>0, <1>2, GotoPlaces DEF StartTimer, MainPcs
  <2> QED BY <1>2, <2>1 DEF Types, Data, StartTimer
<1>3. ASSUME Running, Create PROVE Types'
  <2>1. created \in 0 .. NumThreads - 1 /\ created + 1 \in Workers
    BY <1>3 DEF Create, Types, Data, Workers
  <2>2. WorkerEntry \in WorkerPcs
    BY <1>1 DEF WorkerEntry, WorkerPcs
  <2>3. pc[created + 1] = "not_created"
    BY <2>1 DEF InOrder, Workers
  <2>4. Places'
    BY <1>0, <1>3, <2>1, <2>2, <2>3, GotoPlaces DEF Create
  <2>5. created' \in 0 .. NumThreads
    BY <1>3, <2>1 DEF Create
  <2> QED BY <1>3, <2>4, <2>5 DEF Types, Data, Create
<1>4. ASSUME Running, CreateFails PROVE Types'
  <2>1. Places'
    BY <1>0, <1>4, GotoPlaces DEF CreateFails, MainPcs
  <2> QED BY <1>4, <2>1 DEF Types, Data, CreateFails
<1>5. ASSUME Running, NEW t \in Workers, PinFails(t) PROVE Types'
  <2>1. Places'
    BY <1>0, <1>5, GotoPlaces DEF PinFails, MainPcs
  <2> QED BY <1>5, <2>1 DEF Types, Data, PinFails
<1>6. ASSUME Running, CreatedAll PROVE Types'
  <2>1. Places'
    BY <1>0, <1>6, GotoPlaces DEF CreatedAll, MainPcs
  <2> QED BY <1>6, <2>1 DEF Types, Data, CreatedAll
<1>7. ASSUME Running, StopTimer PROVE Types'
  <2>1. Places'
    BY <1>0, <1>7, GotoPlaces DEF StopTimer, MainPcs
  <2> QED BY <1>7, <2>1 DEF Types, Data, StopTimer
<1>8. ASSUME Running, Report PROVE Types'
  <2>1. Places'
    BY <1>0, <1>8, GotoPlaces DEF Report, MainPcs
  <2>2. total' \in 0 .. Word - 1
    BY <1>8, Sums, ModTurns DEF Types, Report
  <2> QED BY <1>8, <2>1, <2>2 DEF Types, Data, Report
<1>9. ASSUME Running, NEW t \in Everyone, BarrierWait(t) PROVE Types'
  <2>1. Places'
    BY <1>0, <1>1, <1>9, BarrierWaits DEF Places, Types, MainPcs, WorkerPcs, Everyone
  <2> QED BY <1>9, <2>1 DEF Types, Data, BarrierWait
<1>10. ASSUME Running, NEW t \in Workers, Acquire(t) PROVE Types'
  <2>1. Places'
    BY <1>0, <1>10, GotoPlaces DEF Acquire, WorkerPcs
  <2> QED BY <1>10, <2>1 DEF Types, Data, Acquire
<1>11. ASSUME Running, NEW t \in Workers, Load(t) PROVE Types'
  <2>1. Places'
    BY <1>0, <1>11, GotoPlaces DEF Load, WorkerPcs
  <2>2. Cell(t) \in Cells
    BY DEF Cell
  <2> QED BY <1>11, <2>1, <2>2 DEF Types, Data, Load
<1>12. ASSUME Running, NEW t \in Workers, Store(t) PROVE Types'
  <2>1. Places'
    BY <1>0, <1>1, <1>12, GotoPlaces DEF Store, WorkerPcs
  <2>2. done[t] + 1 \in 0 .. Iters
    BY <1>12 DEF Types, Data, Rounds, Store
  <2>3. PlusOne(local[t]) \in 0 .. Word - 1
    <3>1. local[t] + 1 \in Nat
      BY DEF Types, Data
    <3> QED BY <3>1, ModTurns DEF PlusOne
  <2> QED BY <1>12, <2>1, <2>2, <2>3 DEF Types, Data, Store
<1>13. ASSUME Running, NEW t \in Workers, Release(t) PROVE Types'
  <2>1. Places'
    BY <1>0, <1>1, <1>13, GotoPlaces DEF Release, WorkerPcs
  <2> QED BY <1>13, <2>1 DEF Types, Data, Release
<1>14. ASSUME UNCHANGED vars PROVE Types'
  BY <1>14 DEF vars, Types, Data, Places, Running
<1> QED BY <1>0, <1>2, <1>3, <1>4, <1>5, <1>6, <1>7, <1>8, <1>9, <1>10, <1>11, <1>12, <1>13, <1>14
        DEF Next, MainStep, WorkerStep, Terminated

-----------------------------------------------------------------------------
(* Who may have started.                                                    *)

\* A step of main that takes it from one place to another.
MainMoves(from, to) ==
  /\ pc[Main] = from /\ pc'[Main] = to
  /\ \A t \in Workers : pc'[t] = pc[t]

\* A step of a worker in its loop.
WorkerMoves(t, from, to) ==
  /\ pc[t] = from /\ pc'[t] = to
  /\ \A u \in Everyone : u # t => pc'[u] = pc[u]

\* A step of main in its own program is one of the first kind,
LEMMA MainMovesBy ==
  ASSUME Types, NEW to, Goto(Main, to)
  PROVE  MainMoves(pc[Main], to)
BY Constants, GotoPc DEF MainMoves, Everyone

\* and a step of a worker one of the second.
LEMMA WorkerMovesBy ==
  ASSUME Types, NEW t \in Workers, NEW to, Goto(t, to)
  PROVE  WorkerMoves(t, pc[t], to)
BY Constants, GotoPc DEF WorkerMoves, Everyone

\* A worker is created where no worker was, and begins before the barrier or,
\* if there is none, in its loop.
LEMMA Creates ==
  ASSUME Types, InOrder, Running, Create
  PROVE  /\ created + 1 \in Workers /\ created' = created + 1 /\ created < NumThreads
         /\ created \in Nat /\ pc[Main] = "create" /\ pc'[Main] = "create"
         /\ WorkerMoves(created + 1, "not_created", WorkerEntry)
         /\ UNCHANGED <<lab, mode, owner, counter, local, done, arrived, timer, total>>
<1>1. /\ created + 1 \in Workers /\ created' = created + 1 /\ created < NumThreads
      /\ created \in Nat /\ pc[Main] = "create" /\ Goto(created + 1, WorkerEntry)
      /\ UNCHANGED <<lab, mode, owner, counter, local, done, arrived, timer, total>>
  BY Constants DEF Create, Types, Data, Workers
<1>2. pc[created + 1] = "not_created"
  BY <1>1 DEF InOrder
<1>3. WorkerMoves(created + 1, "not_created", WorkerEntry)
  BY <1>1, <1>2, WorkerMovesBy
<1> QED BY <1>1, <1>3, Constants DEF WorkerMoves, Everyone

\* Every step keeps main's program in order, and starts the workers together.
LEMMA OrderStep ==
  Types /\ InOrder /\ StartedTogether /\ [Next]_vars => InOrder' /\ StartedTogether'
<1> SUFFICES ASSUME Types, InOrder, StartedTogether, [Next]_vars
             PROVE  InOrder' /\ StartedTogether'
  OBVIOUS
<1> USE Constants
<1>0. Data /\ Main \in Everyone /\ Workers \subseteq Everyone /\ 1 \in Workers
  BY DEF Types, Everyone, Workers
<1>1. created \in Nat /\ created <= NumThreads /\ \A t \in Workers : t \in Nat /\ t <= NumThreads
  BY <1>0 DEF Data, Workers
<1>2. ASSUME Running, StartTimer PROVE InOrder' /\ StartedTogether'
  <2>1. /\ MainMoves("start_timer", IF HasBarrier THEN "barrier" ELSE "create")
        /\ timer' = "running"
        /\ UNCHANGED <<lab, created>>
    BY <1>2, MainMovesBy DEF StartTimer
  <2> QED BY <1>0, <1>1, <2>1 DEF MainMoves, InOrder, StartedTogether, Started, HasBarrier, Running, Everyone
<1>3. ASSUME Running, Create PROVE InOrder' /\ StartedTogether'
  <2>1. /\ created + 1 \in Workers /\ created' = created + 1 /\ created < NumThreads
        /\ pc[Main] = "create" /\ pc'[Main] = "create"
        /\ pc[created + 1] = "not_created" /\ pc'[created + 1] = WorkerEntry
        /\ \A u \in Workers : u # created + 1 => pc'[u] = pc[u]
        /\ UNCHANGED <<lab, timer>>
    BY <1>0, <1>3, Creates DEF WorkerMoves
  <2>2. timer # "stopped"
    BY <2>1 DEF InOrder
  <2>3. CASE HasBarrier
    <3>1. WorkerEntry = "barrier" /\ HasBarrier'
      BY <2>1, <2>3 DEF WorkerEntry, HasBarrier
    <3>2. \A u \in Workers : ~Started(u) /\ ~Started(u)'
      BY <2>1, <2>3, <3>1 DEF StartedTogether, Started
    <3>3. InOrder'
      BY <1>0, <1>1, <2>1, <2>2, <2>3, <3>1 DEF InOrder, Running
    <3> QED BY <3>2, <3>3 DEF StartedTogether
  <2>4. CASE ~HasBarrier
    <3>1. WorkerEntry \notin {"not_created", "barrier"} /\ ~HasBarrier'
      BY <2>1, <2>4 DEF WorkerEntry, LoopHead, HasBarrier
    <3>2. timer # "before"
      BY <1>3, <2>1, <2>4 DEF InOrder
    <3>3. InOrder'
      BY <1>0, <1>1, <2>1, <2>2, <2>4, <3>1, <3>2 DEF InOrder, Running, Everyone
    <3> QED BY <2>1, <3>1, <3>2, <3>3 DEF StartedTogether
  <2> QED BY <2>3, <2>4
<1>4. ASSUME Running, CreateFails PROVE InOrder' /\ StartedTogether'
  <2>1. MainMoves("create", "failed") /\ UNCHANGED <<lab, created, timer>>
    BY <1>4, MainMovesBy DEF CreateFails
  <2> QED BY <1>0, <1>1, <2>1 DEF MainMoves, InOrder, StartedTogether, Started, HasBarrier, Running, Everyone
<1>5. ASSUME Running, NEW t \in Workers, PinFails(t) PROVE InOrder' /\ StartedTogether'
  <2>1. MainMoves(pc[Main], "failed") /\ UNCHANGED <<lab, created, timer>>
    BY <1>5, MainMovesBy DEF PinFails
  <2> QED BY <1>0, <1>1, <2>1 DEF MainMoves, InOrder, StartedTogether, Started, HasBarrier, Running, Everyone
<1>6. ASSUME Running, CreatedAll PROVE InOrder' /\ StartedTogether'
  <2>1. /\ MainMoves("create", IF HasBarrier THEN "start_timer" ELSE "join")
        /\ created = NumThreads /\ UNCHANGED <<lab, created, timer>>
    BY <1>6, MainMovesBy DEF CreatedAll
  <2> QED BY <1>0, <1>1, <2>1 DEF MainMoves, InOrder, StartedTogether, Started, HasBarrier, Running, Everyone
<1>7. ASSUME Running, StopTimer PROVE InOrder' /\ StartedTogether'
  <2>1. /\ MainMoves("join", "report") /\ Joined /\ timer' = "stopped"
        /\ UNCHANGED <<lab, created>>
    BY <1>7, MainMovesBy DEF StopTimer
  <2> QED BY <1>0, <1>1, <2>1 DEF MainMoves, InOrder, StartedTogether, Started, HasBarrier, Running, Everyone, Joined
<1>8. ASSUME Running, Report PROVE InOrder' /\ StartedTogether'
  <2>1. MainMoves("report", "returned") /\ UNCHANGED <<lab, created, timer>>
    BY <1>8, MainMovesBy DEF Report
  <2> QED BY <1>0, <1>1, <2>1 DEF MainMoves, InOrder, StartedTogether, Started, HasBarrier, Running, Everyone
<1>9. ASSUME Running, NEW t \in Everyone, BarrierWait(t) PROVE InOrder' /\ StartedTogether'
  <2>1. UNCHANGED <<lab, mode, created, timer>> /\ pc[t] = "barrier"
    BY <1>9 DEF BarrierWait
  <2>2. CASE pc' = pc
    BY <2>1, <2>2 DEF InOrder, StartedTogether, Started, HasBarrier, Running
  <2>3. CASE /\ \A u \in Everyone : pc[u] = "barrier"
             /\ \A u \in Workers : pc'[u] = LoopHead(0)
             /\ pc'[Main] = "join"
    <3>1. HasBarrier /\ timer # "before" /\ timer # "stopped" /\ created = NumThreads
      BY <1>0, <1>1, <1>9, <2>3 DEF InOrder
    <3>2. LoopHead(0) \notin {"not_created", "barrier"}
      BY DEF LoopHead
    <3> QED BY <1>0, <1>1, <2>1, <2>3, <3>1, <3>2
            DEF InOrder, StartedTogether, Started, HasBarrier, Running, Everyone
  <2> QED BY <1>9, <2>2, <2>3, BarrierWaits
<1>10. ASSUME Running, NEW t \in Workers, NEW from \in {"acquire", "load", "store", "release"},
              NEW to \in {"acquire", "load", "store", "release", "done"}, WorkerMoves(t, from, to),
              UNCHANGED <<lab, mode, created, timer>>
       PROVE  InOrder' /\ StartedTogether'
  <2>1. Started(t) /\ Started(t)' /\ timer # "stopped" /\ pc'[Main] = pc[Main]
        /\ \A u \in Workers : /\ Started(u)' <=> Started(u)
                              /\ pc'[u] = "not_created" <=> pc[u] = "not_created"
                              /\ pc'[u] = "barrier" <=> pc[u] = "barrier"
    BY <1>0, <1>10 DEF WorkerMoves, Started, InOrder, Everyone
  <2>2. InOrder'
    BY <1>0, <1>1, <1>10, <2>1 DEF InOrder, HasBarrier, Running, Everyone
  <2>3. StartedTogether'
    BY <1>0, <1>1, <1>10, <2>1 DEF StartedTogether, HasBarrier, Everyone
  <2> QED BY <2>2, <2>3
<1>11. ASSUME Running, NEW t \in Workers, Acquire(t) \/ Load(t) \/ Store(t) \/ Release(t)
       PROVE  InOrder' /\ StartedTogether'
  <2>1. /\ pc[t] \in {"acquire", "load", "store", "release"}
        /\ \E to \in {"acquire", "load", "store", "release", "done"} : Goto(t, to)
        /\ UNCHANGED <<lab, mode, created, timer>>
    BY <1>11 DEF Acquire, Load, Store, Release, LoopHead
  <2> QED BY <1>10, <1>11, <2>1, WorkerMovesBy
<1>12. ASSUME UNCHANGED vars PROVE InOrder' /\ StartedTogether'
  BY <1>12 DEF vars, InOrder, StartedTogether, Started, HasBarrier, Running
<1> QED BY <1>0, <1>2, <1>3, <1>4, <1>5, <1>6, <1>7, <1>8, <1>9, <1>11, <1>12
        DEF Next, MainStep, WorkerStep, Terminated

-----------------------------------------------------------------------------
(* The workers' rounds and the lock.                                        *)

\* The four steps of a worker's round, and what each does to the lock and to
\* the rounds made.
LEMMA WorkerSteps ==
  ASSUME Types, Rounds, NEW t \in Workers, Acquire(t) \/ Load(t) \/ Store(t) \/ Release(t)
  PROVE  /\ UNCHANGED <<lab, mode>>
         /\ \/ /\ WorkerMoves(t, "acquire", "load")
               /\ mode \in Locks /\ owner[mode] = Nobody
               /\ owner' = [owner EXCEPT ![mode] = t]
               /\ UNCHANGED <<done, counter, local>>
            \/ /\ WorkerMoves(t, "load", "store")
               /\ local' = [local EXCEPT ![t] = counter[Cell(t)]]
               /\ UNCHANGED <<owner, done, counter>>
            \/ /\ \/ mode = "none" /\ done[t] + 1 = Iters /\ WorkerMoves(t, "store", "done")
                  \/ mode = "none" /\ done[t] + 1 < Iters /\ WorkerMoves(t, "store", "load")
                  \/ mode # "none" /\ WorkerMoves(t, "store", "release")
               /\ done' = [done EXCEPT ![t] = @ + 1] /\ done[t] + 1 \in 0 .. Iters
               /\ counter' = [counter EXCEPT ![Cell(t)] = PlusOne(local[t])]
               /\ UNCHANGED <<owner, local>>
            \/ /\ \/ done[t] = Iters /\ WorkerMoves(t, "release", "done")
                  \/ done[t] < Iters /\ WorkerMoves(t, "release", "acquire")
               /\ mode \in Locks
               /\ owner' = [owner EXCEPT ![mode] = Nobody]
               /\ UNCHANGED <<done, counter, local>>
<1> USE Constants
<1>0. Data /\ done[t] \in 0 .. Iters
  BY DEF Types, Data
<1>1. CASE Acquire(t)
  <2>1. mode \in Locks
    BY <1>0, <1>1, ModesOfTheLabs DEF Rounds, Acquire
  <2> QED BY <1>1, <2>1, WorkerMovesBy DEF Acquire, LockFree
<1>2. CASE Load(t)
  BY <1>2, WorkerMovesBy DEF Load
<1>3. CASE Store(t)
  <2>1. done[t] < Iters /\ done[t] + 1 \in 0 .. Iters
    BY <1>0, <1>3 DEF Rounds, Store
  <2>2. CASE mode = "none"
    BY <1>0, <1>3, <2>1, <2>2, WorkerMovesBy DEF Store, LoopHead
  <2>3. CASE mode # "none"
    BY <1>3, <2>1, <2>3, WorkerMovesBy DEF Store
  <2> QED BY <2>2, <2>3
<1>4. CASE Release(t)
  <2>1. mode \in Locks /\ mode # "none"
    BY <1>0, <1>4, ModesOfTheLabs DEF Rounds, Release
  <2> QED BY <1>0, <1>4, <2>1, WorkerMovesBy DEF Release, Released, LoopHead
<1> QED BY <1>1, <1>2, <1>3, <1>4

\* Every worker's round stays as it is, or begins.
BeginsOrStays ==
  /\ UNCHANGED <<lab, mode, owner, counter, local, done>>
  /\ \A t \in Workers : \/ pc'[t] = pc[t]
                        \/ ~Started(t) /\ pc'[t] \in {"barrier", LoopHead(0)}

\* That is all that the other steps do.
LEMMA OtherSteps ==
  ASSUME Types, InOrder, [Next]_vars,
         \A t \in Workers : ~(Acquire(t) \/ Load(t) \/ Store(t) \/ Release(t))
  PROVE  BeginsOrStays
<1> USE Constants
<1>0. Main \in Everyone /\ Workers \subseteq Everyone
  BY DEF Everyone
<1>1. ASSUME StartTimer \/ CreateFails \/ CreatedAll \/ StopTimer \/ Report PROVE BeginsOrStays
  BY <1>0, <1>1, GotoPc DEF StartTimer, CreateFails, CreatedAll, StopTimer, Report, BeginsOrStays
<1>2. ASSUME NEW t \in Workers, PinFails(t) PROVE BeginsOrStays
  BY <1>0, <1>2, GotoPc DEF PinFails, BeginsOrStays
<1>3. ASSUME Running, Create PROVE BeginsOrStays
  BY <1>0, <1>3, Creates DEF WorkerMoves, WorkerEntry, BeginsOrStays, Started
<1>4. ASSUME Running, NEW t \in Everyone, BarrierWait(t) PROVE BeginsOrStays
  <2>1. UNCHANGED <<lab, mode, owner, counter, local, done>>
    BY <1>4 DEF BarrierWait
  <2> QED BY <1>0, <1>4, <2>1, BarrierWaits DEF BeginsOrStays, Started
<1>5. ASSUME UNCHANGED vars PROVE BeginsOrStays
  BY <1>5 DEF vars, BeginsOrStays
<1> QED BY <1>0, <1>1, <1>2, <1>3, <1>4, <1>5 DEF Next, MainStep, WorkerStep, Terminated

\* Every step keeps the rounds in order, the lock exclusive and the values
\* loaded fresh.
LEMMA RoundsStep ==
  Types /\ InOrder /\ Rounds /\ Exclusive /\ Fresh /\ [Next]_vars
    => Rounds' /\ Exclusive' /\ Fresh'
<1> SUFFICES ASSUME Types, InOrder, Rounds, Exclusive, Fresh, [Next]_vars
             PROVE  Rounds' /\ Exclusive' /\ Fresh'
  OBVIOUS
<1> USE Constants
<1>0. /\ Data /\ Workers \subseteq Everyone
      /\ owner \in [Locks -> Workers \cup {Nobody}] /\ done \in [Workers -> 0 .. Iters]
      /\ counter \in [Cells -> 0 .. Word - 1] /\ local \in [Workers -> 0 .. Word - 1]
  BY DEF Types, Data, Everyone
<1>1. CASE \A t \in Workers : ~(Acquire(t) \/ Load(t) \/ Store(t) \/ Release(t))
  <2>1. BeginsOrStays
    BY <1>1, OtherSteps
  <2>2. /\ Iters = 0 => LoopHead(0) = "done"
        /\ Iters # 0 /\ mode = "none" => LoopHead(0) = "load"
        /\ Iters # 0 /\ mode # "none" => LoopHead(0) = "acquire"
    BY DEF LoopHead
  <2>3. Rounds'
    BY <2>1, <2>2 DEF BeginsOrStays, Rounds, Started
  <2>4. Exclusive'
    <3>1. \A t \in Workers : pc[t] \in Holds => pc'[t] = pc[t]
      BY <2>1 DEF BeginsOrStays, Started, Holds
    <3>2. mode \in Locks => \A t \in Workers : pc'[t] \in Holds => pc[t] \in Holds
      BY <1>0, <2>1, <2>2, ModesOfTheLabs DEF BeginsOrStays, Started, Holds
    <3> QED BY <1>0, <2>1, <3>1, <3>2 DEF BeginsOrStays, Exclusive
  <2>5. Fresh'
    BY <2>1, <2>2 DEF BeginsOrStays, Fresh, Cell
  <2> QED BY <2>3, <2>4, <2>5
<1>2. ASSUME NEW t \in Workers, Acquire(t) \/ Load(t) \/ Store(t) \/ Release(t)
      PROVE  Rounds' /\ Exclusive' /\ Fresh'
  <2>0. UNCHANGED <<lab, mode>>
    BY <1>2, WorkerSteps
  <2>1. CASE /\ WorkerMoves(t, "acquire", "load")
             /\ mode \in Locks /\ owner[mode] = Nobody
             /\ owner' = [owner EXCEPT ![mode] = t]
             /\ UNCHANGED <<done, counter, local>>
    <3>1. Rounds'
      BY <1>0, <2>0, <2>1, ModesOfTheLabs DEF WorkerMoves, Rounds, Started
    <3>2. Exclusive'
      BY <1>0, <2>0, <2>1 DEF WorkerMoves, Exclusive, Holds
    <3>3. Fresh'
      BY <1>0, <2>0, <2>1 DEF WorkerMoves, Fresh, Cell
    <3> QED BY <3>1, <3>2, <3>3
  <2>2. CASE /\ WorkerMoves(t, "load", "store")
             /\ local' = [local EXCEPT ![t] = counter[Cell(t)]]
             /\ UNCHANGED <<owner, done, counter>>
    <3>1. Rounds'
      BY <1>0, <2>0, <2>2 DEF WorkerMoves, Rounds, Started
    <3>2. Exclusive'
      BY <1>0, <2>0, <2>2 DEF WorkerMoves, Exclusive, Holds
    <3>3. Fresh'
      BY <1>0, <2>0, <2>2 DEF WorkerMoves, Fresh, Cell
    <3> QED BY <3>1, <3>2, <3>3
  <2>3. CASE /\ \/ mode = "none" /\ done[t] + 1 = Iters /\ WorkerMoves(t, "store", "done")
                \/ mode = "none" /\ done[t] + 1 < Iters /\ WorkerMoves(t, "store", "load")
                \/ mode # "none" /\ WorkerMoves(t, "store", "release")
             /\ done' = [done EXCEPT ![t] = @ + 1] /\ done[t] + 1 \in 0 .. Iters
             /\ counter' = [counter EXCEPT ![Cell(t)] = PlusOne(local[t])]
             /\ UNCHANGED <<owner, local>>
    <3>1. Rounds'
      BY <1>0, <2>0, <2>3 DEF WorkerMoves, Rounds, Started
    <3>2. Exclusive'
      BY <1>0, <2>0, <2>3, ModesOfTheLabs DEF WorkerMoves, Exclusive, Holds
    <3>3. ASSUME NEW u \in Workers, u # t, pc[u] = "store" PROVE Cell(u) # Cell(t)
      <4>1. pc[t] = "store"
        BY <2>3 DEF WorkerMoves
      <4>2. lab = "false_sharing"
        BY <1>0, <3>3, <4>1, ModesOfTheLabs DEF Exclusive, Holds
      <4> QED BY <3>3, <4>2 DEF Cell
    <3>4. Fresh'
      BY <1>0, <2>0, <2>3, <3>3 DEF WorkerMoves, Fresh, Cell
    <3> QED BY <3>1, <3>2, <3>4
  <2>4. CASE /\ \/ done[t] = Iters /\ WorkerMoves(t, "release", "done")
                \/ done[t] < Iters /\ WorkerMoves(t, "release", "acquire")
             /\ mode \in Locks
             /\ owner' = [owner EXCEPT ![mode] = Nobody]
             /\ UNCHANGED <<done, counter, local>>
    <3>1. Rounds'
      BY <1>0, <2>0, <2>4, ModesOfTheLabs DEF WorkerMoves, Rounds, Started
    <3>2. Exclusive'
      BY <1>0, <2>0, <2>4 DEF WorkerMoves, Exclusive, Holds
    <3>3. Fresh'
      BY <1>0, <2>0, <2>4 DEF WorkerMoves, Fresh, Cell
    <3> QED BY <3>1, <3>2, <3>3
  <2> QED BY <1>2, <2>1, <2>2, <2>3, <2>4, WorkerSteps
<1> QED BY <1>1, <1>2

-----------------------------------------------------------------------------
(* The counters.                                                            *)

\* A store adds one to the counters' sum, or takes it back by a whole word; it
\* makes one increment more.
LEMMA StoreCounts ==
  ASSUME Data, NEW t \in Workers, done[t] + 1 \in 0 .. Iters,
         counter' = [counter EXCEPT ![Cell(t)] = PlusOne(counter[Cell(t)])],
         done' = [done EXCEPT ![t] = @ + 1], NothingLost
  PROVE  (SumFunctionOnSet(counter', Cells) - SumFunctionOnSet(done', Workers)) % Word = 0
<1> USE Constants
<1> DEFINE c == Cell(t)
<1>1. c \in Cells
  BY DEF Cell
<1>2. PICK m \in 0 .. Word - 1 : m = counter[c]
  BY <1>1 DEF Data
<1>3. PICK n \in 0 .. Word - 1 : n = PlusOne(m) /\ (n = m + 1 \/ n = m + 1 - Word)
  <2>1. CASE m + 1 < Word
    <3>1. PICK k \in Nat : k = m + 1 /\ k < Word
      BY <2>1
    <3>2. k % Word = k
      BY <3>1, ModSmall
    <3> QED BY <3>1, <3>2 DEF PlusOne
  <2>2. CASE m + 1 = Word
    <3>1. Word % Word = 0
      BY ModSmall
    <3>2. 0 \in 0 .. Word - 1 /\ 0 = m + 1 - Word
      BY <2>2
    <3> QED BY <2>2, <3>1, <3>2 DEF PlusOne
  <2> QED BY <2>1, <2>2
<1> HIDE DEF c
<1>4. SumFunctionOnSet(counter', Cells) = SumFunctionOnSet(counter, Cells) + (n - m)
  <2>1. PICK f, g : f = counter /\ g = counter'
    OBVIOUS
  <2>2. (\A y \in Cells : f[y] \in Nat) /\ g[c] = n /\ g[c] \in Nat
        /\ \A y \in Cells : y # c => g[y] = f[y]
    BY <1>1, <1>2, <1>3, <2>1 DEF Data, c
  <2>3. SumFunctionOnSet(g, Cells) = SumFunctionOnSet(f, Cells) + (g[c] - f[c])
    BY <1>1, <2>2, SumUpdate
  <2> QED BY <1>2, <2>1, <2>2, <2>3
<1>5. SumFunctionOnSet(done', Workers) = SumFunctionOnSet(done, Workers) + 1
  <2>1. PICK f, g : f = done /\ g = done'
    OBVIOUS
  <2>2. (\A y \in Workers : f[y] \in Nat) /\ g[t] \in Nat /\ g[t] - f[t] = 1
        /\ \A y \in Workers : y # t => g[y] = f[y]
    BY <2>1 DEF Data
  <2>3. SumFunctionOnSet(g, Workers) = SumFunctionOnSet(f, Workers) + (g[t] - f[t])
    BY <2>2, SumUpdate
  <2> QED BY <2>1, <2>2, <2>3
<1>6. PICK a \in Nat : a = SumFunctionOnSet(counter, Cells) /\ a = SumFunction(counter)
  BY Sums
<1>7. PICK b \in Nat : b = SumFunctionOnSet(done, Workers) /\ b = SumFunction(done)
  BY Sums
<1>8. (a - b) % Word = 0 /\ a - b \in Int
  BY <1>6, <1>7 DEF NothingLost
<1>9. (a + (n - m)) - (b + 1) = a - b \/ (a + (n - m)) - (b + 1) = (a - b) - Word
  <2>1. a \in Int /\ b \in Int /\ m \in Int /\ Word \in Int
    OBVIOUS
  <2>2. CASE n = m + 1
    BY <2>1, <2>2
  <2>3. CASE n = m + 1 - Word
    BY <2>1, <2>3
  <2> QED BY <1>3, <2>2, <2>3
<1>10. ((a - b) - Word) % Word = 0
  <2>1. PICK d \in Int : d = a - b /\ d % Word = 0
    BY <1>8
  <2>2. (d - Word) % Word = 0
    BY <2>1, ModShift
  <2> QED BY <2>1, <2>2
<1>11. ((a + (n - m)) - (b + 1)) % Word = 0
  BY <1>8, <1>9, <1>10
<1> QED BY <1>4, <1>5, <1>6, <1>7, <1>11

\* No step loses an increment.
LEMMA NothingLostStep ==
  Types /\ Types' /\ InOrder /\ Rounds /\ Fresh /\ NothingLost /\ [Next]_vars => NothingLost'
<1> SUFFICES ASSUME Types, Types', InOrder, Rounds, Fresh, NothingLost, [Next]_vars
             PROVE  NothingLost'
  OBVIOUS
<1>1. CASE \A t \in Workers : ~(Acquire(t) \/ Load(t) \/ Store(t) \/ Release(t))
  <2>1. UNCHANGED <<counter, done>>
    BY <1>1, OtherSteps DEF BeginsOrStays
  <2> QED BY <2>1 DEF NothingLost
<1>2. ASSUME NEW t \in Workers, Acquire(t) \/ Load(t) \/ Store(t) \/ Release(t)
      PROVE  NothingLost'
  <2>1. CASE UNCHANGED <<counter, done>>
    BY <2>1 DEF NothingLost
  <2>2. CASE /\ pc[t] = "store"
             /\ done' = [done EXCEPT ![t] = @ + 1] /\ done[t] + 1 \in 0 .. Iters
             /\ counter' = [counter EXCEPT ![Cell(t)] = PlusOne(local[t])]
    <3>1. local[t] = counter[Cell(t)]
      BY <2>2 DEF Fresh
    <3>2. (SumFunctionOnSet(counter', Cells) - SumFunctionOnSet(done', Workers)) % Word = 0
      BY <2>2, <3>1, StoreCounts DEF Types
    <3>3. SumFunction(counter') = SumFunctionOnSet(counter', Cells)
          /\ SumFunction(done') = SumFunctionOnSet(done', Workers)
      BY DEF Types, Data, SumFunction
    <3> QED BY <3>2, <3>3 DEF NothingLost
  <2> QED BY <1>2, <2>1, <2>2, WorkerSteps DEF WorkerMoves
<1> QED BY <1>1, <1>2

\* When the timer has been stopped every worker has made its increments, and
\* holds nothing.
LEMMA AllCounted ==
  ASSUME Types, InOrder, Rounds, Exclusive, NothingLost, Running, timer = "stopped"
  PROVE  /\ SumFunction(counter) % Word = (NumThreads * Iters) % Word
         /\ \A k \in Locks : LockFree(k)
         /\ arrived \subseteq {Main}
<1> USE Constants
<1>1. \A t \in Workers : pc[t] = "done" /\ done[t] = Iters
  BY DEF InOrder, Rounds
<1>2. SumFunction(done) = NumThreads * Iters
  <2>1. SumFunctionOnSet(done, Workers) = Cardinality(Workers) * Iters
    BY <1>1, SumConst
  <2> QED BY <2>1, Sums DEF Types
<1>3. SumFunction(counter) % Word = (NumThreads * Iters) % Word
  <2>1. PICK a \in Nat : a = SumFunction(counter)
    BY Sums DEF Types
  <2>2. PICK b \in Nat : b = SumFunction(done)
    BY Sums DEF Types
  <2>3. (a - b) % Word = 0
    BY <2>1, <2>2 DEF NothingLost
  <2>4. a % Word = b % Word
    <3>1. a \in Int /\ b \in Int /\ Word \in Nat \ {0}
      OBVIOUS
    <3> QED BY <2>3, <3>1, ModSame
  <2> QED BY <1>2, <2>1, <2>2, <2>4
<1>4. \A k \in Locks : LockFree(k)
  BY <1>1 DEF Exclusive, Holds, LockFree, Types, Data
<1>5. arrived \subseteq {Main}
  BY <1>1 DEF Types, Places, Everyone
<1> QED BY <1>3, <1>4, <1>5

\* Main leaves only from its report.
LEMMA LeftCleanStep ==
  ASSUME CountersInvariant, [Next]_vars PROVE LeftClean'
<1> USE Constants DEF CountersInvariant
<1>0. Main \in Everyone /\ Workers \subseteq Everyone /\ Data
  BY DEF Everyone, Types
<1>1. ASSUME Running, Report PROVE LeftClean'
  <2>1. timer = "stopped" /\ pc[Main] = "report"
    BY <1>1 DEF InOrder, Report
  <2>2. arrived = {}
    BY <1>1, <2>1, AllCounted DEF Types, Places
  <2> QED BY <1>1, <2>1, <2>2, AllCounted DEF Report, LeftClean, LockFree
<1>2. ASSUME Running, ~Report PROVE pc'[Main] # "returned"
  <2>1. ASSUME NEW to, Goto(Main, to), to # "returned" PROVE pc'[Main] # "returned"
    BY <1>0, <2>1, GotoPc
  <2>2. ASSUME NEW t \in Workers, NEW to, Goto(t, to) PROVE pc'[Main] # "returned"
    BY <1>0, <1>2, <2>2, GotoPc DEF Running
  <2>3. ASSUME NEW t \in Everyone, BarrierWait(t) PROVE pc'[Main] # "returned"
    BY <1>0, <1>2, <2>3, BarrierWaits DEF Running
  <2>4. Create => pc'[Main] # "returned"
    BY <1>2, Creates
  <2> QED BY <1>0, <1>2, <2>1, <2>2, <2>3, <2>4
          DEF Next, Terminated, MainStep, WorkerStep, StartTimer, CreateFails, CreatedAll,
              StopTimer, PinFails, Acquire, Load, Store, Release, vars, Running
<1>3. ASSUME UNCHANGED vars PROVE LeftClean'
  BY <1>3 DEF vars, LeftClean, LockFree
<1> QED BY <1>1, <1>2, <1>3 DEF Next, Terminated, LeftClean

-----------------------------------------------------------------------------
(* The theorems.                                                            *)

\* The invariant holds at the start,
LEMMA CountersInit == Init => CountersInvariant
<1> SUFFICES ASSUME Init PROVE CountersInvariant
  OBVIOUS
<1> USE Constants DEF Init
<1>0. Main \in Everyone /\ Workers \subseteq Everyone
  BY DEF Everyone
<1>1. /\ pc[Main] = IF HasBarrier THEN "create" ELSE "start_timer"
      /\ \A t \in Workers : pc[t] = "not_created" /\ t > 0
      /\ pc \in [Everyone -> MainPcs \cup WorkerPcs]
  BY DEF Everyone, MainPcs, WorkerPcs, Workers
<1>2. Types
  <2>1. 0 \in 0 .. Word - 1 /\ 0 \in 0 .. Iters /\ 0 \in 0 .. NumThreads
    OBVIOUS
  <2>2. Data
    BY <2>1 DEF Data, ModesOf, Labs
  <2> QED BY <1>1, <2>2 DEF Types, Places, MainPcs, WorkerPcs
<1>3. InOrder
  BY <1>0, <1>1 DEF InOrder, Everyone
<1>4. StartedTogether /\ Rounds
  BY <1>0, <1>1 DEF StartedTogether, Rounds, Started
<1>5. Exclusive /\ Fresh /\ LeftClean
  BY <1>0, <1>1 DEF Exclusive, Fresh, LeftClean, Holds
<1>6. NothingLost
  <2>1. SumFunctionOnSet(counter, Cells) = Cardinality(Cells) * 0
    BY SumConst
  <2>2. SumFunctionOnSet(done, Workers) = Cardinality(Workers) * 0
    BY SumConst
  <2>3. Cardinality(Cells) \in Nat /\ Cardinality(Workers) \in Nat
    BY FS_CardinalityType
  <2>4. SumFunction(counter) = 0 /\ SumFunction(done) = 0
    BY <1>2, <2>1, <2>2, <2>3, Sums DEF Types
  <2>5. 0 % Word = 0
    OBVIOUS
  <2> QED BY <2>4, <2>5 DEF NothingLost
<1> QED BY <1>2, <1>3, <1>4, <1>5, <1>6 DEF CountersInvariant

\* and every step preserves it.
THEOREM CountersHold == Init /\ [][Next]_vars => []CountersInvariant
<1>1. CountersInvariant /\ [Next]_vars => CountersInvariant'
  BY TypesStep, OrderStep, RoundsStep, NothingLostStep, LeftCleanStep DEF CountersInvariant
<1> QED BY <1>1, CountersInit, PTL

\* The type invariant holds in every reachable state.
THEOREM CountersTypes == FairSpec => []TypeOK
<1>1. CountersInvariant => TypeOK
  BY DEF CountersInvariant, Types, Data, Places, TypeOK, MainPcs, WorkerPcs, Everyone
<1> QED BY <1>1, CountersHold, PTL DEF FairSpec

\* In all three programs and every schedule the timed interval holds all of
\* the measured work, no increment is lost, and what main prints is the number
\* of increments, at whatever count the words wrap.
THEOREM CountsAreExact == FairSpec => []CountExact
<1>1. CountersInvariant => MeasuredExactly
  <2> SUFFICES ASSUME CountersInvariant PROVE MeasuredExactly
    OBVIOUS
  <2>1. \A t \in Workers : pc[t] \in {"load", "store"} \/ done[t] > 0 => Started(t)
    BY DEF CountersInvariant, Rounds, Started
  <2> QED BY <2>1 DEF CountersInvariant, StartedTogether, InOrder, Rounds, MeasuredExactly
<1>2. CountersInvariant => CountExact
  BY <1>1 DEF CountersInvariant, NothingLost, LeftClean, CountExact
<1> QED BY <1>2, CountersHold, PTL DEF FairSpec

-----------------------------------------------------------------------------
(* branchless-code, whose two kernels add up the same weights, one by        *)
(* leaving summands out and one by adding zeros.                             *)

\* An element is on the side of the threshold that it was filled for, but
\* there is only one side to a threshold of 0, and only there can a division
\* fail.
Filled ==
  /\ data \in Seq(Nat) /\ weights \in Seq(Nat)
  /\ Len(weights) = Len(data) /\ Len(data) <= Elements
  /\ takes \subseteq 1 .. Len(data)
  /\ \A k \in 1 .. Len(data) : data[k] >= threshold <=> k \in takes \/ threshold = 0
AtOrAbove == {k \in 1 .. Elements : data[k] >= threshold}
BranchInvariant ==
  /\ pattern \in Patterns
  /\ threshold \in 0 .. UINT32_MAX
  /\ place \in {"fill", "trapped", "warmup", "reported"}
  /\ Filled
  /\ place = "trapped" => threshold = 0
  /\ place \in {"warmup", "reported"} =>
       Len(data) = Elements /\ hits = Cardinality(AtOrAbove)

\* With a threshold above 0 the modulus is the number of words from the
\* threshold on.
LEMMA ModulusFits ==
  ASSUME threshold \in 0 .. UINT32_MAX, threshold # 0
  PROVE  /\ Span = UINT32_MAX - threshold /\ Span \in Nat
         /\ Modulus = Span + 1 /\ Modulus \in Nat \ {0}
<1>1. UINT32_MAX \in Nat \ {0} /\ threshold \in Nat /\ threshold <= UINT32_MAX
  BY BranchlessAssumption
<1>2. Span = UINT32_MAX - threshold /\ Span \in Nat
  BY <1>1 DEF Span
<1>3. PICK s \in Nat : s = Span /\ s + 1 < UINT32_MAX + 1
  BY <1>1, <1>2
<1>4. (s + 1) % (UINT32_MAX + 1) = s + 1
  <2>1. PICK i \in Nat, n \in Nat \ {0} : i = s + 1 /\ n = UINT32_MAX + 1 /\ i < n
    BY <1>1, <1>3
  <2>2. i % n = i
    BY <2>1, ModSmall
  <2> QED BY <2>1, <2>2
<1> QED BY <1>2, <1>3, <1>4 DEF Modulus

\* A value to be taken is at or above the threshold, another one below it.
LEMMA Sides ==
  ASSUME threshold \in 0 .. UINT32_MAX, NEW r \in Nat
  PROVE  /\ Divides(TRUE) => Above(r) \in Nat /\ Above(r) >= threshold
         /\ Below(r) \in Nat
         /\ Below(r) >= threshold <=> threshold = 0
<1>1. UINT32_MAX \in Nat \ {0} /\ threshold \in Nat /\ threshold <= UINT32_MAX
  BY BranchlessAssumption
<1>2. CASE threshold = 0
  <2>1. Span = UINT32_MAX /\ Modulus = 0
    <3>1. Span = UINT32_MAX
      BY <1>1, <1>2 DEF Span
    <3>2. PICK w \in Nat \ {0} : w = UINT32_MAX + 1
      BY <1>1
    <3>3. w % w = 0
      BY ModSmall
    <3> QED BY <3>1, <3>2, <3>3 DEF Modulus
  <2>2. ~Divides(TRUE)
    BY <1>1, <1>2, <2>1 DEF Divides
  <2>3. Below(r) = 0 /\ 0 >= threshold
    BY <1>2 DEF Below
  <2>4. Below(r) \in Nat /\ (Below(r) >= threshold <=> threshold = 0)
    BY <1>2, <2>3
  <2> QED BY <2>2, <2>4
<1>3. CASE threshold # 0
  <2>1. Below(r) \in Nat /\ Below(r) < threshold
    <3>1. PICK t \in Nat \ {0} : t = threshold
      BY <1>1, <1>3
    <3>2. r % t \in 0 .. t - 1
      BY ModTurns
    <3> QED BY <1>3, <3>1, <3>2 DEF Below
  <2>2. Above(r) \in Nat /\ Above(r) >= threshold
    <3>1. CASE threshold = UINT32_MAX
      BY <1>1, <3>1 DEF Above
    <3>2. CASE threshold # UINT32_MAX
      <4>1. PICK m \in Nat \ {0} : /\ m = Modulus /\ m = UINT32_MAX - threshold + 1
                                   /\ Span = UINT32_MAX - threshold
        BY <1>3, ModulusFits
      <4>2. r % m \in 0 .. m - 1
        BY ModTurns
      <4>3. PICK x \in Nat : x = threshold + (r % m)
        BY <1>1, <4>2
      <4>4. x < UINT32_MAX + 1 /\ x >= threshold
        BY <1>1, <4>1, <4>2, <4>3
      <4>5. x % (UINT32_MAX + 1) = x
        BY <1>1, <4>4, ModSmall
      <4>6. Span # 0
        BY <1>1, <3>2, <4>1
      <4>7. Above(r) = (threshold + (r % m)) % (UINT32_MAX + 1)
        BY <3>2, <4>1, <4>6 DEF Above
      <4> QED BY <4>3, <4>4, <4>5, <4>7
    <3> QED BY <3>1, <3>2
  <2>3. Below(r) >= threshold <=> threshold = 0
    <3>1. PICK b \in Nat : b = Below(r) /\ b < threshold
      BY <2>1
    <3>2. ~(b >= threshold)
      BY <1>1, <3>1
    <3> QED BY <1>3, <3>1, <3>2
  <2> QED BY <2>1, <2>2, <2>3
<1> QED BY <1>2, <1>3

\* Every division that can fail does so with a threshold of 0.
LEMMA TrapsAtZero ==
  ASSUME threshold \in 0 .. UINT32_MAX, NEW take, ~Divides(take)
  PROVE  threshold = 0
<1>1. ~(threshold # 0)
  BY ModulusFits DEF Divides
<1> QED BY <1>1

\* One round of fill_pattern.
LEMMA FillsBothSides ==
  ASSUME BranchInvariant, Fill PROVE Filled'
<1>1. PICK take \in Take(Len(data)), r \in Random, w \in 1 .. MaxWeight :
        /\ Divides(take)
        /\ data' = Append(data, IF take THEN Above(r) ELSE Below(r))
        /\ weights' = Append(weights, w)
        /\ takes' = IF take THEN takes \cup {Len(data) + 1} ELSE takes
  BY DEF Fill
<1>2. Len(data) < Elements /\ UNCHANGED threshold /\ threshold \in 0 .. UINT32_MAX
  BY DEF Fill, BranchInvariant
<1>3. r \in Nat /\ w \in Nat /\ take \in BOOLEAN /\ Elements \in Nat
  <2>1. r \in Nat /\ w \in Nat /\ Elements \in Nat
    BY BranchlessAssumption DEF Random
  <2>2. pattern \in {"random50", "mostly_false", "mostly_true", "alternating"}
    BY DEF BranchInvariant, Patterns
  <2>3. take \in BOOLEAN
    BY <2>2 DEF Take
  <2> QED BY <2>1, <2>3
<1>4. PICK v : v = IF take THEN Above(r) ELSE Below(r)
  OBVIOUS
<1>5. v \in Nat /\ (v >= threshold <=> take \/ threshold = 0)
  <2>1. CASE take
    <3>1. Divides(TRUE)
      BY <1>1, <1>3, <2>1
    <3>2. Above(r) \in Nat /\ Above(r) >= threshold
      BY <1>2, <1>3, <3>1, Sides
    <3> QED BY <1>4, <2>1, <3>2
  <2>2. CASE ~take
    <3>1. Below(r) \in Nat /\ (Below(r) >= threshold <=> threshold = 0)
      BY <1>2, <1>3, Sides
    <3> QED BY <1>4, <2>2, <3>1
  <2> QED BY <2>1, <2>2
<1>6. PICK l \in Nat : l = Len(data)
  BY DEF BranchInvariant, Filled
<1>7. /\ data' \in Seq(Nat) /\ weights' \in Seq(Nat)
      /\ Len(data') = l + 1 /\ Len(weights') = l + 1
      /\ data'[l + 1] = v /\ \A k \in 1 .. l : data'[k] = data[k]
  BY <1>1, <1>3, <1>4, <1>5, <1>6 DEF BranchInvariant, Filled
<1>8. /\ takes \subseteq 1 .. l
      /\ \A k \in 1 .. l : data[k] >= threshold <=> k \in takes \/ threshold = 0
  BY <1>6 DEF BranchInvariant, Filled
<1>9. /\ takes' \subseteq 1 .. l + 1 /\ (l + 1 \in takes' <=> take)
      /\ \A k \in 1 .. l : k \in takes' <=> k \in takes
  <2>1. takes' = IF take THEN takes \cup {l + 1} ELSE takes
    BY <1>1, <1>6
  <2>2. l + 1 \notin 1 .. l /\ 1 .. l \subseteq 1 .. l + 1 /\ l + 1 \in 1 .. l + 1
    BY <1>6
  <2>3. takes \subseteq 1 .. l
    BY <1>8
  <2>4. takes' \subseteq 1 .. l + 1
    BY <2>1, <2>2, <2>3
  <2>5. l + 1 \in takes' <=> take
    BY <2>1, <2>2, <2>3
  <2>6. \A k \in 1 .. l : k \in takes' <=> k \in takes
    BY <2>1, <2>2
  <2> QED BY <2>4, <2>5, <2>6
<1>10. ASSUME NEW k \in 1 .. l + 1
       PROVE  data'[k] >= threshold <=> k \in takes' \/ threshold = 0
  <2>1. CASE k = l + 1
    BY <1>5, <1>7, <1>9, <2>1
  <2>2. CASE k \in 1 .. l
    BY <1>7, <1>8, <1>9, <2>2
  <2> QED BY <2>1, <2>2
<1> QED BY <1>2, <1>3, <1>6, <1>7, <1>9, <1>10 DEF Filled

\* Every step of the program preserves the invariant.
LEMMA BranchStep ==
  ASSUME BranchInvariant, BranchNext \/ UNCHANGED branchVars
  PROVE  BranchInvariant'
<1>1. CASE UNCHANGED branchVars
  BY <1>1 DEF branchVars, BranchInvariant, Filled, AtOrAbove
<1>2. Fill => BranchInvariant'
  BY FillsBothSides DEF Fill, BranchInvariant
<1>3. Trap => BranchInvariant'
  BY TrapsAtZero DEF Trap, BranchInvariant, Filled
<1>4. CountHits => BranchInvariant'
  BY DEF CountHits, AtLeast, BranchInvariant, Filled, AtOrAbove
<1>5. WarmupPass \/ Measure => BranchInvariant'
  BY DEF WarmupPass, Measure, BranchInvariant, Filled, AtOrAbove
<1>6. Returned => BranchInvariant'
  BY <1>1 DEF Returned, branchVars, branchVars
<1> QED BY <1>1, <1>2, <1>3, <1>4, <1>5, <1>6 DEF BranchNext

\* It holds in every reachable state.
LEMMA BranchInvariantHolds == BranchSpec => []BranchInvariant
<1>1. BranchInit => BranchInvariant
  BY BranchlessAssumption DEF BranchInit, Words, BranchInvariant, Filled
<1>2. BranchInvariant /\ [BranchNext]_branchVars => BranchInvariant'
  BY BranchStep DEF branchVars
<1> QED BY <1>1, <1>2, PTL DEF BranchSpec

\* Zeros for what is left out change no sum.
LEMMA ZerosAddNothing ==
  ASSUME NEW S, IsFiniteSet(S), NEW A \in SUBSET S, NEW f, NEW g,
         \A x \in A : f[x] \in Nat /\ g[x] = f[x], \A x \in S \ A : g[x] = 0
  PROVE  SumFunctionOnSet(g, S) = SumFunctionOnSet(f, A)
<1>1. /\ IsFiniteSet(A) /\ IsFiniteSet(S \ A) /\ A \cap (S \ A) = {} /\ A \cup (S \ A) = S
      /\ \A x \in A \cup (S \ A) : g[x] \in Nat
  BY FS_Subset
<1>2. PICK R : R = S \ A
  OBVIOUS
<1>3. SumFunctionOnSet(g, A \cup R) = SumFunctionOnSet(g, A) + SumFunctionOnSet(g, R)
  BY ONLY <1>1, <1>2, SumUnion
<1>4. PICK n \in Nat : n = Cardinality(R) /\ n * 0 = 0
  BY <1>1, <1>2, FS_CardinalityType
<1>5. SumFunctionOnSet(g, R) = Cardinality(R) * 0
  <2>1. 0 \in Nat /\ \A x \in R : g[x] = 0
    BY <1>2
  <2> QED BY <1>1, <1>2, <2>1, SumConst
<1>6. SumFunctionOnSet(g, A) = SumFunctionOnSet(f, A)
  BY <1>1, SumSame
<1>7. SumFunctionOnSet(f, A) \in Nat
  BY <1>1, SumType
<1>8. A \cup R = S
  BY <1>1, <1>2
<1>9. SumFunctionOnSet(g, S) = SumFunctionOnSet(g, A) + SumFunctionOnSet(g, R)
  BY <1>3, <1>8
<1>10. SumFunctionOnSet(g, R) = 0
  BY <1>4, <1>5
<1> QED BY ONLY <1>6, <1>7, <1>9, <1>10

\* The two kernels return the same for any number of repetitions, and so does
\* count_hits: what the pattern chose, or everything if the threshold is 0.
THEOREM KernelsAgree == BranchSpec => []HitsMatchPattern
<1>1. BranchInvariant => HitsMatchPattern
  <2> SUFFICES ASSUME BranchInvariant, place \in {"warmup", "reported"}
               PROVE  /\ hits = IF threshold = 0 THEN Elements ELSE Cardinality(takes)
                      /\ \A n \in {1, Repeats} : RunBranchy(n) = RunBranchless(n)
                      /\ threshold > 0 =>
                           RunBranchy(1) = SumFunction([i \in takes |-> weights[i]])
    BY DEF HitsMatchPattern
  <2>1. /\ Elements \in Nat /\ threshold \in Nat /\ Len(data) = Elements
        /\ Len(weights) = Elements /\ weights \in Seq(Nat) /\ takes \subseteq 1 .. Elements
        /\ hits = Cardinality(AtOrAbove)
        /\ \A k \in 1 .. Elements : data[k] >= threshold <=> k \in takes \/ threshold = 0
    BY BranchlessAssumption DEF BranchInvariant, Filled
  <2>2. /\ threshold = 0 => AtOrAbove = 1 .. Elements
        /\ threshold # 0 => AtOrAbove = takes
        /\ AtOrAbove \in SUBSET (1 .. Elements)
    BY <2>1 DEF AtOrAbove
  <2>3. IsFiniteSet(1 .. Elements) /\ Cardinality(1 .. Elements) = Elements
    BY <2>1, FS_Interval
  <2>4. hits = IF threshold = 0 THEN Elements ELSE Cardinality(takes)
    BY <2>1, <2>2, <2>3
  <2> DEFINE f == [k \in AtOrAbove |-> weights[k]]
             g == [k \in 1 .. Elements |->
                     (IF data[k] >= threshold THEN 1 ELSE 0) * weights[k]]
  <2>5. \A k \in 1 .. Elements : weights[k] \in Nat
    BY <2>1
  <2>6. \A k \in AtOrAbove : f[k] \in Nat /\ g[k] = f[k]
    <3> SUFFICES ASSUME NEW k \in AtOrAbove PROVE f[k] \in Nat /\ g[k] = f[k]
      OBVIOUS
    <3>1. k \in 1 .. Elements /\ data[k] >= threshold
      BY DEF AtOrAbove
    <3>2. g[k] = 1 * weights[k] /\ f[k] = weights[k] /\ weights[k] \in Nat
      BY <2>5, <3>1
    <3> QED BY <3>2
  <2>7. \A k \in (1 .. Elements) \ AtOrAbove : g[k] = 0
    <3> SUFFICES ASSUME NEW k \in (1 .. Elements) \ AtOrAbove PROVE g[k] = 0
      OBVIOUS
    <3>1. k \in 1 .. Elements /\ ~(data[k] >= threshold)
      BY DEF AtOrAbove
    <3>2. g[k] = 0 * weights[k] /\ weights[k] \in Nat
      BY <2>5, <3>1
    <3> QED BY <3>2
  <2>8. /\ \A n : RunBranchy(n) = n * SumFunction(f)
        /\ \A n : RunBranchless(n) = n * SumFunction(g)
    BY DEF RunBranchy, RunBranchless, AtOrAbove
  <2>9. SumFunction(f) = SumFunctionOnSet(f, AtOrAbove)
    BY DEF SumFunction
  <2>10. SumFunction(g) = SumFunctionOnSet(g, 1 .. Elements)
    BY DEF SumFunction
  <2>11. threshold # 0 => f = [i \in takes |-> weights[i]]
    BY <2>2
  <2> HIDE DEF f, g
  <2>12. SumFunctionOnSet(g, 1 .. Elements) = SumFunctionOnSet(f, AtOrAbove)
    <3>1. PICK S, A : S = 1 .. Elements /\ A = AtOrAbove
      OBVIOUS
    <3>2. IsFiniteSet(S) /\ A \in SUBSET S
      BY <2>2, <2>3, <3>1
    <3>3. \A k \in A : f[k] \in Nat /\ g[k] = f[k]
      BY <2>6, <3>1
    <3>4. \A k \in S \ A : g[k] = 0
      BY <2>7, <3>1
    <3>5. SumFunctionOnSet(g, S) = SumFunctionOnSet(f, A)
      BY ONLY <3>2, <3>3, <3>4, ZerosAddNothing
    <3> QED BY <3>1, <3>5
  <2>13. SumFunctionOnSet(f, AtOrAbove) \in Nat
    <3>1. IsFiniteSet(AtOrAbove)
      BY <2>2, <2>3, FS_Subset
    <3> QED BY <2>6, <3>1, SumType
  <2>14. \A n \in {1, Repeats} : RunBranchy(n) = RunBranchless(n)
    BY <2>8, <2>9, <2>10, <2>12
  <2>15. ASSUME threshold > 0
         PROVE  RunBranchy(1) = SumFunction([i \in takes |-> weights[i]])
    <3>1. RunBranchy(1) = 1 * SumFunctionOnSet(f, AtOrAbove)
      BY <2>8, <2>9
    <3>2. 1 * SumFunctionOnSet(f, AtOrAbove) = SumFunctionOnSet(f, AtOrAbove)
      BY <2>13
    <3>3. f = [i \in takes |-> weights[i]]
      BY <2>1, <2>11, <2>15
    <3> QED BY <2>9, <3>1, <3>2, <3>3
  <2> QED BY <2>4, <2>14, <2>15
<1> QED BY <1>1, BranchInvariantHolds, PTL

\* A division by zero ends the program with a threshold of 0 only.
THEOREM OnlyZeroTraps == BranchSpec => [](place = "trapped" => threshold = 0)
<1>1. BranchInvariant => (place = "trapped" => threshold = 0)
  BY DEF BranchInvariant
<1> QED BY <1>1, BranchInvariantHolds, PTL
=============================================================================
