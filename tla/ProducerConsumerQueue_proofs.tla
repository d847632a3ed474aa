--------------------- MODULE ProducerConsumerQueue_proofs ---------------------
(***************************************************************************)
(* Proofs about ProducerConsumerQueue for any number of producers,         *)
(* consumers, slots and items: its invariants; that the ring buffer, the   *)
(* mutex and the condition variables implement the abstract FIFO queue of  *)
(* BoundedFifo; and what follows for the items: each is delivered exactly  *)
(* once, and what run_once adds up is exact.                               *)
(***************************************************************************)
EXTENDS ProducerConsumerQueue, ProofLemmas, SequenceTheorems

(* Arithmetic of the ring.                                                  *)

\* Advancing tail after a push, and head after a pop, keeps the tail the
\* element count ahead of the head.
LEMMA RingArithmetic ==
  ASSUME NEW h \in Slots, NEW n \in 0 .. Capacity
  PROVE  /\ NextIndex(h) \in Slots
         /\ (h + n) % Capacity \in Slots
         /\ n < Capacity => NextIndex((h + n) % Capacity) = (h + (n + 1)) % Capacity
         /\ n > 0 => (NextIndex(h) + (n - 1)) % Capacity = (h + n) % Capacity
BY RingIndices, QueueAssumption DEF Slots, NextIndex

-----------------------------------------------------------------------------
(* Types and the agreement of the queue's fields.  They need each other:    *)
(* active_producers stays in range because it counts producers.             *)

\* What the parameters are, in the form the proofs use.
LEMMA Parameters ==
  /\ NumProducers \in Nat \ {0} /\ Capacity \in Nat \ {0}
  /\ ItemsPerProducer \in Nat /\ IdTags \in Nat \ {0}
  /\ Producers \cap Consumers = {} /\ Nobody \notin Threads
  /\ IsFiniteSet(Producers) /\ IsFiniteSet(Consumers)
  /\ Cardinality(Producers) = NumProducers
<1>1. IsFiniteSet(Producers) /\ Cardinality(Producers) = NumProducers
  BY QueueAssumption, FS_Interval DEF Producers
<1> QED BY <1>1, QueueAssumption

\* The value a producer pushes fits the item type.
LEMMA ValueType ==
  ASSUME NEW p \in Producers, NEW i \in 0 .. ItemsPerProducer
  PROVE  Value(p, i) \in Word
BY Parameters DEF Value, Word, Producers

\* Signals and broadcasts wake only threads that wait on that variable.
LEMMA WokenWait ==
  ASSUME NEW cv, NEW woken \in Signal(cv) \cup Broadcast(cv)
  PROVE  woken \subseteq Waiters(cv)
BY DEF Signal, Broadcast

\* A thread that moves within its own program, and wakes waiters, leaves the
\* others in theirs.
LEMMA MovePcs ==
  ASSUME PcsOK, NEW t \in Threads, NEW next, NEW cv \in {NotFull, NotEmpty},
         NEW woken, woken \subseteq Waiters(cv), Move(t, next, woken, cv),
         t \in Producers => next \in ProducerPcs,
         t \in Consumers => next \in ConsumerPcs,
         t \in Producers /\ next \in PushPcs => pc[t] \in PushPcs,
         t \in Producers /\ next \in {"finish", "done"} => pc[t] \in {"finish", "done"},
         produced' = produced
  PROVE  PcsOK'
<1> USE DEF PcsOK, Threads
<1>1. \A u \in Threads : pc'[u] = IF u = t THEN next
                                   ELSE IF u \in woken THEN Relocking(cv) ELSE pc[u]
  BY DEF Move
<1>2. \A p \in Producers : p \in woken => Relocking(cv) \in PushPcs /\ pc[p] \in PushPcs
  BY DEF Waiters, Relocking, NotFull, NotEmpty, ProducerPcs, PushPcs
<1>3. \A c \in Consumers : c \in woken => Relocking(cv) \in ConsumerPcs
  BY Parameters DEF Waiters, Relocking, NotFull, NotEmpty, ConsumerPcs
<1>4. \A p \in Producers : /\ pc'[p] \in ProducerPcs
                           /\ pc'[p] \in PushPcs => produced'[p] < ItemsPerProducer
                           /\ pc'[p] \in {"finish", "done"} =>
                                produced'[p] = ItemsPerProducer
  BY <1>1, <1>2 DEF ProducerPcs, Relocking
<1>5. \A c \in Consumers : pc'[c] \in ConsumerPcs
  BY <1>1, <1>3
<1>6. pc' = [u \in Threads |-> pc'[u]]
  BY DEF Move
<1> QED BY <1>4, <1>5, <1>6

\* The same for a thread that moves alone.
LEMMA GotoPcs ==
  ASSUME PcsOK, NEW t \in Threads, NEW next, Goto(t, next),
         t \in Producers => next \in ProducerPcs,
         t \in Consumers => next \in ConsumerPcs,
         \A p \in Producers :
           /\ p # t => produced'[p] = produced[p]
           /\ p = t /\ next \in PushPcs => produced'[p] < ItemsPerProducer
           /\ p = t /\ next \in {"finish", "done"} => produced'[p] = ItemsPerProducer
  PROVE  PcsOK'
BY DEF PcsOK, Goto, Threads

\* Taking the mutex, and sleeping on a condition variable.
LEMMA LockTypes ==
  ASSUME TypeOK, NEW t \in Threads, NEW from, NEW to, Lock(t, from, to),
         t \in Producers => to \in ProducerPcs,
         t \in Consumers => to \in ConsumerPcs,
         t \in Producers /\ to \in PushPcs => produced[t] < ItemsPerProducer,
         t \in Producers /\ to \in {"finish", "done"} => produced[t] = ItemsPerProducer
  PROVE  TypeOK'
<1>1. PcsOK'
  BY GotoPcs DEF Lock, TypeOK, statsVars
<1> QED BY <1>1 DEF Lock, TypeOK, queueVars, statsVars, mainVars

\* A thread that goes to sleep keeps the types, if the variable is its own.
LEMMA WaitTypes ==
  ASSUME TypeOK, NEW t \in Threads, NEW from, NEW cv, Wait(t, from, cv),
         t \in Producers => cv \in ProducerPcs,
         t \in Consumers => cv \in ConsumerPcs,
         t \in Producers /\ cv \in PushPcs => produced[t] < ItemsPerProducer,
         cv \notin {"finish", "done"}
  PROVE  TypeOK'
<1>1. PcsOK'
  BY GotoPcs DEF Wait, TypeOK
<1> QED BY <1>1 DEF Wait, TypeOK, queueVars, mainVars

\* Every step of a producer keeps the types.
LEMMA ProducerTypes ==
  ASSUME TypeOK, QueueConsistent, NEW p \in Producers, ProducerStep(p)
  PROVE  TypeOK'
<1> USE Parameters DEF Threads, ProducerPcs, PushPcs, NotFull, NotEmpty
<1>1. CASE PushLock(p)
  BY <1>1, LockTypes DEF PushLock
<1>2. CASE PushRelock(p)
  BY <1>2, LockTypes DEF PushRelock, Lock, TypeOK, PcsOK
<1>3. CASE PushWait(p)
  BY <1>3, WaitTypes DEF PushWait, Wait, TypeOK, PcsOK
<1>4. CASE PushItem(p)
  <2>1. PICK woken \in Signal(NotEmpty) : Move(p, "pushed", woken, NotEmpty)
    BY <1>4 DEF PushItem
  <2>2. PcsOK'
    BY <1>4, <2>1, WokenWait, MovePcs DEF PushItem, TypeOK, statsVars
  <2>3. Value(p, produced[p] + 1) \in Word
    BY <1>4, ValueType DEF PushItem, TypeOK, PcsOK
  <2>4. tail' \in Slots
    BY <1>4, RingArithmetic DEF PushItem, TypeOK
  <2> QED BY <1>4, <2>2, <2>3, <2>4 DEF PushItem, TypeOK, IsFull, statsVars, mainVars
<1>5. CASE CountProduced(p)
  <2>1. produced' = [produced EXCEPT ![p] = @ + 1] /\ Goto(p, "produce")
    BY <1>5 DEF CountProduced
  <2>2. produced' \in [Producers -> 0 .. ItemsPerProducer]
    <3>1. produced[p] + 1 \in 0 .. ItemsPerProducer
      BY <1>5 DEF CountProduced, TypeOK, PcsOK
    <3> QED BY <2>1, <3>1 DEF TypeOK
  <2>3. \A q \in Producers : q # p => produced'[q] = produced[q]
    BY <2>1 DEF TypeOK
  <2>4. PcsOK'
    <3>1. p \notin Consumers /\ "produce" \notin PushPcs /\ "produce" \in ProducerPcs
      OBVIOUS
    <3>2. PcsOK /\ Goto(p, "produce")
      BY <2>1 DEF TypeOK
    <3> HIDE DEF PushPcs, ProducerPcs
    <3> QED BY <2>3, <3>1, <3>2, GotoPcs
  <2> QED BY <1>5, <2>2, <2>4 DEF CountProduced, TypeOK, queueVars, mainVars
<1>6. CASE FinishLock(p)
  BY <1>6, LockTypes DEF FinishLock
<1>7. CASE ProducerFinished(p)
  <2>1. PcsOK'
    BY <1>7, WokenWait, MovePcs DEF ProducerFinished, TypeOK, Broadcast, statsVars
  <2>2. active_producers > 0
    <3>1. p \in Unfinished
      BY <1>7 DEF ProducerFinished, Unfinished
    <3> QED BY <3>1, FS_Subset, FS_EmptySet, FS_CardinalityType DEF QueueConsistent, Unfinished
  <2> QED BY <1>7, <2>1, <2>2 DEF ProducerFinished, TypeOK, statsVars, mainVars
<1> QED BY <1>1, <1>2, <1>3, <1>4, <1>5, <1>6, <1>7 DEF ProducerStep

\* Every step of a consumer keeps the types.
LEMMA ConsumerTypes ==
  ASSUME TypeOK, QueueConsistent, NEW c \in Consumers, ConsumerStep(c)
  PROVE  TypeOK'
<1> USE Parameters DEF Threads, ConsumerPcs, NotFull, NotEmpty
<1>1. CASE PopLock(c)
  BY <1>1, LockTypes DEF PopLock
<1>2. CASE PopRelock(c)
  BY <1>2, LockTypes DEF PopRelock
<1>3. CASE PopWait(c)
  BY <1>3, WaitTypes DEF PopWait
<1>4. CASE PopItem(c)
  <2>1. PICK woken \in Signal(NotFull) : Move(c, "consume", woken, NotFull)
    BY <1>4 DEF PopItem
  <2>2. PcsOK'
    BY <1>4, <2>1, WokenWait, MovePcs DEF PopItem, TypeOK
  <2>3. head' \in Slots
    BY <1>4, RingArithmetic DEF PopItem, TypeOK
  <2>4. count' \in 0 .. Capacity
    BY <1>4 DEF PopItem, TypeOK, MustWait, NoMoreWork
  <2>5. item' \in [Consumers -> Word]
    BY <1>4 DEF PopItem, TypeOK, PopSlot
  <2> QED BY <1>4, <2>2, <2>3, <2>4, <2>5 DEF PopItem, TypeOK, mainVars
<1>5. CASE CountConsumed(c)
  <2>0. c \notin Producers
    OBVIOUS
  <2>1. PcsOK'
    <3>1. PcsOK /\ Goto(c, "fetch") /\ produced' = produced
      BY <1>5 DEF CountConsumed, TypeOK
    <3>2. "fetch" \in ConsumerPcs
      OBVIOUS
    <3> HIDE DEF ConsumerPcs
    <3> QED BY <2>0, <3>1, <3>2, GotoPcs
  <2>2. Append(delivered[c], item[c]) \in Seq(Word)
    BY DEF TypeOK
  <2> QED BY <1>5, <2>1, <2>2 DEF CountConsumed, TypeOK, queueVars, mainVars
<1>6. CASE PopEnd(c)
  <2>0. c \notin Producers
    OBVIOUS
  <2>1. PcsOK'
    <3>1. PcsOK /\ Goto(c, "done") /\ produced' = produced
      BY <1>6 DEF PopEnd, TypeOK, statsVars
    <3>2. "done" \in ConsumerPcs
      OBVIOUS
    <3> HIDE DEF ConsumerPcs
    <3> QED BY <2>0, <3>1, <3>2, GotoPcs
  <2> QED BY <1>6, <2>1 DEF PopEnd, TypeOK, queueVars, statsVars, mainVars
<1> QED BY <1>1, <1>2, <1>3, <1>4, <1>5, <1>6 DEF ConsumerStep

\* TypeOK is inductive relative to QueueConsistent.
LEMMA TypeStep == TypeOK /\ QueueConsistent /\ [Next]_vars => TypeOK'
<1> SUFFICES ASSUME TypeOK, QueueConsistent, [Next]_vars PROVE TypeOK'
  OBVIOUS
<1>1. ASSUME NEW t \in Threads, SpuriousWakeup(t) PROVE TypeOK'
  <2>1. PcsOK'
    <3> DEFINE next == Relocking(pc[t])
    <3>1. /\ PcsOK /\ produced' = produced
          /\ Goto(t, next) /\ pc[t] \in {NotFull, NotEmpty}
      BY <1>1 DEF SpuriousWakeup, TypeOK, statsVars
    <3>2. t \in Producers => pc[t] = NotFull
      BY <3>1 DEF PcsOK, ProducerPcs, PushPcs, NotFull, NotEmpty
    <3>3. t \in Producers => /\ next = "push_relock" /\ next \in ProducerPcs
                             /\ next \notin {"finish", "done"}
                             /\ produced[t] < ItemsPerProducer
      BY <3>1, <3>2 DEF PcsOK, Relocking, ProducerPcs, PushPcs
    <3>4. t \in Consumers => pc[t] = NotEmpty
      BY <3>1 DEF PcsOK, ConsumerPcs, NotFull, NotEmpty
    <3>5. t \in Consumers => next \in ConsumerPcs
      BY <3>4 DEF Relocking, ConsumerPcs, NotFull, NotEmpty
    <3> HIDE DEF next
    <3> QED BY <3>1, <3>3, <3>5, GotoPcs
  <2> QED BY <1>1, <2>1 DEF SpuriousWakeup, TypeOK, queueVars, statsVars, mainVars
<1>2. CASE JoinProducers
  BY <1>2 DEF JoinProducers, TypeOK, PcsOK, queueVars, statsVars
<1>3. CASE Report
  BY <1>3 DEF Report, TypeOK, PcsOK, queueVars, statsVars
<1>4. CASE UNCHANGED vars
  BY <1>4 DEF vars, TypeOK, PcsOK, queueVars, statsVars, mainVars
<1> QED BY <1>1, <1>2, <1>3, <1>4, ProducerTypes, ConsumerTypes DEF Next, Terminated

\* A producer that moves between two pc's short of "done", alone or waking
\* waiters, stays unfinished, and so do the others.
LEMMA SameUnfinished ==
  ASSUME TypeOK, NEW t \in Threads, NEW next,
         \/ Goto(t, next)
         \/ \E cv \in {NotFull, NotEmpty}, woken \in SUBSET Threads :
              woken \subseteq Waiters(cv) /\ Move(t, next, woken, cv),
         t \in Producers => pc[t] # "done" /\ next # "done"
  PROVE  Unfinished' = Unfinished
<1>1. CASE Goto(t, next)
  BY <1>1 DEF Goto, Unfinished, TypeOK, PcsOK, Threads
<1>2. ASSUME NEW cv \in {NotFull, NotEmpty}, NEW woken,
             woken \subseteq Waiters(cv), Move(t, next, woken, cv)
      PROVE  Unfinished' = Unfinished
  <2>1. \A p \in Producers : pc'[p] # "done" <=> pc[p] # "done"
    BY <1>2 DEF Move, Waiters, Relocking, NotFull, NotEmpty, Threads
  <2> QED BY <2>1 DEF Unfinished
<1> QED BY <1>1, <1>2

\* The queue fields stay in agreement: each critical section updates all of
\* those it must.
LEMMA ConsistentStep ==
  TypeOK /\ QueueConsistent /\ [Next]_vars => QueueConsistent'
<1> SUFFICES ASSUME TypeOK, QueueConsistent, [Next]_vars PROVE QueueConsistent'
  OBVIOUS
<1> USE Parameters DEF Threads
<1>a. ASSUME UNCHANGED queueVars, Unfinished' = Unfinished PROVE QueueConsistent'
  BY <1>a DEF queueVars, QueueConsistent
<1>l. ASSUME NEW t \in Threads, NEW from, NEW to, Lock(t, from, to),
             t \in Producers => from # "done" /\ to # "done"
      PROVE  QueueConsistent'
  BY <1>a, <1>l, SameUnfinished DEF Lock
<1>w. ASSUME NEW t \in Threads, NEW from, NEW cv, Wait(t, from, cv),
             t \in Producers => from # "done" /\ cv # "done"
      PROVE  QueueConsistent'
  BY <1>a, <1>w, SameUnfinished DEF Wait
<1>1. ASSUME NEW p \in Producers, ProducerStep(p) PROVE QueueConsistent'
  <2>1. CASE PushLock(p) \/ PushRelock(p) \/ FinishLock(p)
    BY <1>l, <2>1 DEF PushLock, PushRelock, FinishLock
  <2>2. CASE PushWait(p)
    BY <1>w, <2>2 DEF PushWait, NotFull
  <2>3. CASE PushItem(p)
    <3>1. PICK woken \in Signal(NotEmpty) : Move(p, "pushed", woken, NotEmpty)
      BY <2>3 DEF PushItem
    <3>2. Unfinished' = Unfinished
      BY <2>3, <3>1, WokenWait, SameUnfinished DEF PushItem, Waiters
    <3>3. tail' = (head' + count') % Capacity
      <4>1. tail' = NextIndex((head + count) % Capacity)
        BY <2>3 DEF PushItem, QueueConsistent
      <4>2. count < Capacity
        BY <2>3 DEF PushItem, TypeOK, IsFull
      <4>3. head' + count' = head + (count + 1)
        BY <2>3 DEF PushItem
      <4>4. NextIndex((head + count) % Capacity) = (head + (count + 1)) % Capacity
        BY <4>2, RingArithmetic DEF TypeOK
      <4> QED BY <4>1, <4>3, <4>4
    <3> QED BY <2>3, <3>2, <3>3 DEF PushItem, QueueConsistent, TypeOK
  <2>4. CASE CountProduced(p)
    BY <1>a, <2>4, SameUnfinished DEF CountProduced
  <2>5. CASE ProducerFinished(p)
    <3>1. Unfinished' = Unfinished \ {p}
      BY <2>5 DEF ProducerFinished, Move, Broadcast, Waiters, Relocking, Unfinished,
                  NotFull, NotEmpty
    <3>2. Cardinality(Unfinished \ {p}) = Cardinality(Unfinished) - 1
      <4>1. IsFiniteSet(Unfinished)
        BY FS_Subset DEF Unfinished
      <4>2. p \in Unfinished
        BY <2>5 DEF ProducerFinished, Unfinished
      <4> QED BY <4>1, <4>2, FS_RemoveElement
    <3> QED BY <2>5, <3>1, <3>2 DEF ProducerFinished, QueueConsistent
  <2> QED BY <1>1, <2>1, <2>2, <2>3, <2>4, <2>5 DEF ProducerStep
<1>2. ASSUME NEW c \in Consumers, ConsumerStep(c) PROVE QueueConsistent'
  <2>0. c \notin Producers
    OBVIOUS
  <2>1. CASE PopLock(c) \/ PopRelock(c)
    BY <1>l, <2>0, <2>1 DEF PopLock, PopRelock
  <2>2. CASE PopWait(c)
    BY <1>w, <2>0, <2>2 DEF PopWait
  <2>3. CASE PopItem(c)
    <3>1. PICK woken \in Signal(NotFull) : Move(c, "consume", woken, NotFull)
      BY <2>3 DEF PopItem
    <3>2. Unfinished' = Unfinished
      BY <2>0, <3>1, WokenWait, SameUnfinished DEF Waiters
    <3>3. count > 0
      BY <2>3 DEF PopItem, TypeOK, MustWait, NoMoreWork
    <3>4. tail' = (head' + count') % Capacity
      BY <2>3, <3>3, RingArithmetic DEF PopItem, TypeOK, QueueConsistent
    <3>5. count' <= max_observed_count'
      BY <2>3, <3>3 DEF PopItem, QueueConsistent, TypeOK
    <3> QED BY <2>3, <3>2, <3>4, <3>5 DEF PopItem, QueueConsistent
  <2>4. CASE CountConsumed(c)
    BY <1>a, <2>0, <2>4, SameUnfinished DEF CountConsumed
  <2>5. CASE PopEnd(c)
    BY <1>a, <2>0, <2>5, SameUnfinished DEF PopEnd
  <2> QED BY <1>2, <2>1, <2>2, <2>3, <2>4, <2>5 DEF ConsumerStep
<1>3. ASSUME NEW t \in Threads, SpuriousWakeup(t) PROVE QueueConsistent'
  BY <1>a, <1>3, SameUnfinished DEF SpuriousWakeup, Relocking, NotFull, NotEmpty
<1>4. CASE JoinProducers \/ Report \/ UNCHANGED vars
  BY <1>a, <1>4 DEF JoinProducers, Report, vars, Unfinished
<1> QED BY <1>1, <1>2, <1>3, <1>4 DEF Next, Terminated

-----------------------------------------------------------------------------
(* Mutual exclusion.                                                        *)

\* A thread that leaves the critical section, releasing the mutex, while the
\* others stay out of it.
LEMMA LeaveCritical ==
  ASSUME MutualExclusion, NEW t \in Threads, pc[t] \in Critical,
         mutex' = Nobody, pc'[t] \notin Critical,
         \A u \in Threads : u # t => pc'[u] = pc[u] \/ pc'[u] \notin Critical
  PROVE  MutualExclusion'
BY Parameters DEF MutualExclusion

\* The owner leaves the critical section, alone or waking waiters.
LEMMA MoveOut ==
  ASSUME TypeOK, MutualExclusion, NEW t \in Threads, pc[t] \in Critical,
         NEW next, next \notin Critical, NEW cv, NEW woken, Move(t, next, woken, cv),
         mutex' = Nobody
  PROVE  MutualExclusion'
<1>1. Relocking(cv) \notin Critical
  BY DEF Relocking, Critical
<1> QED BY <1>1, LeaveCritical DEF Move

\* MutualExclusion is inductive.
LEMMA ExclusionStep ==
  TypeOK /\ MutualExclusion /\ [Next]_vars => MutualExclusion'
<1> SUFFICES ASSUME TypeOK, MutualExclusion, [Next]_vars PROVE MutualExclusion'
  OBVIOUS
<1> USE Parameters DEF Threads
<1>l. ASSUME NEW t \in Threads, NEW from, NEW to \in Critical, Lock(t, from, to)
      PROVE  MutualExclusion'
  <2>1. \A u \in Threads : pc[u] \notin Critical
    BY <1>l DEF MutualExclusion, Lock, MutexFree
  <2> QED BY <1>l, <2>1 DEF MutualExclusion, Lock, Goto, TypeOK, PcsOK
<1>w. ASSUME NEW t \in Threads, NEW from \in Critical, NEW cv \in {NotFull, NotEmpty},
             Wait(t, from, cv)
      PROVE  MutualExclusion'
  BY <1>w, LeaveCritical DEF Wait, Goto, TypeOK, PcsOK, Critical, NotFull, NotEmpty
<1>g. ASSUME NEW t \in Threads, NEW next, Goto(t, next), UNCHANGED mutex,
             pc[t] \notin Critical, next \notin Critical
      PROVE  MutualExclusion'
  BY <1>g DEF MutualExclusion, Goto, TypeOK, PcsOK
<1>1. ASSUME NEW p \in Producers, ProducerStep(p) PROVE MutualExclusion'
  <2>1. CASE PushLock(p) \/ PushRelock(p) \/ FinishLock(p)
    BY <1>l, <2>1 DEF PushLock, PushRelock, FinishLock, Critical
  <2>2. CASE PushWait(p)
    BY <1>w, <2>2 DEF PushWait, Critical
  <2>3. CASE PushItem(p)
    BY <2>3, MoveOut DEF PushItem, Critical
  <2>4. CASE CountProduced(p)
    BY <1>g, <2>4 DEF CountProduced, Critical
  <2>5. CASE ProducerFinished(p)
    BY <2>5, MoveOut DEF ProducerFinished, Critical
  <2> QED BY <1>1, <2>1, <2>2, <2>3, <2>4, <2>5 DEF ProducerStep
<1>2. ASSUME NEW c \in Consumers, ConsumerStep(c) PROVE MutualExclusion'
  <2>1. CASE PopLock(c) \/ PopRelock(c)
    BY <1>l, <2>1 DEF PopLock, PopRelock, Critical
  <2>2. CASE PopWait(c)
    BY <1>w, <2>2 DEF PopWait, Critical
  <2>3. CASE PopItem(c)
    BY <2>3, MoveOut DEF PopItem, Critical
  <2>4. CASE CountConsumed(c)
    BY <1>g, <2>4 DEF CountConsumed, Critical
  <2>5. CASE PopEnd(c)
    BY <2>5, LeaveCritical DEF PopEnd, Goto, TypeOK, PcsOK, Critical
  <2> QED BY <1>2, <2>1, <2>2, <2>3, <2>4, <2>5 DEF ConsumerStep
<1>3. ASSUME NEW t \in Threads, SpuriousWakeup(t) PROVE MutualExclusion'
  BY <1>3, <1>g DEF SpuriousWakeup, Relocking, Critical, NotFull, NotEmpty
<1>4. CASE JoinProducers \/ Report \/ UNCHANGED vars
  BY <1>4 DEF JoinProducers, Report, vars, MutualExclusion
<1> QED BY <1>1, <1>2, <1>3, <1>4 DEF Next, Terminated

-----------------------------------------------------------------------------
(* No wakeup is lost.  The two halves of NoLostWakeup, one for each         *)
(* condition variable, are preserved separately.                            *)

PopperSide ==
  (\E c \in Consumers : pc[c] = NotEmpty) =>
    count <= Cardinality(PoppersComing) /\ active_producers > 0
PusherSide ==
  (\E p \in Producers : pc[p] = NotFull) =>
    Capacity <= count + Cardinality(PushersComing)

\* A step that leaves the counters alone, puts no consumer to sleep and
\* takes none off its way to the queue.
LEMMA PopperSideKept ==
  ASSUME PopperSide, count' = count, count \in Nat, active_producers' = active_producers,
         \A c \in Consumers : /\ pc[c] \in {"pop", "pop_relock"} =>
                                   pc'[c] \in {"pop", "pop_relock"}
                              /\ pc'[c] = NotEmpty => pc[c] = NotEmpty
  PROVE  PopperSide'
<1>1. PoppersComing \subseteq PoppersComing' /\ PoppersComing' \subseteq Consumers
  BY DEF PoppersComing
<1>2. /\ Cardinality(PoppersComing) \in Nat /\ Cardinality(PoppersComing') \in Nat
      /\ Cardinality(PoppersComing) <= Cardinality(PoppersComing')
  BY <1>1, Parameters, FS_Subset, FS_CardinalityType
<1> QED BY <1>2 DEF PopperSide

\* The same for the producers.
LEMMA PusherSideKept ==
  ASSUME PusherSide, count' = count, count \in Nat,
         \A p \in Producers : /\ pc[p] \in {"push", "push_relock"} =>
                                   pc'[p] \in {"push", "push_relock"}
                              /\ pc'[p] = NotFull => pc[p] = NotFull
  PROVE  PusherSide'
<1>1. PushersComing \subseteq PushersComing' /\ PushersComing' \subseteq Producers
  BY DEF PushersComing
<1>2. /\ Cardinality(PushersComing) \in Nat /\ Cardinality(PushersComing') \in Nat
      /\ Cardinality(PushersComing) <= Cardinality(PushersComing')
  BY <1>1, Parameters, FS_Subset, FS_CardinalityType
<1> QED BY <1>2, Parameters DEF PusherSide

\* The signal of a push brings a consumer for the item it adds.
LEMMA PushWakesPopper ==
  ASSUME TypeOK, PopperSide, NEW p \in Producers, PushItem(p)
  PROVE  PopperSide'
<1> USE Parameters DEF Threads, TypeOK, PcsOK
<1>1. PICK woken \in Signal(NotEmpty) : Move(p, "pushed", woken, NotEmpty)
  BY DEF PushItem
<1>2. \A c \in Consumers : pc'[c] = IF c \in woken THEN "pop_relock" ELSE pc[c]
  BY <1>1 DEF Move, Relocking, NotFull, NotEmpty
<1>3. CASE Waiters(NotEmpty) = {}
  BY <1>1, <1>2, <1>3 DEF Signal, Waiters, PopperSide, NotEmpty
<1>4. CASE Waiters(NotEmpty) # {}
  <2>1. PICK t \in Waiters(NotEmpty) : woken = {t}
    BY <1>1, <1>4 DEF Signal
  <2>2. t \in Consumers /\ pc[t] = NotEmpty
    BY DEF Waiters, ProducerPcs, PushPcs, NotEmpty, NotFull
  <2>3. PoppersComing' = PoppersComing \cup {t} /\ t \notin PoppersComing
    BY <1>2, <2>1, <2>2 DEF PoppersComing, NotEmpty
  <2>4. IsFiniteSet(PoppersComing)
    BY FS_Subset DEF PoppersComing
  <2>5. Cardinality(PoppersComing') = Cardinality(PoppersComing) + 1
    BY <2>3, <2>4, FS_AddElement
  <2>6. count <= Cardinality(PoppersComing) /\ active_producers > 0
    BY <2>2 DEF PopperSide
  <2>7. Cardinality(PoppersComing) \in Nat
    BY <2>4, FS_CardinalityType
  <2> QED BY <2>5, <2>6, <2>7 DEF PopperSide, PushItem
<1> QED BY <1>3, <1>4

\* The signal of a pop brings a producer for the slot it frees.
LEMMA PopWakesPusher ==
  ASSUME TypeOK, PusherSide, NEW c \in Consumers, PopItem(c)
  PROVE  PusherSide'
<1> USE Parameters DEF Threads, TypeOK, PcsOK
<1>1. PICK woken \in Signal(NotFull) : Move(c, "consume", woken, NotFull)
  BY DEF PopItem
<1>2. \A p \in Producers : pc'[p] = IF p \in woken THEN "push_relock" ELSE pc[p]
  BY <1>1 DEF Move, Relocking, NotFull, NotEmpty
<1>3. CASE Waiters(NotFull) = {}
  BY <1>1, <1>2, <1>3 DEF Signal, Waiters, PusherSide, NotFull
<1>4. CASE Waiters(NotFull) # {}
  <2>1. PICK t \in Waiters(NotFull) : woken = {t}
    BY <1>1, <1>4 DEF Signal
  <2>2. t \in Producers /\ pc[t] = NotFull
    BY DEF Waiters, ConsumerPcs, NotEmpty, NotFull
  <2>3. PushersComing' = PushersComing \cup {t} /\ t \notin PushersComing
    BY <1>2, <2>1, <2>2 DEF PushersComing, NotFull
  <2>4. IsFiniteSet(PushersComing)
    BY FS_Subset DEF PushersComing
  <2>5. Cardinality(PushersComing') = Cardinality(PushersComing) + 1
    BY <2>3, <2>4, FS_AddElement
  <2>6. Capacity <= count + Cardinality(PushersComing)
    BY <2>2 DEF PusherSide
  <2>7. Cardinality(PushersComing) \in Nat
    BY <2>4, FS_CardinalityType
  <2>8. count' = count - 1 /\ count \in Nat
    BY DEF PopItem
  <2> QED BY <2>5, <2>6, <2>7, <2>8 DEF PusherSide
<1> QED BY <1>3, <1>4

\* A pop takes one item and one consumer on its way to the queue; a push takes
\* one slot and one producer.
LEMMA PopKeepsPoppers ==
  ASSUME TypeOK, PopperSide, NEW c \in Consumers, PopItem(c)
  PROVE  PopperSide'
<1> USE Parameters DEF Threads, TypeOK, PcsOK
<1>1. PICK woken \in Signal(NotFull) : Move(c, "consume", woken, NotFull)
  BY DEF PopItem
<1>2. \A d \in Consumers : d \notin woken
  <2>1. woken \subseteq Waiters(NotFull)
    BY <1>1, WokenWait
  <2>2. \A d \in Consumers : pc[d] # NotFull
    BY DEF ConsumerPcs, NotFull, NotEmpty
  <2> QED BY <2>1, <2>2 DEF Waiters
<1>3. \A d \in Consumers : pc'[d] = IF d = c THEN "consume" ELSE pc[d]
  BY <1>1, <1>2 DEF Move
<1>4. PoppersComing' = PoppersComing \ {c} /\ c \in PoppersComing
  BY <1>3 DEF PoppersComing, PopItem
<1>5. IsFiniteSet(PoppersComing)
  BY FS_Subset DEF PoppersComing
<1>6. /\ Cardinality(PoppersComing') = Cardinality(PoppersComing) - 1
      /\ Cardinality(PoppersComing) \in Nat
  BY <1>4, <1>5, FS_RemoveElement, FS_CardinalityType
<1>7. (\E d \in Consumers : pc'[d] = NotEmpty) => \E d \in Consumers : pc[d] = NotEmpty
  BY <1>3 DEF NotEmpty
<1>8. count' = count - 1 /\ count \in Nat /\ active_producers' = active_producers
  BY DEF PopItem
<1> QED BY <1>6, <1>7, <1>8 DEF PopperSide

\* A push takes one slot and one producer on its way to the queue.
LEMMA PushKeepsPushers ==
  ASSUME TypeOK, PusherSide, NEW p \in Producers, PushItem(p)
  PROVE  PusherSide'
<1> USE Parameters DEF Threads, TypeOK, PcsOK
<1>1. PICK woken \in Signal(NotEmpty) : Move(p, "pushed", woken, NotEmpty)
  BY DEF PushItem
<1>2. \A q \in Producers : q \notin woken
  <2>1. woken \subseteq Waiters(NotEmpty)
    BY <1>1, WokenWait
  <2>2. \A q \in Producers : pc[q] # NotEmpty
    BY DEF ProducerPcs, PushPcs, NotFull, NotEmpty
  <2> QED BY <2>1, <2>2 DEF Waiters
<1>3. \A q \in Producers : pc'[q] = IF q = p THEN "pushed" ELSE pc[q]
  BY <1>1, <1>2 DEF Move
<1>4. PushersComing' = PushersComing \ {p} /\ p \in PushersComing
  BY <1>3 DEF PushersComing, PushItem
<1>5. IsFiniteSet(PushersComing)
  BY FS_Subset DEF PushersComing
<1>6. /\ Cardinality(PushersComing') = Cardinality(PushersComing) - 1
      /\ Cardinality(PushersComing) \in Nat
  BY <1>4, <1>5, FS_RemoveElement, FS_CardinalityType
<1>7. (\E q \in Producers : pc'[q] = NotFull) => \E q \in Producers : pc[q] = NotFull
  BY <1>3 DEF NotFull
<1>8. count' = count + 1 /\ count \in Nat
  BY DEF PushItem
<1> QED BY <1>6, <1>7, <1>8 DEF PusherSide

\* NoLostWakeup is inductive: each signal pays for the item or the slot it
\* announces, and a broadcast leaves no consumer asleep.
LEMMA WakeupStep == TypeOK /\ NoLostWakeup /\ [Next]_vars => NoLostWakeup'
<1> SUFFICES ASSUME TypeOK, PopperSide, PusherSide, [Next]_vars
             PROVE  PopperSide' /\ PusherSide'
  BY DEF NoLostWakeup, PopperSide, PusherSide
<1> USE Parameters DEF Threads
<1>0. /\ count \in Nat /\ pc \in [Threads -> ProducerPcs \cup ConsumerPcs]
      /\ \A p \in Producers : pc[p] # NotEmpty
      /\ \A c \in Consumers : pc[c] # NotFull
  <2>1. PcsOK /\ count \in Nat
    BY DEF TypeOK
  <2>2. \A p \in Producers : pc[p] # NotEmpty
    BY <2>1 DEF PcsOK, ProducerPcs, PushPcs, NotFull, NotEmpty
  <2>3. \A c \in Consumers : pc[c] # NotFull
    BY <2>1 DEF PcsOK, ConsumerPcs, NotFull, NotEmpty
  <2> QED BY <2>1, <2>2, <2>3 DEF PcsOK
<1>g. ASSUME NEW t \in Threads, NEW next, Goto(t, next), UNCHANGED queueVars,
             next \notin {NotFull, NotEmpty},
             pc[t] \in {"pop", "pop_relock"} => next \in {"pop", "pop_relock"},
             pc[t] \in {"push", "push_relock"} => next \in {"push", "push_relock"}
      PROVE  PopperSide' /\ PusherSide'
  <2>1. \A u \in Threads : pc'[u] = IF u = t THEN next ELSE pc[u]
    BY <1>0, <1>g DEF Goto
  <2>2. PopperSide'
    BY <1>0, <1>g, <2>1, PopperSideKept DEF queueVars
  <2>3. PusherSide'
    BY <1>0, <1>g, <2>1, PusherSideKept DEF queueVars
  <2> QED BY <2>2, <2>3
<1>1. ASSUME NEW p \in Producers, ProducerStep(p) PROVE PopperSide' /\ PusherSide'
  <2>1. CASE PushLock(p) \/ PushRelock(p) \/ FinishLock(p)
    BY <1>g, <2>1 DEF PushLock, PushRelock, FinishLock, Lock, NotFull, NotEmpty
  <2>2. CASE PushWait(p)
    <3>1. \A c \in Consumers : pc'[c] = pc[c]
      BY <1>0, <2>2 DEF PushWait, Wait, Goto
    <3>2. PopperSide'
      BY <1>0, <2>2, <3>1, PopperSideKept DEF PushWait, Wait, queueVars
    <3>3. Cardinality(PushersComing') \in Nat
      BY FS_Subset, FS_CardinalityType DEF PushersComing
    <3>4. count' = Capacity
      BY <2>2 DEF PushWait, IsFull, Wait, queueVars
    <3> QED BY <3>2, <3>3, <3>4 DEF PusherSide
  <2>3. CASE PushItem(p)
    BY <2>3, PushWakesPopper, PushKeepsPushers
  <2>4. CASE CountProduced(p)
    BY <1>g, <2>4 DEF CountProduced, NotFull, NotEmpty
  <2>5. CASE ProducerFinished(p)
    <3>1. Move(p, "done", Waiters(NotEmpty), NotEmpty)
      BY <2>5 DEF ProducerFinished, Broadcast
    <3>2. \A c \in Consumers : pc'[c] # NotEmpty
      BY <3>1 DEF Move, Waiters, Relocking, NotFull, NotEmpty
    <3>3. \A q \in Producers : pc'[q] = IF q = p THEN "done" ELSE pc[q]
      BY <1>0, <3>1 DEF Move, Waiters
    <3>4. PusherSide'
      BY <1>0, <2>5, <3>3, PusherSideKept DEF ProducerFinished, NotFull
    <3> QED BY <3>2, <3>4 DEF PopperSide
  <2> QED BY <1>1, <2>1, <2>2, <2>3, <2>4, <2>5 DEF ProducerStep
<1>2. ASSUME NEW c \in Consumers, ConsumerStep(c) PROVE PopperSide' /\ PusherSide'
  <2>1. CASE PopLock(c) \/ PopRelock(c)
    BY <1>g, <2>1 DEF PopLock, PopRelock, Lock, NotFull, NotEmpty
  <2>2. CASE PopWait(c)
    <3>1. \A p \in Producers : pc'[p] = pc[p]
      BY <1>0, <2>2 DEF PopWait, Wait, Goto
    <3>2. PusherSide'
      BY <1>0, <2>2, <3>1, PusherSideKept DEF PopWait, Wait, queueVars
    <3>3. Cardinality(PoppersComing') \in Nat
      BY FS_Subset, FS_CardinalityType DEF PoppersComing
    <3>4. count' = 0 /\ active_producers' > 0
      BY <2>2 DEF PopWait, MustWait, Wait, queueVars
    <3> QED BY <3>2, <3>3, <3>4 DEF PopperSide
  <2>3. CASE PopItem(c)
    BY <2>3, PopWakesPusher, PopKeepsPoppers
  <2>4. CASE CountConsumed(c)
    BY <1>g, <2>4 DEF CountConsumed, NotFull, NotEmpty
  <2>5. CASE PopEnd(c)
    <3>1. \A u \in Threads : pc'[u] = IF u = c THEN "done" ELSE pc[u]
      BY <1>0, <2>5 DEF PopEnd, Goto
    <3>2. \A d \in Consumers : pc'[d] # NotEmpty
      BY <2>5, <3>1 DEF PopEnd, NoMoreWork, PopperSide, NotEmpty
    <3>3. PusherSide'
      BY <1>0, <2>5, <3>1, PusherSideKept DEF PopEnd, queueVars
    <3> QED BY <3>2, <3>3 DEF PopperSide
  <2> QED BY <1>2, <2>1, <2>2, <2>3, <2>4, <2>5 DEF ConsumerStep
<1>3. ASSUME NEW t \in Threads, SpuriousWakeup(t) PROVE PopperSide' /\ PusherSide'
  BY <1>3, <1>g DEF SpuriousWakeup, Relocking, NotFull, NotEmpty
<1>4. CASE JoinProducers \/ Report \/ UNCHANGED vars
  BY <1>4 DEF JoinProducers, Report, vars, queueVars, PopperSide, PusherSide,
              PoppersComing, PushersComing
<1> QED BY <1>1, <1>2, <1>3, <1>4 DEF Next, Terminated

-----------------------------------------------------------------------------
(* A consumer leaves only a drained and closed queue.                       *)

Drained == count = 0 /\ active_producers = 0 /\ Finished(Producers)

\* A queue found drained and closed stays so.
LEMMA DrainedStep ==
  TypeOK /\ QueueConsistent /\ DrainedBeforeExit /\ [Next]_vars => DrainedBeforeExit'
<1> SUFFICES ASSUME TypeOK, QueueConsistent, DrainedBeforeExit, [Next]_vars,
                    NEW d \in Consumers, pc'[d] = "done"
             PROVE  Drained'
  BY DEF DrainedBeforeExit, Drained
<1> USE Parameters DEF Threads
<1>1. CASE pc[d] = "done"
  <2>0. Drained
    BY <1>1 DEF DrainedBeforeExit, Drained
  <2> USE <2>0 DEF Drained, Finished
  <2>1. ASSUME NEW p \in Producers, ProducerStep(p) PROVE FALSE
    BY <2>1 DEF ProducerStep, PushLock, PushRelock, PushWait, PushItem, CountProduced,
                FinishLock, ProducerFinished, Lock, Wait
  <2>2. ASSUME NEW c \in Consumers, ConsumerStep(c) PROVE Drained'
    <3>1. CASE PopLock(c) \/ PopRelock(c)
      BY <3>1 DEF PopLock, PopRelock, Lock, Goto, queueVars, TypeOK, PcsOK
    <3>2. CASE PopWait(c) \/ PopItem(c)
      BY <3>2 DEF PopWait, PopItem, MustWait, NoMoreWork
    <3>3. CASE CountConsumed(c) \/ PopEnd(c)
      BY <3>3 DEF CountConsumed, PopEnd, Goto, queueVars, TypeOK, PcsOK
    <3> QED BY <2>2, <3>1, <3>2, <3>3 DEF ConsumerStep
  <2>3. ASSUME NEW t \in Threads, SpuriousWakeup(t) PROVE Drained'
    BY <2>3 DEF SpuriousWakeup, Goto, queueVars, TypeOK, PcsOK, NotFull, NotEmpty
  <2>4. CASE JoinProducers \/ Report \/ UNCHANGED vars
    BY <2>4 DEF JoinProducers, Report, vars, queueVars
  <2> QED BY <2>1, <2>2, <2>3, <2>4 DEF Next, Terminated
<1>2. CASE pc[d] # "done"
  <2>1. PopEnd(d)
    <3>1. ASSUME NEW p \in Producers, ProducerStep(p) PROVE FALSE
      BY <1>2, <3>1 DEF ProducerStep, PushLock, PushRelock, PushWait, PushItem,
           CountProduced, FinishLock, ProducerFinished, Lock, Wait, Goto, Move, Relocking,
           NotFull, NotEmpty, TypeOK, PcsOK
    <3>2. ASSUME NEW c \in Consumers, ConsumerStep(c) PROVE PopEnd(d)
      BY <1>2, <3>2 DEF ConsumerStep, PopLock, PopRelock, PopWait, PopItem, CountConsumed,
           PopEnd, Lock, Wait, Goto, Move, Relocking, NotFull, NotEmpty, TypeOK, PcsOK
    <3>3. ASSUME NEW t \in Threads, SpuriousWakeup(t) PROVE FALSE
      BY <1>2, <3>3 DEF SpuriousWakeup, Goto, Relocking, TypeOK, PcsOK
    <3>4. CASE JoinProducers \/ Report \/ UNCHANGED vars
      BY <1>2, <3>4 DEF JoinProducers, Report, vars
    <3> QED BY <3>1, <3>2, <3>3, <3>4 DEF Next, Terminated
  <2>2. count = 0 /\ active_producers = 0
    BY <2>1 DEF PopEnd, NoMoreWork
  <2>3. Unfinished = {}
    BY <2>2, FS_Subset, FS_EmptySet DEF QueueConsistent, Unfinished
  <2>4. Finished(Producers)
    BY <2>3 DEF Finished, Unfinished
  <2> QED BY <2>1, <2>2, <2>4 DEF PopEnd, Drained, Finished, Goto, queueVars, TypeOK, PcsOK
<1> QED BY <1>1, <1>2

-----------------------------------------------------------------------------
(* The theorems.                                                            *)

\* queue_init establishes all of it.
LEMMA InitHolds ==
  Init => TypeOK /\ QueueConsistent /\ MutualExclusion /\ NoLostWakeup /\ DrainedBeforeExit
<1> SUFFICES ASSUME Init
             PROVE  TypeOK /\ QueueConsistent /\ MutualExclusion /\ NoLostWakeup
                    /\ DrainedBeforeExit
  OBVIOUS
<1> USE Parameters DEF Init, Threads
<1>1. Zero \in Word
  BY DEF Zero, Word
<1>2. PcsOK
  BY DEF PcsOK, ProducerPcs, ConsumerPcs, PushPcs, NotFull, NotEmpty
<1>3. TypeOK
  BY <1>1, <1>2 DEF TypeOK, Slots
<1>4. Unfinished = Producers
  BY DEF Unfinished
<1>5. (head + count) % Capacity = 0
  BY ModSmall
<1>6. QueueConsistent
  BY <1>4, <1>5 DEF QueueConsistent
<1>7. MutualExclusion
  BY DEF MutualExclusion, Critical
<1>8. NoLostWakeup /\ DrainedBeforeExit
  BY DEF NoLostWakeup, DrainedBeforeExit, NotFull, NotEmpty
<1> QED BY <1>3, <1>6, <1>7, <1>8

\* Every variable keeps its type: no index leaves the ring, no counter its
\* range, and no thread runs another's program.
THEOREM TypeCorrect == Spec => []TypeOK
<1>1. TypeOK /\ QueueConsistent /\ [Next]_vars => (TypeOK /\ QueueConsistent)'
  BY TypeStep, ConsistentStep
<1>2. Init => TypeOK /\ QueueConsistent
  BY InitHolds
<1> QED BY <1>1, <1>2, PTL DEF Spec

\* The fields of queue_t agree: tail is count slots ahead of head, the high
\* water mark is one, active_producers counts the unfinished producers.
THEOREM FieldsAgree == Spec => []QueueConsistent
<1>1. TypeOK /\ QueueConsistent /\ [Next]_vars => QueueConsistent'
  BY ConsistentStep
<1>2. Init => QueueConsistent
  BY InitHolds
<1> QED BY <1>1, <1>2, TypeCorrect, PTL DEF Spec

\* At most one thread is between a lock of q->mutex and its unlock or wait.
THEOREM MutexExcludes == Spec => []MutualExclusion
<1>1. TypeOK /\ MutualExclusion /\ [Next]_vars => MutualExclusion'
  BY ExclusionStep
<1>2. Init => MutualExclusion
  BY InitHolds
<1> QED BY <1>1, <1>2, TypeCorrect, PTL DEF Spec

\* One signal per push and per pop, and one broadcast per finished producer,
\* are enough: for every item a sleeping consumer could take, and every slot
\* a sleeping producer could fill, somebody is on the way.
THEOREM SignalsSuffice == Spec => []NoLostWakeup
<1>1. TypeOK /\ NoLostWakeup /\ [Next]_vars => NoLostWakeup'
  BY WakeupStep
<1>2. Init => NoLostWakeup
  BY InitHolds
<1> QED BY <1>1, <1>2, TypeCorrect, PTL DEF Spec

\* queue_pop_blocking returns false only for an empty queue that no producer
\* will fill any more.
THEOREM ExitsDrained == Spec => []DrainedBeforeExit
<1>1. TypeOK /\ QueueConsistent /\ DrainedBeforeExit /\ [Next]_vars => DrainedBeforeExit'
  BY DrainedStep
<1>2. Init => DrainedBeforeExit
  BY InitHolds
<1> QED BY <1>1, <1>2, TypeCorrect, FieldsAgree, PTL DEF Spec

\* The threads never all sleep: a sleeping consumer means an unfinished
\* producer, a sleeping producer a full ring, and the two exclude each other.
LEMMA AwakeFromInvariants ==
  TypeOK /\ QueueConsistent /\ NoLostWakeup /\ DrainedBeforeExit => SomeoneAwake
<1> SUFFICES ASSUME TypeOK, QueueConsistent, NoLostWakeup, DrainedBeforeExit,
                    \A t \in Threads : pc[t] \in {NotFull, NotEmpty, "done"},
                    NEW s \in Threads, pc[s] # "done"
             PROVE  FALSE
  BY DEF SomeoneAwake, Finished
<1> USE Parameters DEF Threads
<1>1. /\ \A p \in Producers : pc[p] # NotEmpty
      /\ \A c \in Consumers : pc[c] # NotFull
  <2>1. PcsOK
    BY DEF TypeOK
  <2> QED BY <2>1 DEF PcsOK, ProducerPcs, PushPcs, ConsumerPcs, NotFull, NotEmpty
<1>2. PoppersComing = {} /\ PushersComing = {}
  BY DEF PoppersComing, PushersComing, NotFull, NotEmpty
<1>3. Cardinality({}) = 0
  BY FS_EmptySet
<1>4. ASSUME NEW p \in Producers, pc[p] = NotFull PROVE FALSE
  <2>1. count >= Capacity /\ count > 0
    BY <1>2, <1>3, <1>4 DEF NoLostWakeup, TypeOK
  <2>2. \A c \in Consumers : pc[c] # NotEmpty
    BY <1>2, <1>3, <2>1 DEF NoLostWakeup, TypeOK
  <2>3. \E c \in Consumers : pc[c] = "done"
    BY <1>1, <2>2, QueueAssumption
  <2> QED BY <2>1, <2>3 DEF DrainedBeforeExit
<1>5. ASSUME NEW c \in Consumers, pc[c] = NotEmpty PROVE FALSE
  <2>1. active_producers > 0
    BY <1>5 DEF NoLostWakeup
  <2>2. Unfinished # {}
    BY <2>1, FS_EmptySet DEF QueueConsistent
  <2> QED BY <1>1, <1>4, <2>2 DEF Unfinished
<1> QED BY <1>1, <1>4, <1>5

\* The threads never wait on each other for ever.
THEOREM NeverAllAsleep == Spec => []SomeoneAwake
BY TypeCorrect, FieldsAgree, SignalsSuffice, ExitsDrained, AwakeFromInvariants, PTL
-----------------------------------------------------------------------------
(* The refinement: every step of ProducerConsumerQueue is a step of         *)
(* BoundedFifo or leaves its variables alone.                               *)

SentNow == [p \in Producers |-> Sent(p)]
ReceivedNow == [c \in Consumers |-> Received(c)]
StoppedNow == {c \in Consumers : pc[c] = "done"}

-----------------------------------------------------------------------------
(* The ring as a sequence.                                                  *)

\* The k-th oldest item is in the k-th slot from the head.
ContentsOK ==
  /\ Contents \in Seq(Word)
  /\ Len(Contents) = count
  /\ \A k \in 1 .. count : Contents[k] = buffer[(head + k - 1) % Capacity]

\* TypeOK makes the ring a sequence of count items.
LEMMA ContentsType == TypeOK => ContentsOK
<1> SUFFICES ASSUME TypeOK PROVE ContentsOK
  OBVIOUS
<1> USE DEF TypeOK
<1>1. \A k \in 1 .. count : (head + k - 1) % Capacity \in Slots
  <2> SUFFICES ASSUME NEW k \in 1 .. count PROVE (head + k - 1) % Capacity \in Slots
    OBVIOUS
  <2>1. k - 1 \in 0 .. Capacity /\ head + (k - 1) = head + k - 1
    BY Parameters DEF Slots
  <2> QED BY <2>1, RingArithmetic
<1>2. count \in Nat
  OBVIOUS
<1>3. Contents \in [1 .. count -> Word]
  BY <1>1 DEF Contents
<1>4. Contents \in Seq(Word)
  BY <1>2, <1>3, SeqDef
<1>5. Len(Contents) = count
  BY <1>2, <1>3, <1>4, LenProperties
<1> QED BY <1>4, <1>5 DEF Contents, ContentsOK

\* No two pending items share a slot: the slot a push writes is none of theirs.
LEMMA TailIsFree ==
  ASSUME NEW h \in Slots, NEW n \in 0 .. Capacity, n < Capacity, NEW k \in 1 .. n
  PROVE  (h + n) % Capacity # (h + k - 1) % Capacity
<1> DEFINE C == Capacity
<1>0. /\ C \in Nat \ {0} /\ h \in Nat /\ h < C /\ n \in Nat /\ n < C
      /\ k \in Nat /\ 1 <= k /\ k <= n
  BY Parameters DEF Slots
<1> HIDE DEF C
<1>1. \A i \in Nat : /\ i < C => i % C = i
                     /\ C <= i /\ i < 2 * C => i % C = i - C
  BY <1>0, ModSmall
<1>2. (h + n) % C = (IF h + n < C THEN h + n ELSE h + n - C)
  BY <1>0, <1>1
<1>3. (h + k - 1) % C = (IF h + k - 1 < C THEN h + k - 1 ELSE h + k - 1 - C)
  BY <1>0, <1>1
<1> QED BY <1>0, <1>2, <1>3 DEF C

\* A push appends its item.
LEMMA PushAppends ==
  ASSUME TypeOK, TypeOK', QueueConsistent, NEW p \in Producers, PushItem(p)
  PROVE  Contents' = Append(Contents, Value(p, produced[p] + 1))
<1> DEFINE v == Value(p, produced[p] + 1)
<1>1. /\ count' = count + 1 /\ count < Capacity /\ count \in 0 .. Capacity
      /\ head' = head /\ buffer' = [buffer EXCEPT ![tail] = v]
      /\ tail = (head + count) % Capacity
  <2>1. count < Capacity /\ count \in 0 .. Capacity
    BY Parameters DEF PushItem, IsFull, TypeOK
  <2>2. count' = count + 1 /\ head' = head /\ buffer' = [buffer EXCEPT ![tail] = v]
    BY DEF PushItem
  <2> QED BY <2>1, <2>2 DEF QueueConsistent
<1>2. v \in Word
  BY ValueType DEF PushItem, TypeOK, PcsOK, PushPcs
<1> HIDE DEF v
<1>3. /\ Append(Contents, v) \in Seq(Word) /\ Len(Append(Contents, v)) = count + 1
      /\ Append(Contents, v)[count + 1] = v
      /\ \A k \in 1 .. count : Append(Contents, v)[k] = Contents[k]
  BY <1>1, <1>2, ContentsType, AppendProperties DEF ContentsOK
<1>4. /\ Contents' \in Seq(Word) /\ Len(Contents') = count + 1
      /\ \A k \in 1 .. count + 1 : Contents'[k] = buffer'[(head + k - 1) % Capacity]
  <2>1. ContentsOK'
    BY ContentsType, PTL
  <2> QED BY <1>1, <2>1 DEF ContentsOK
<1>5. ASSUME NEW k \in 1 .. count PROVE Contents'[k] = Contents[k]
  <2>1. tail # (head + k - 1) % Capacity
    BY <1>1, TailIsFree DEF TypeOK
  <2>2. buffer'[(head + k - 1) % Capacity] = buffer[(head + k - 1) % Capacity]
    BY <1>1, <2>1 DEF TypeOK
  <2> QED BY <1>1, <1>4, <2>2, ContentsType DEF ContentsOK
<1>6. Contents'[count + 1] = v
  <2>1. head + (count + 1) - 1 = head + count
    BY <1>1 DEF TypeOK, Slots
  <2> QED BY <1>1, <1>4, <2>1 DEF TypeOK
<1>7. \A k \in 1 .. count + 1 : Contents'[k] = Append(Contents, v)[k]
  BY <1>1, <1>3, <1>5, <1>6
<1> QED BY <1>1, <1>3, <1>4, <1>7, SeqEqual DEF v

\* A pop takes the oldest item off.
LEMMA PopTakesHead ==
  ASSUME TypeOK, TypeOK', QueueConsistent, NEW c \in Consumers, PopItem(c)
  PROVE  /\ Contents # <<>>
         /\ buffer[head] = Head(Contents)
         /\ Contents' = Tail(Contents)
<1>1. /\ count' = count - 1 /\ count > 0 /\ count \in 0 .. Capacity
      /\ head' = NextIndex(head) /\ buffer' = buffer /\ head \in Slots
  <2>1. count > 0 /\ count \in 0 .. Capacity /\ head \in Slots
    BY Parameters DEF PopItem, TypeOK, MustWait, NoMoreWork
  <2>2. count' = count - 1 /\ head' = NextIndex(head) /\ buffer' = buffer
    BY DEF PopItem
  <2> QED BY <2>1, <2>2
<1>2. ContentsOK /\ ContentsOK'
  BY ContentsType, PTL
<1>3. Contents # <<>>
  BY <1>1, <1>2, EmptySeq DEF ContentsOK
<1>4. buffer[head] = Head(Contents)
  <2>1. Head(Contents) = Contents[1]
    BY <1>2, <1>3 DEF ContentsOK
  <2>2. (head + 1 - 1) % Capacity = head
    BY <1>1, Parameters, ModSmall DEF Slots
  <2> QED BY <1>1, <1>2, <2>1, <2>2 DEF ContentsOK
<1>5. /\ Tail(Contents) \in Seq(Word) /\ Len(Tail(Contents)) = count - 1
      /\ \A k \in 1 .. count - 1 : Tail(Contents)[k] = Contents[k + 1]
  BY <1>2, <1>3, HeadTailProperties DEF ContentsOK
<1>6. ASSUME NEW k \in 1 .. count - 1 PROVE Contents'[k] = Contents[k + 1]
  <2>1. (NextIndex(head) + (k - 1)) % Capacity = (head + k) % Capacity
    BY <1>1, Parameters, RingArithmetic
  <2>2. Contents'[k] = buffer[(NextIndex(head) + k - 1) % Capacity]
    BY <1>1, <1>2 DEF ContentsOK
  <2>3. Contents[k + 1] = buffer[(head + (k + 1) - 1) % Capacity]
    BY <1>1, <1>2 DEF ContentsOK
  <2>4. NextIndex(head) + (k - 1) = NextIndex(head) + k - 1 /\ head + (k + 1) - 1 = head + k
    BY <1>1, RingArithmetic, Parameters DEF Slots
  <2> QED BY <2>1, <2>2, <2>3, <2>4
<1> QED BY <1>1, <1>2, <1>3, <1>4, <1>5, <1>6, SeqEqual DEF ContentsOK

-----------------------------------------------------------------------------
(* Steps.                                                                   *)

\* The abstract queue's variables, under the refinement mapping.
fifoVars == <<Contents, SentNow, ReceivedNow, Unfinished, StoppedNow>>

\* Fields that a step leaves alone keep the abstract variables made of them.
LEMMA SameContents ==
  ASSUME UNCHANGED <<buffer, head, count>> PROVE Contents' = Contents
BY DEF Contents

\* Producers that neither store nor count an item have sent the same.
LEMMA SameSent ==
  ASSUME UNCHANGED produced, \A p \in Producers : pc'[p] = "pushed" <=> pc[p] = "pushed"
  PROVE  SentNow' = SentNow
BY DEF SentNow, Sent

\* Consumers that neither take nor count an item have received the same.
LEMMA SameReceived ==
  ASSUME UNCHANGED <<delivered, item>>,
         \A c \in Consumers : pc'[c] = "consume" <=> pc[c] = "consume"
  PROVE  ReceivedNow' = ReceivedNow
BY DEF ReceivedNow, Received

\* No consumer was told that there is no more work.
LEMMA SameStopped ==
  ASSUME \A c \in Consumers : pc'[c] = "done" <=> pc[c] = "done"
  PROVE  StoppedNow' = StoppedNow
BY DEF StoppedNow

\* A thread that moves between pcs the abstract queue does not see.
Visible == {"pushed", "consume", "done"}

\* Locking, sleeping and waking change nothing in the abstract queue.
LEMMA QuietMove ==
  ASSUME TypeOK, NEW t \in Threads, NEW next, Goto(t, next),
         pc[t] \notin Visible, next \notin Visible,
         UNCHANGED queueVars, UNCHANGED <<produced, item, delivered>>
  PROVE  UNCHANGED fifoVars
<1>1. \A u \in Threads : pc'[u] = IF u = t THEN next ELSE pc[u]
  BY DEF Goto, TypeOK, PcsOK
<1>2. \A u \in Threads, v \in Visible : pc'[u] = v <=> pc[u] = v
  BY <1>1
<1>3. /\ \A p \in Producers : pc'[p] = "pushed" <=> pc[p] = "pushed"
      /\ \A c \in Consumers : pc'[c] = "consume" <=> pc[c] = "consume"
      /\ \A u \in Threads : pc'[u] = "done" <=> pc[u] = "done"
  BY <1>2 DEF Visible, Threads
<1>4. Unfinished' = Unfinished
  BY <1>3 DEF Unfinished, Threads
<1>5. Contents' = Contents
  BY SameContents DEF queueVars
<1>6. SentNow' = SentNow
  BY <1>3, SameSent
<1>7. ReceivedNow' = ReceivedNow
  BY <1>3, SameReceived
<1>8. StoppedNow' = StoppedNow
  BY <1>3, SameStopped DEF Threads
<1> QED BY <1>4, <1>5, <1>6, <1>7, <1>8 DEF fifoVars

\* The abstract variables a wake-up leaves alone: a woken thread only goes on
\* to take the mutex back.
LEMMA MoveVisible ==
  ASSUME TypeOK, NEW t \in Threads, NEW next, NEW cv \in {NotFull, NotEmpty},
         NEW woken, woken \subseteq Waiters(cv), Move(t, next, woken, cv)
  PROVE  /\ pc'[t] = next
         /\ \A u \in Threads, v \in Visible : u # t => (pc'[u] = v <=> pc[u] = v)
BY DEF Move, Waiters, Relocking, Visible, NotFull, NotEmpty

\* A push is a Put.
LEMMA PushIsPut ==
  ASSUME TypeOK, TypeOK', QueueConsistent, NEW p \in Producers, PushItem(p)
  PROVE  Fifo!Put(p)
<1> USE Parameters
<1>1. PICK woken \in Signal(NotEmpty) : Move(p, "pushed", woken, NotEmpty)
  BY DEF PushItem
<1>2. woken \subseteq Waiters(NotEmpty)
  BY <1>1, WokenWait
<1>3. /\ pc[p] = "push" /\ pc'[p] = "pushed"
      /\ \A u \in Threads, v \in Visible : u # p => (pc'[u] = v <=> pc[u] = v)
  BY <1>1, <1>2, MoveVisible DEF PushItem, Threads
<1>4. /\ \A q \in Producers : q # p => (pc'[q] = "pushed" <=> pc[q] = "pushed")
      /\ \A c \in Consumers : pc'[c] = "consume" <=> pc[c] = "consume"
      /\ \A u \in Threads : u # p => (pc'[u] = "done" <=> pc[u] = "done")
      /\ \A c \in Consumers : c # p
  BY <1>3 DEF Visible, Threads
<1>5. p \in Unfinished /\ Unfinished' = Unfinished
  BY <1>3, <1>4 DEF Unfinished, Threads
<1>6. produced[p] < ItemsPerProducer /\ produced[p] \in Nat /\ produced' = produced
  BY <1>3 DEF TypeOK, PcsOK, PushPcs, PushItem, statsVars
<1>7. SentNow[p] = produced[p] /\ SentNow' = [SentNow EXCEPT ![p] = @ + 1]
  <2>1. Sent(p) = produced[p] /\ Sent(p)' = produced[p] + 1
    BY <1>3, <1>6 DEF Sent
  <2>2. \A q \in Producers : q # p => Sent(q)' = Sent(q)
    BY <1>4, <1>6 DEF Sent
  <2> QED BY <2>1, <2>2 DEF SentNow
<1>8. Len(Stream[p]) = ItemsPerProducer
      /\ Stream[p][produced[p] + 1] = Value(p, produced[p] + 1)
  BY <1>6 DEF Stream
<1>9. Len(Contents) < Capacity
  BY ContentsType DEF ContentsOK, TypeOK, PushItem, IsFull
<1>10. Contents' = Append(Contents, Value(p, produced[p] + 1))
  BY PushAppends
<1>11. ReceivedNow' = ReceivedNow
  BY <1>4, SameReceived DEF PushItem, statsVars
<1>12. StoppedNow' = StoppedNow
  BY <1>4, SameStopped DEF Threads
<1> QED BY <1>5, <1>6, <1>7, <1>8, <1>9, <1>10, <1>11, <1>12
        DEF Fifo!Put, SentNow, ReceivedNow, StoppedNow

\* queue_producer_finished is a Close.
LEMMA FinishIsClose ==
  ASSUME TypeOK, NEW p \in Producers, ProducerFinished(p)
  PROVE  Fifo!Close(p)
<1> USE Parameters
<1>1. PICK woken \in Broadcast(NotEmpty) : Move(p, "done", woken, NotEmpty)
  BY DEF ProducerFinished
<1>2. woken \subseteq Waiters(NotEmpty)
  BY <1>1, WokenWait
<1>3. /\ pc[p] = "finish" /\ pc'[p] = "done"
      /\ \A u \in Threads, v \in Visible : u # p => (pc'[u] = v <=> pc[u] = v)
  BY <1>1, <1>2, MoveVisible DEF ProducerFinished, Threads
<1>4. /\ \A q \in Producers : pc'[q] = "pushed" <=> pc[q] = "pushed"
      /\ \A c \in Consumers : pc'[c] = "consume" <=> pc[c] = "consume"
      /\ \A u \in Threads : u # p => (pc'[u] = "done" <=> pc[u] = "done")
      /\ \A c \in Consumers : c # p
  BY <1>3 DEF Visible, Threads
<1>5. p \in Unfinished /\ Unfinished' = Unfinished \ {p}
  BY <1>3, <1>4 DEF Unfinished, Threads
<1>6. SentNow[p] = ItemsPerProducer
  BY <1>3 DEF TypeOK, PcsOK, SentNow, Sent
<1>7. Len(Stream[p]) = ItemsPerProducer
  BY DEF Stream
<1>8. SentNow' = SentNow
  BY <1>4, SameSent DEF ProducerFinished, statsVars
<1>9. Contents' = Contents
  BY SameContents DEF ProducerFinished
<1>10. ReceivedNow' = ReceivedNow
  BY <1>4, SameReceived DEF ProducerFinished, statsVars
<1>11. StoppedNow' = StoppedNow
  BY <1>4, SameStopped DEF Threads
<1> QED BY <1>5, <1>6, <1>7, <1>8, <1>9, <1>10, <1>11
        DEF Fifo!Close, SentNow, ReceivedNow, StoppedNow

\* A pop is a Get.
LEMMA PopIsGet ==
  ASSUME TypeOK, TypeOK', QueueConsistent, NEW c \in Consumers, PopItem(c)
  PROVE  Fifo!Get(c)
<1> USE Parameters
<1>1. PICK woken \in Signal(NotFull) : Move(c, "consume", woken, NotFull)
  BY DEF PopItem
<1>2. woken \subseteq Waiters(NotFull)
  BY <1>1, WokenWait
<1>3. /\ pc[c] = "pop" /\ pc'[c] = "consume"
      /\ \A u \in Threads, v \in Visible : u # c => (pc'[u] = v <=> pc[u] = v)
  BY <1>1, <1>2, MoveVisible DEF PopItem, Threads
<1>4. /\ \A p \in Producers : pc'[p] = "pushed" <=> pc[p] = "pushed"
      /\ \A d \in Consumers : d # c => (pc'[d] = "consume" <=> pc[d] = "consume")
      /\ \A u \in Threads : pc'[u] = "done" <=> pc[u] = "done"
      /\ \A p \in Producers : c # p
  BY <1>3 DEF Visible, Threads
<1>5. c \notin StoppedNow /\ StoppedNow' = StoppedNow
  BY <1>3, <1>4, SameStopped DEF StoppedNow, Threads
<1>6. /\ Contents # <<>> /\ buffer[head] = Head(Contents) /\ Contents' = Tail(Contents)
  BY PopTakesHead
<1>7. item' = [item EXCEPT ![c] = buffer[head]] /\ delivered' = delivered
  BY DEF PopItem, PopSlot
<1>8. ReceivedNow' = [ReceivedNow EXCEPT ![c] = Append(@, Head(Contents))]
  <2>1. Received(c)' = Append(Received(c), Head(Contents))
    BY <1>3, <1>6, <1>7 DEF Received, TypeOK
  <2>2. \A d \in Consumers : d # c => Received(d)' = Received(d)
    BY <1>4, <1>7 DEF Received, TypeOK
  <2> QED BY <2>1, <2>2 DEF ReceivedNow
<1>9. SentNow' = SentNow
  BY <1>4, SameSent DEF PopItem
<1>10. Unfinished' = Unfinished
  BY <1>4 DEF Unfinished, Threads
<1> QED BY <1>5, <1>6, <1>8, <1>9, <1>10 DEF Fifo!Get, SentNow, ReceivedNow, StoppedNow

\* A pop that returns false is a Stop.
LEMMA EndIsStop ==
  ASSUME TypeOK, QueueConsistent, NEW c \in Consumers, PopEnd(c)
  PROVE  Fifo!Stop(c)
<1> USE Parameters DEF Threads
<1>1. /\ pc[c] = "pop" /\ count = 0 /\ active_producers = 0
      /\ \A u \in Threads : pc'[u] = IF u = c THEN "done" ELSE pc[u]
  BY DEF PopEnd, NoMoreWork, Goto, TypeOK, PcsOK
<1>2. Unfinished = {} /\ Unfinished' = Unfinished
  <2>1. Unfinished = {}
    BY <1>1, FS_Subset, FS_EmptySet DEF QueueConsistent, Unfinished
  <2>2. \A p \in Producers : pc'[p] = pc[p]
    BY <1>1
  <2> QED BY <2>1, <2>2 DEF Unfinished
<1>3. Contents = <<>>
  BY <1>1, ContentsType, EmptySeq DEF ContentsOK
<1>4. c \notin StoppedNow /\ StoppedNow' = StoppedNow \cup {c}
  BY <1>1 DEF StoppedNow
<1>5. SentNow' = SentNow
  BY <1>1, SameSent DEF PopEnd, statsVars
<1>6. ReceivedNow' = ReceivedNow
  BY <1>1, SameReceived DEF PopEnd, statsVars
<1>7. Contents' = Contents
  BY SameContents DEF PopEnd, queueVars
<1> QED BY <1>2, <1>3, <1>4, <1>5, <1>6, <1>7
        DEF Fifo!Stop, SentNow, ReceivedNow, StoppedNow

\* A push's item is counted as sent from the moment it is in the ring: the
\* counting that follows does not change that.
LEMMA CountingSent ==
  ASSUME TypeOK, NEW p \in Producers, CountProduced(p) PROVE UNCHANGED fifoVars
<1> USE Parameters
<1>1. /\ \A u \in Threads : pc'[u] = IF u = p THEN "produce" ELSE pc[u]
      /\ pc[p] = "pushed" /\ p \notin Consumers
  BY DEF CountProduced, Goto, TypeOK, PcsOK, Threads
<1>2. produced'[p] = produced[p] + 1 /\ produced[p] \in Nat
      /\ \A q \in Producers : q # p => produced'[q] = produced[q]
  BY DEF CountProduced, TypeOK
<1>3. \A q \in Producers : Sent(q)' = Sent(q)
  BY <1>1, <1>2 DEF Sent, Threads
<1>4. SentNow' = SentNow
  BY <1>3 DEF SentNow
<1>5. Contents' = Contents
  BY SameContents DEF CountProduced, queueVars
<1>6. ReceivedNow' = ReceivedNow
  BY <1>1, SameReceived DEF CountProduced, Threads
<1>7. StoppedNow' = StoppedNow
  BY <1>1, SameStopped DEF Threads
<1>8. Unfinished' = Unfinished
  BY <1>1 DEF Unfinished, Threads
<1> QED BY <1>4, <1>5, <1>6, <1>7, <1>8 DEF fifoVars

\* Likewise a popped item is received from the moment it is taken out.
LEMMA CountingReceived ==
  ASSUME TypeOK, NEW c \in Consumers, CountConsumed(c) PROVE UNCHANGED fifoVars
<1> USE Parameters
<1>1. /\ \A u \in Threads : pc'[u] = IF u = c THEN "fetch" ELSE pc[u]
      /\ pc[c] = "consume" /\ c \notin Producers
  BY DEF CountConsumed, Goto, TypeOK, PcsOK, Threads
<1>2. /\ delivered'[c] = Append(delivered[c], item[c])
      /\ \A d \in Consumers : d # c => delivered'[d] = delivered[d]
      /\ item' = item
  BY DEF CountConsumed, TypeOK
<1>3. \A d \in Consumers : Received(d)' = Received(d)
  BY <1>1, <1>2 DEF Received, Threads
<1>4. ReceivedNow' = ReceivedNow
  BY <1>3 DEF ReceivedNow
<1>5. Contents' = Contents
  BY SameContents DEF CountConsumed, queueVars
<1>6. SentNow' = SentNow
  BY <1>1, SameSent DEF CountConsumed, Threads
<1>7. StoppedNow' = StoppedNow
  BY <1>1, SameStopped DEF Threads
<1>8. Unfinished' = Unfinished
  BY <1>1 DEF Unfinished, Threads
<1> QED BY <1>4, <1>5, <1>6, <1>7, <1>8 DEF fifoVars

\* Every step is a step of the abstract queue, or one it does not see.
LEMMA StepRefines ==
  TypeOK /\ TypeOK' /\ QueueConsistent /\ [Next]_vars => [Fifo!Next]_fifoVars
<1> SUFFICES ASSUME TypeOK, TypeOK', QueueConsistent, [Next]_vars
             PROVE  Fifo!Next \/ UNCHANGED fifoVars
  OBVIOUS
<1> USE Parameters
<1>1. ASSUME NEW p \in Producers, ProducerStep(p) PROVE Fifo!Next \/ UNCHANGED fifoVars
  <2>0. p \in Threads
    BY DEF Threads
  <2>1. CASE PushLock(p) \/ PushRelock(p) \/ FinishLock(p)
    BY <2>0, <2>1, QuietMove DEF PushLock, PushRelock, FinishLock, Lock, Visible, statsVars
  <2>2. CASE PushWait(p)
    BY <2>0, <2>2, QuietMove DEF PushWait, Wait, Visible, NotFull
  <2>3. CASE PushItem(p)
    BY <2>3, PushIsPut DEF Fifo!Next
  <2>4. CASE CountProduced(p)
    BY <2>4, CountingSent
  <2>5. CASE ProducerFinished(p)
    BY <2>5, FinishIsClose DEF Fifo!Next
  <2> QED BY <1>1, <2>1, <2>2, <2>3, <2>4, <2>5 DEF ProducerStep
<1>2. ASSUME NEW c \in Consumers, ConsumerStep(c) PROVE Fifo!Next \/ UNCHANGED fifoVars
  <2>0. c \in Threads
    BY DEF Threads
  <2>1. CASE PopLock(c) \/ PopRelock(c)
    BY <2>0, <2>1, QuietMove DEF PopLock, PopRelock, Lock, Visible, statsVars
  <2>2. CASE PopWait(c)
    BY <2>0, <2>2, QuietMove DEF PopWait, Wait, Visible, NotEmpty
  <2>3. CASE PopItem(c)
    BY <2>3, PopIsGet DEF Fifo!Next
  <2>4. CASE CountConsumed(c)
    BY <2>4, CountingReceived
  <2>5. CASE PopEnd(c)
    BY <2>5, EndIsStop DEF Fifo!Next
  <2> QED BY <1>2, <2>1, <2>2, <2>3, <2>4, <2>5 DEF ConsumerStep
<1>3. ASSUME NEW t \in Threads, SpuriousWakeup(t) PROVE UNCHANGED fifoVars
  BY <1>3, QuietMove DEF SpuriousWakeup, Relocking, Visible, NotFull, NotEmpty, statsVars
<1>4. CASE JoinProducers \/ Report \/ UNCHANGED vars
  BY <1>4 DEF JoinProducers, Report, vars, queueVars, statsVars, fifoVars, Contents,
              SentNow, Sent, ReceivedNow, Received, StoppedNow, Unfinished
<1> QED BY <1>1, <1>2, <1>3, <1>4 DEF Next, Terminated

\* queue_init makes an empty open queue.
LEMMA InitRefines == Init => Fifo!Init
<1> SUFFICES ASSUME Init PROVE Fifo!Init
  OBVIOUS
<1> USE Parameters DEF Init, Threads
<1>1. Contents = <<>>
  <2>1. TypeOK
    BY InitHolds
  <2> QED BY <2>1, ContentsType, EmptySeq DEF ContentsOK
<1>2. SentNow = [p \in Producers |-> 0]
  BY DEF SentNow, Sent
<1>3. ReceivedNow = [c \in Consumers |-> <<>>]
  BY DEF ReceivedNow, Received
<1>4. Unfinished = Producers /\ StoppedNow = {}
  BY DEF Unfinished, StoppedNow
<1> QED BY <1>1, <1>2, <1>3, <1>4 DEF Fifo!Init, SentNow, ReceivedNow, StoppedNow

\* Whatever the schedule, the wake-ups and the sizes, the producers and the
\* consumers see one bounded FIFO queue: items come out once, in the order
\* they went in, and nobody is turned away while more may come.
THEOREM QueueIsFifo == Spec => ImplementsFifo
<1>1. Init => Fifo!Init
  BY InitRefines
<1>2. TypeOK /\ TypeOK' /\ QueueConsistent /\ [Next]_vars => [Fifo!Next]_(Fifo!vars)
  BY StepRefines DEF fifoVars, SentNow, ReceivedNow, StoppedNow, Fifo!vars
<1> QED BY <1>1, <1>2, TypeCorrect, FieldsAgree, PTL DEF Spec, ImplementsFifo, Fifo!Spec

-----------------------------------------------------------------------------
(* Where the items are.  As many items of each value have been put as are   *)
(* in the queue and with the consumers: this is said of any contents of the *)
(* abstract queue, and shown to survive its operations.                     *)

Total == NumProducers * ItemsPerProducer
Lengths(received) == [c \in Consumers |-> Len(received[c])]
Places(s, v) == {k \in 1 .. Len(s) : s[k] = v}
PutAs(sent, v) == {s \in Producers \X (1 .. ItemsPerProducer) :
                     s[2] <= sent[s[1]] /\ Value(s[1], s[2]) = v}
GotAs(received, v) == {s \in Consumers \X (1 .. Total) : s[2] \in Places(received[s[1]], v)}

\* The counters after another item of p, and the items after another of c.
OneMoreOf(sent, p) == [sent EXCEPT ![p] = @ + 1]
GivenTo(received, c, w) == [received EXCEPT ![c] = Append(@, w)]

FifoTypes(queue, sent, received) ==
  /\ queue \in Seq(Word)
  /\ sent \in [Producers -> 0 .. ItemsPerProducer]
  /\ received \in [Consumers -> Seq(Word)]

Balanced(queue, sent, received) ==
  /\ SumFunctionOnSet(sent, Producers)
       = Len(queue) + SumFunctionOnSet(Lengths(received), Consumers)
  /\ \A v \in Word : Cardinality(PutAs(sent, v))
                      = Cardinality(Places(queue, v)) + Cardinality(GotAs(received, v))

\* All of these sets are finite.
LEMMA PlacesFinite ==
  ASSUME NEW s \in Seq(Word), NEW v
  PROVE  IsFiniteSet(Places(s, v)) /\ Cardinality(Places(s, v)) \in Nat
<1>1. Len(s) \in Nat /\ IsFiniteSet(1 .. Len(s))
  BY LenProperties, FS_Interval
<1> QED BY <1>1, FS_Subset, FS_CardinalityType DEF Places

\* Both sides of the balance are counts of finite sets.
LEMMA PairsFinite ==
  ASSUME NEW sent, NEW received, NEW v
  PROVE  /\ IsFiniteSet(PutAs(sent, v)) /\ Cardinality(PutAs(sent, v)) \in Nat
         /\ IsFiniteSet(GotAs(received, v)) /\ Cardinality(GotAs(received, v)) \in Nat
<1> USE Parameters
<1>1. Total \in Nat
  BY DEF Total
<1>2. IsFiniteSet(1 .. ItemsPerProducer) /\ IsFiniteSet(1 .. Total)
  BY <1>1, FS_Interval
<1>3. /\ IsFiniteSet(Producers \X (1 .. ItemsPerProducer))
      /\ IsFiniteSet(Consumers \X (1 .. Total))
  BY <1>2, FS_Product
<1>4. IsFiniteSet(PutAs(sent, v))
  BY <1>3, FS_Subset DEF PutAs
<1>5. IsFiniteSet(GotAs(received, v))
  BY <1>3, FS_Subset DEF GotAs
<1> QED BY <1>4, <1>5, FS_CardinalityType

\* Appending an item adds its place.
LEMMA PlacesAppend ==
  ASSUME NEW s \in Seq(Word), NEW w \in Word, NEW v
  PROVE  /\ Places(Append(s, w), v)
              = IF w = v THEN Places(s, v) \cup {Len(s) + 1} ELSE Places(s, v)
         /\ Len(s) + 1 \notin Places(s, v)
         /\ Cardinality(Places(Append(s, w), v))
              = Cardinality(Places(s, v)) + (IF w = v THEN 1 ELSE 0)
         /\ Len(Append(s, w)) = Len(s) + 1 /\ Len(s) \in Nat
<1>1. /\ Len(Append(s, w)) = Len(s) + 1 /\ Len(s) \in Nat
      /\ Append(s, w)[Len(s) + 1] = w
      /\ \A k \in 1 .. Len(s) : Append(s, w)[k] = s[k]
  BY AppendProperties, LenProperties
<1>2. Len(s) + 1 \notin Places(s, v)
  BY <1>1 DEF Places
<1>3. IsFiniteSet(Places(s, v)) /\ Cardinality(Places(s, v)) \in Nat
  BY PlacesFinite
<1>4. CASE w = v
  <2>1. Places(Append(s, w), v) = Places(s, v) \cup {Len(s) + 1}
    BY <1>1, <1>4 DEF Places
  <2>2. Cardinality(Places(s, v) \cup {Len(s) + 1}) = Cardinality(Places(s, v)) + 1
    BY <1>2, <1>3, FS_AddElement
  <2> QED BY <1>1, <1>2, <1>3, <1>4, <2>1, <2>2
<1>5. CASE w # v
  <2>1. Places(Append(s, w), v) = Places(s, v)
    BY <1>1, <1>5 DEF Places
  <2> QED BY <1>1, <1>2, <1>3, <1>5, <2>1
<1> QED BY <1>4, <1>5

\* Taking the head off leaves the same places, moved by one.
LEMMA PlacesTail ==
  ASSUME NEW s \in Seq(Word), s # <<>>, NEW v
  PROVE  Cardinality(Places(s, v))
         = Cardinality(Places(Tail(s), v)) + (IF Head(s) = v THEN 1 ELSE 0)
<1> DEFINE A == Places(s, v) \ {1}
           B == Places(Tail(s), v)
           f == [k \in A |-> k - 1]
<1>1. /\ Len(s) \in Nat /\ Len(s) > 0 /\ Len(Tail(s)) = Len(s) - 1
      /\ \A i \in 1 .. Len(s) - 1 : Tail(s)[i] = s[i + 1]
      /\ s[1] = Head(s)
  <2>1. Len(s) \in Nat \ {0}
    BY EmptySeq
  <2>2. Len(Tail(s)) = Len(s) - 1 /\ \A i \in 1 .. Len(Tail(s)) : Tail(s)[i] = s[i + 1]
    BY HeadTailProperties
  <2>3. s[1] = Head(s)
    OBVIOUS
  <2> QED BY <2>1, <2>2, <2>3
<1>2. IsFiniteSet(Places(s, v)) /\ Cardinality(Places(s, v)) \in Nat
  BY PlacesFinite
<1>3. IsFiniteSet(A)
  BY <1>2, FS_RemoveElement
<1>4. \A k \in A : k \in Nat /\ k - 1 \in B
  BY <1>1 DEF Places
<1>5. \A k \in B : k \in Nat /\ k + 1 \in A
  BY <1>1 DEF Places
<1>6. f \in Bijection(A, B)
  <2> HIDE DEF A, B
  <2>1. f \in [A -> B]
    BY <1>4
  <2>2. \A i, j \in A : f[i] = f[j] => i = j
    BY <1>4
  <2>3. \A k \in B : k + 1 \in A /\ f[k + 1] = k
    BY <1>5
  <2> HIDE DEF f
  <2> QED BY <2>1, <2>2, <2>3 DEF Bijection, Injection, Surjection, IsInjective
<1>7. Cardinality(B) = Cardinality(A)
  <2> HIDE DEF A, B, f
  <2> QED BY <1>3, <1>6, FS_Bijection DEF ExistsBijection
<1>8. 1 \in Places(s, v) <=> Head(s) = v
  BY <1>1 DEF Places
<1>9. Cardinality(A) = IF Head(s) = v THEN Cardinality(Places(s, v)) - 1
                       ELSE Cardinality(Places(s, v))
  BY <1>2, <1>8, FS_RemoveElement
<1> HIDE DEF A, B
<1> QED BY <1>2, <1>7, <1>9 DEF B

\* Another item put.
LEMMA PutAsGrows ==
  ASSUME NEW sent \in [Producers -> 0 .. ItemsPerProducer], NEW p \in Producers,
         sent[p] < ItemsPerProducer, NEW v
  PROVE  Cardinality(PutAs(OneMoreOf(sent, p), v))
         = Cardinality(PutAs(sent, v)) + (IF Value(p, sent[p] + 1) = v THEN 1 ELSE 0)
<1> DEFINE n == sent[p] + 1
           more == OneMoreOf(sent, p)
<1>1. /\ n \in 1 .. ItemsPerProducer /\ sent[p] = n - 1
      /\ more[p] = n /\ \A q \in Producers : q # p => more[q] = sent[q]
  BY Parameters DEF OneMoreOf
<1>2. \A q \in Producers : sent[q] \in Int
  OBVIOUS
<1> HIDE DEF n, more
<1>3. \A q \in Producers, i \in 1 .. ItemsPerProducer :
        i <= more[q] <=> i <= sent[q] \/ (q = p /\ i = n)
  BY <1>1, <1>2
<1>4. \A s \in Producers \X (1 .. ItemsPerProducer) :
        s \in PutAs(more, v) <=> \/ s \in PutAs(sent, v)
                                 \/ s = <<p, n>> /\ Value(p, n) = v
  BY <1>1, <1>3 DEF PutAs
<1>5. <<p, n>> \notin PutAs(sent, v)
  BY <1>1 DEF PutAs
<1>6. /\ PutAs(more, v) \subseteq Producers \X (1 .. ItemsPerProducer)
      /\ PutAs(sent, v) \subseteq Producers \X (1 .. ItemsPerProducer)
      /\ <<p, n>> \in Producers \X (1 .. ItemsPerProducer)
  BY <1>1 DEF PutAs
<1>7. IsFiniteSet(PutAs(sent, v)) /\ Cardinality(PutAs(sent, v)) \in Nat
  BY PairsFinite
<1>8. CASE Value(p, n) = v
  <2>1. PutAs(more, v) = PutAs(sent, v) \cup {<<p, n>>}
    BY <1>4, <1>6, <1>8
  <2>2. Cardinality(PutAs(sent, v) \cup {<<p, n>>}) = Cardinality(PutAs(sent, v)) + 1
    BY <1>5, <1>7, FS_AddElement
  <2> QED BY <1>8, <2>1, <2>2 DEF n, more
<1>9. CASE Value(p, n) # v
  <2>1. PutAs(more, v) = PutAs(sent, v)
    BY <1>4, <1>6, <1>9
  <2> QED BY <1>7, <1>9, <2>1 DEF n, more
<1> QED BY <1>8, <1>9

\* Another item taken.
LEMMA GotAsGrows ==
  ASSUME NEW received \in [Consumers -> Seq(Word)], NEW c \in Consumers,
         Len(received[c]) < Total, NEW w \in Word, NEW v
  PROVE  Cardinality(GotAs(GivenTo(received, c, w), v))
         = Cardinality(GotAs(received, v)) + (IF w = v THEN 1 ELSE 0)
<1> DEFINE n == Len(received[c]) + 1
           more == GivenTo(received, c, w)
<1>0. Total \in Nat /\ received[c] \in Seq(Word)
  BY Parameters DEF Total
<1>1. n \in 1 .. Total
  BY <1>0, LenProperties
<1>2. /\ more[c] = Append(received[c], w)
      /\ \A d \in Consumers : d # c => more[d] = received[d]
  BY DEF GivenTo
<1>3. /\ Places(more[c], v) = IF w = v THEN Places(received[c], v) \cup {n}
                              ELSE Places(received[c], v)
      /\ n \notin Places(received[c], v)
  BY <1>0, <1>2, PlacesAppend
<1> HIDE DEF n, more
<1>4. \A d \in Consumers, i \in 1 .. Total :
        i \in Places(more[d], v)
        <=> i \in Places(received[d], v) \/ (d = c /\ i = n /\ w = v)
  BY <1>2, <1>3
<1>5. \A s \in Consumers \X (1 .. Total) :
        s \in GotAs(more, v) <=> s \in GotAs(received, v) \/ (s = <<c, n>> /\ w = v)
  BY <1>1, <1>4 DEF GotAs
<1>6. /\ GotAs(more, v) \subseteq Consumers \X (1 .. Total)
      /\ GotAs(received, v) \subseteq Consumers \X (1 .. Total)
      /\ <<c, n>> \in Consumers \X (1 .. Total)
  BY <1>1 DEF GotAs
<1>7. <<c, n>> \notin GotAs(received, v)
  BY <1>3 DEF GotAs
<1>8. IsFiniteSet(GotAs(received, v)) /\ Cardinality(GotAs(received, v)) \in Nat
  BY PairsFinite
<1>9. CASE w = v
  <2>1. GotAs(more, v) = GotAs(received, v) \cup {<<c, n>>}
    BY <1>5, <1>6, <1>9
  <2>2. Cardinality(GotAs(received, v) \cup {<<c, n>>}) = Cardinality(GotAs(received, v)) + 1
    BY <1>7, <1>8, FS_AddElement
  <2> QED BY <1>9, <2>1, <2>2 DEF more
<1>10. CASE w # v
  <2>1. GotAs(more, v) = GotAs(received, v)
    BY <1>5, <1>6, <1>10
  <2> QED BY <1>8, <1>10, <2>1 DEF more
<1> QED BY <1>9, <1>10

\* A consumer has no more items than there are in all, and fewer while one is
\* in the queue.
LEMMA RoomToGet ==
  ASSUME NEW queue, NEW sent, NEW received, FifoTypes(queue, sent, received),
         Balanced(queue, sent, received), NEW c \in Consumers
  PROVE  Len(queue) + Len(received[c]) <= Total
<1> USE Parameters DEF FifoTypes
<1> DEFINE I == [p \in Producers |-> ItemsPerProducer]
           L == Lengths(received)
<1>1. SumFunctionOnSet(I, Producers) = Total
  <2>1. \A p \in Producers : I[p] = ItemsPerProducer
    OBVIOUS
  <2> HIDE DEF I
  <2> QED BY <2>1, SumConst DEF Total
<1>2. SumFunctionOnSet(sent, Producers) <= SumFunctionOnSet(I, Producers)
  <2>1. \A p \in Producers : sent[p] \in Nat /\ I[p] \in Nat /\ sent[p] <= I[p]
    OBVIOUS
  <2> HIDE DEF I
  <2> QED BY <2>1, SumMonotone
<1>3. \A d \in Consumers : L[d] = Len(received[d]) /\ L[d] \in Nat
  BY LenProperties DEF Lengths
<1> HIDE DEF I, L
<1>4. L[c] <= SumFunctionOnSet(L, Consumers)
  BY <1>3, SumBound
<1>5. SumFunctionOnSet(L, Consumers) \in Nat /\ Len(queue) \in Nat /\ Total \in Nat
  BY <1>3, SumType, LenProperties DEF Total
<1>6. SumFunctionOnSet(sent, Producers) = Len(queue) + SumFunctionOnSet(L, Consumers)
  BY DEF Balanced, L
<1> QED BY <1>1, <1>2, <1>3, <1>4, <1>5, <1>6

\* Put keeps the balance.
LEMMA PutBalances ==
  ASSUME NEW queue, NEW sent, NEW received, FifoTypes(queue, sent, received),
         Balanced(queue, sent, received), NEW p \in Producers,
         sent[p] < ItemsPerProducer
  PROVE  Balanced(Append(queue, Value(p, sent[p] + 1)), OneMoreOf(sent, p), received)
<1> USE Parameters
<1>0. /\ queue \in Seq(Word) /\ sent \in [Producers -> 0 .. ItemsPerProducer]
      /\ received \in [Consumers -> Seq(Word)]
      /\ \A q \in Producers : sent[q] \in Nat
  BY DEF FifoTypes
<1>1. Value(p, sent[p] + 1) \in Word
  BY <1>0, ValueType
<1>2. /\ SumFunctionOnSet(OneMoreOf(sent, p), Producers) = SumFunctionOnSet(sent, Producers) + 1
      /\ SumFunctionOnSet(sent, Producers) \in Nat
  <2>1. OneMoreOf(sent, p)[p] = sent[p] + 1 /\ sent[p] \in Nat
    BY <1>0 DEF OneMoreOf
  <2>2. /\ \A q \in Producers : sent[q] \in Nat
        /\ OneMoreOf(sent, p)[p] \in Nat
        /\ \A q \in Producers : q # p => OneMoreOf(sent, p)[q] = sent[q]
    BY <1>0 DEF OneMoreOf
  <2>3. SumFunctionOnSet(OneMoreOf(sent, p), Producers)
          = SumFunctionOnSet(sent, Producers) + (OneMoreOf(sent, p)[p] - sent[p])
    BY <2>2, SumUpdate
  <2>4. SumFunctionOnSet(sent, Producers) \in Nat
    BY <2>2, SumType
  <2> QED BY <2>1, <2>3, <2>4
<1>3. Len(Append(queue, Value(p, sent[p] + 1))) = Len(queue) + 1 /\ Len(queue) \in Nat
  BY <1>0, <1>1, PlacesAppend
<1>4. ASSUME NEW v \in Word
      PROVE  Cardinality(PutAs(OneMoreOf(sent, p), v))
             = Cardinality(Places(Append(queue, Value(p, sent[p] + 1)), v)) + Cardinality(GotAs(received, v))
  <2>1. Cardinality(PutAs(OneMoreOf(sent, p), v)) = Cardinality(PutAs(sent, v)) + (IF Value(p, sent[p] + 1) = v THEN 1 ELSE 0)
    BY <1>0, PutAsGrows
  <2>2. Cardinality(Places(Append(queue, Value(p, sent[p] + 1)), v))
          = Cardinality(Places(queue, v)) + (IF Value(p, sent[p] + 1) = v THEN 1 ELSE 0)
    BY <1>0, <1>1, PlacesAppend
  <2>3. /\ Cardinality(Places(queue, v)) \in Nat /\ Cardinality(GotAs(received, v)) \in Nat
        /\ Cardinality(PutAs(sent, v)) \in Nat
    BY <1>0, PlacesFinite, PairsFinite
  <2>4. Cardinality(PutAs(sent, v))
          = Cardinality(Places(queue, v)) + Cardinality(GotAs(received, v))
    BY DEF Balanced
  <2> QED BY <2>1, <2>2, <2>3, <2>4
<1>5. SumFunctionOnSet(sent, Producers)
        = Len(queue) + SumFunctionOnSet(Lengths(received), Consumers)
      /\ SumFunctionOnSet(Lengths(received), Consumers) \in Nat
  <2>1. \A c \in Consumers : Lengths(received)[c] \in Nat
    BY <1>0, LenProperties DEF Lengths
  <2> QED BY <2>1, SumType DEF Balanced
<1> QED BY <1>2, <1>3, <1>4, <1>5 DEF Balanced

\* Get keeps the balance.
LEMMA GetBalances ==
  ASSUME NEW queue, NEW sent, NEW received, FifoTypes(queue, sent, received),
         Balanced(queue, sent, received), NEW c \in Consumers, queue # <<>>
  PROVE  Balanced(Tail(queue), sent, GivenTo(received, c, Head(queue)))
<1> USE Parameters
<1>0. /\ queue \in Seq(Word) /\ received \in [Consumers -> Seq(Word)]
      /\ received[c] \in Seq(Word) /\ \A d \in Consumers : Len(received[d]) \in Nat
  BY LenProperties DEF FifoTypes
<1>1. /\ Head(queue) \in Word /\ Tail(queue) \in Seq(Word)
      /\ Len(Tail(queue)) = Len(queue) - 1 /\ Len(queue) \in Nat \ {0}
  BY <1>0, HeadTailProperties, EmptySeq
<1>2. Len(received[c]) < Total
  <2>1. Len(queue) + Len(received[c]) <= Total /\ Total \in Nat
    BY RoomToGet DEF Total
  <2> QED BY <1>0, <1>1, <2>1
<1>3. /\ SumFunctionOnSet(Lengths(GivenTo(received, c, Head(queue))), Consumers)
           = SumFunctionOnSet(Lengths(received), Consumers) + 1
      /\ SumFunctionOnSet(Lengths(received), Consumers) \in Nat
  <2>1. \A d \in Consumers : Lengths(received)[d] \in Nat
    BY <1>0 DEF Lengths
  <2>2. Lengths(GivenTo(received, c, Head(queue)))[c] = Lengths(received)[c] + 1
    BY <1>0, <1>1, PlacesAppend DEF Lengths, GivenTo
  <2>3. /\ Lengths(GivenTo(received, c, Head(queue)))[c] \in Nat
        /\ \A d \in Consumers : d # c => Lengths(GivenTo(received, c, Head(queue)))[d] = Lengths(received)[d]
    <3>1. Lengths(received)[c] \in Nat
      BY <2>1
    <3> QED BY <2>2, <3>1 DEF Lengths, GivenTo
  <2>4. SumFunctionOnSet(Lengths(GivenTo(received, c, Head(queue))), Consumers)
          = SumFunctionOnSet(Lengths(received), Consumers)
            + (Lengths(GivenTo(received, c, Head(queue)))[c] - Lengths(received)[c])
    BY <2>1, <2>3, SumUpdate
  <2>5. SumFunctionOnSet(Lengths(received), Consumers) \in Nat /\ Lengths(received)[c] \in Nat
    BY <2>1, SumType
  <2> QED BY <2>2, <2>4, <2>5
<1>4. ASSUME NEW v \in Word
      PROVE  Cardinality(PutAs(sent, v))
             = Cardinality(Places(Tail(queue), v)) + Cardinality(GotAs(GivenTo(received, c, Head(queue)), v))
  <2>1. Cardinality(GotAs(GivenTo(received, c, Head(queue)), v))
          = Cardinality(GotAs(received, v)) + (IF Head(queue) = v THEN 1 ELSE 0)
    BY <1>0, <1>1, <1>2, GotAsGrows
  <2>2. Cardinality(Places(queue, v))
          = Cardinality(Places(Tail(queue), v)) + (IF Head(queue) = v THEN 1 ELSE 0)
    BY <1>0, PlacesTail
  <2>3. /\ Cardinality(Places(Tail(queue), v)) \in Nat
        /\ Cardinality(GotAs(received, v)) \in Nat
    BY <1>1, PlacesFinite, PairsFinite
  <2>4. Cardinality(PutAs(sent, v))
          = Cardinality(Places(queue, v)) + Cardinality(GotAs(received, v))
    BY DEF Balanced
  <2> QED BY <2>1, <2>2, <2>3, <2>4
<1>5. SumFunctionOnSet(sent, Producers)
        = Len(queue) + SumFunctionOnSet(Lengths(received), Consumers)
  BY DEF Balanced
<1> QED BY <1>1, <1>3, <1>4, <1>5 DEF Balanced

-----------------------------------------------------------------------------
(* What becomes of the items.                                               *)

\* Every item put is in the queue or with a consumer, as many times as it was
\* put.
NothingLost == Balanced(Contents, SentNow, ReceivedNow)

\* The queue's state has the types the lemmas about the abstract steps ask for.
LEMMA NowTypes == TypeOK => FifoTypes(Contents, SentNow, ReceivedNow)
<1> SUFFICES ASSUME TypeOK PROVE FifoTypes(Contents, SentNow, ReceivedNow)
  OBVIOUS
<1> USE Parameters DEF TypeOK
<1>1. Contents \in Seq(Word)
  BY ContentsType DEF ContentsOK
<1>2. \A p \in Producers : Sent(p) \in 0 .. ItemsPerProducer
  BY DEF Sent, PcsOK, PushPcs
<1>3. \A c \in Consumers : Received(c) \in Seq(Word)
  BY AppendProperties DEF Received
<1> QED BY <1>1, <1>2, <1>3 DEF FifoTypes, SentNow, ReceivedNow

\* The empty queue.
LEMMA NothingLostInit == Init => NothingLost
<1> SUFFICES ASSUME Init PROVE NothingLost
  OBVIOUS
<1> USE Parameters
<1>1. /\ Contents = <<>> /\ SentNow = [p \in Producers |-> 0]
      /\ ReceivedNow = [c \in Consumers |-> <<>>]
  BY InitRefines DEF Fifo!Init, SentNow, ReceivedNow
<1>2. /\ \A p \in Producers : SentNow[p] = 0
      /\ \A c \in Consumers : ReceivedNow[c] = <<>>
  BY <1>1
<1>3. \A c \in Consumers : Lengths(ReceivedNow)[c] = 0
  BY <1>2, EmptySeq DEF Lengths
<1>4. /\ SumFunctionOnSet(SentNow, Producers) = Cardinality(Producers) * 0
      /\ SumFunctionOnSet(Lengths(ReceivedNow), Consumers) = Cardinality(Consumers) * 0
  <2>1. 0 \in Nat
    OBVIOUS
  <2>2. SumFunctionOnSet(SentNow, Producers) = Cardinality(Producers) * 0
    BY <1>2, <2>1, SumConst
  <2>3. SumFunctionOnSet(Lengths(ReceivedNow), Consumers) = Cardinality(Consumers) * 0
    BY <1>3, <2>1, SumConst
  <2> QED BY <2>2, <2>3
<1>5. Cardinality(Producers) \in Nat /\ Cardinality(Consumers) \in Nat
  BY FS_CardinalityType
<1>6. Len(Contents) = 0
  BY <1>1, EmptySeq
<1>7. ASSUME NEW v \in Word
      PROVE  PutAs(SentNow, v) = {} /\ Places(Contents, v) = {} /\ GotAs(ReceivedNow, v) = {}
  <2>1. PutAs(SentNow, v) = {}
    BY <1>2 DEF PutAs
  <2>2. Places(Contents, v) = {}
    BY <1>6 DEF Places
  <2>3. \A c \in Consumers : Places(ReceivedNow[c], v) = {}
    BY <1>2, EmptySeq DEF Places
  <2>4. GotAs(ReceivedNow, v) = {}
    BY <2>3 DEF GotAs
  <2> QED BY <2>1, <2>2, <2>4
<1>8. ASSUME NEW v \in Word
      PROVE  Cardinality(PutAs(SentNow, v))
             = Cardinality(Places(Contents, v)) + Cardinality(GotAs(ReceivedNow, v))
  BY <1>7, FS_EmptySet
<1> QED BY <1>4, <1>5, <1>6, <1>8 DEF NothingLost, Balanced

\* Every operation of the abstract queue keeps the balance.
LEMMA NothingLostStep ==
  TypeOK /\ TypeOK' /\ QueueConsistent /\ NothingLost /\ [Next]_vars => NothingLost'
<1> SUFFICES ASSUME TypeOK, TypeOK', QueueConsistent, NothingLost, [Next]_vars
             PROVE  NothingLost'
  OBVIOUS
<1>1. FifoTypes(Contents, SentNow, ReceivedNow)
  BY NowTypes
<1>2. ASSUME NEW p \in Producers, Fifo!Put(p) PROVE NothingLost'
  <2>1. /\ SentNow[p] < ItemsPerProducer /\ SentNow[p] \in 0 .. ItemsPerProducer
        /\ Contents' = Append(Contents, Stream[p][SentNow[p] + 1])
        /\ SentNow' = OneMoreOf(SentNow, p) /\ ReceivedNow' = ReceivedNow
    BY <1>1, <1>2, Parameters DEF Fifo!Put, Stream, SentNow, ReceivedNow, OneMoreOf, FifoTypes
  <2>2. Contents' = Append(Contents, Value(p, SentNow[p] + 1))
    BY <2>1, Parameters DEF Stream
  <2>3. Balanced(Append(Contents, Value(p, SentNow[p] + 1)), OneMoreOf(SentNow, p), ReceivedNow)
    BY <1>1, <2>1, PutBalances DEF NothingLost
  <2> QED BY <2>1, <2>2, <2>3 DEF NothingLost
<1>3. ASSUME NEW c \in Consumers, Fifo!Get(c) PROVE NothingLost'
  <2>1. /\ Contents # <<>> /\ Contents' = Tail(Contents) /\ SentNow' = SentNow
        /\ ReceivedNow' = GivenTo(ReceivedNow, c, Head(Contents))
    BY <1>3 DEF Fifo!Get, SentNow, ReceivedNow, GivenTo
  <2>2. Balanced(Tail(Contents), SentNow, GivenTo(ReceivedNow, c, Head(Contents)))
    BY <1>1, <2>1, GetBalances DEF NothingLost
  <2> QED BY <2>1, <2>2 DEF NothingLost
<1>4. ASSUME UNCHANGED <<Contents, SentNow, ReceivedNow>> PROVE NothingLost'
  BY <1>4 DEF NothingLost
<1>5. ASSUME NEW p \in Producers, Fifo!Close(p) PROVE NothingLost'
  BY <1>4, <1>5 DEF Fifo!Close, SentNow, ReceivedNow
<1>6. ASSUME NEW c \in Consumers, Fifo!Stop(c) PROVE NothingLost'
  BY <1>4, <1>6 DEF Fifo!Stop, SentNow, ReceivedNow
<1>7. Fifo!Next \/ UNCHANGED <<Contents, SentNow, ReceivedNow>>
  BY StepRefines DEF fifoVars
<1> QED BY <1>2, <1>3, <1>4, <1>5, <1>6, <1>7 DEF Fifo!Next

\* Nothing is lost, duplicated or made up on the way from the producers to the
\* consumers, even if producers push equal values.
THEOREM ItemsConserved == Spec => []NothingLost
<1>1. TypeOK /\ TypeOK' /\ QueueConsistent /\ NothingLost /\ [Next]_vars => NothingLost'
  BY NothingLostStep
<1>2. Init => NothingLost
  BY NothingLostInit
<1> QED BY <1>1, <1>2, TypeCorrect, FieldsAgree, PTL DEF Spec

\* With no more producers than ids that the tag tells apart, an item's value
\* tells its producer and its place in that producer's stream.
LEMMA ValuesDiffer ==
  ASSUME NumProducers <= IdTags, NEW p \in Producers, NEW q \in Producers,
         NEW i, NEW j, Value(p, i) = Value(q, j)
  PROVE  p = q /\ i = j
<1>1. /\ p \in Nat /\ p < IdTags /\ q \in Nat /\ q < IdTags /\ IdTags \in Nat \ {0}
  BY Parameters DEF Producers
<1>2. p % IdTags = p /\ q % IdTags = q
  BY <1>1, ModSmall
<1> QED BY <1>2 DEF Value

\* Each item pushed is once in the ring or once with one consumer.
LEMMA OnceFromBalance ==
  ASSUME NumProducers <= IdTags, TypeOK, NothingLost
  PROVE  ExactlyOnce
<1> SUFFICES ASSUME NEW p \in Producers, NEW i \in 1 .. ItemsPerProducer
             PROVE  Cardinality({k \in DOMAIN Contents : Contents[k] = Value(p, i)})
                    + SumFunction([c \in Consumers |->
                         Cardinality({k \in DOMAIN Received(c) : Received(c)[k] = Value(p, i)})])
                    = IF i <= Sent(p) THEN 1 ELSE 0
  BY DEF ExactlyOnce
<1> USE Parameters
<1> DEFINE v == Value(p, i)
           f == [c \in Consumers |-> Cardinality({k \in DOMAIN Received(c) : Received(c)[k] = Value(p, i)})]
           F == [c \in Consumers |-> Places(ReceivedNow[c], v)]
           K == 1 .. Total
<1>1. FifoTypes(Contents, SentNow, ReceivedNow)
  BY NowTypes
<1>2. v \in Word
  <2>1. i \in 0 .. ItemsPerProducer
    OBVIOUS
  <2> QED BY <2>1, ValueType
<1>3. {k \in DOMAIN Contents : Contents[k] = Value(p, i)} = Places(Contents, v)
  BY <1>1, LenProperties DEF FifoTypes, Places
<1>4. /\ \A c \in Consumers : f[c] = Cardinality(F[c])
      /\ SumFunction(f) = SumFunctionOnSet(f, Consumers)
  <2>1. \A c \in Consumers : /\ ReceivedNow[c] = Received(c)
                             /\ DOMAIN Received(c) = 1 .. Len(Received(c))
    BY <1>1, LenProperties DEF ReceivedNow, FifoTypes
  <2>2. \A c \in Consumers :
          {k \in DOMAIN Received(c) : Received(c)[k] = Value(p, i)} = Places(ReceivedNow[c], v)
    BY <2>1 DEF Places
  <2>3. DOMAIN f = Consumers
    OBVIOUS
  <2> QED BY <2>2, <2>3 DEF SumFunction
<1>5. F \in [Consumers -> SUBSET K]
  <2> SUFFICES ASSUME NEW c \in Consumers PROVE Places(ReceivedNow[c], v) \subseteq K
    OBVIOUS
  <2>1. Len(Contents) + Len(ReceivedNow[c]) <= Total
    BY <1>1, RoomToGet DEF NothingLost
  <2>2. Len(Contents) \in Nat /\ Len(ReceivedNow[c]) \in Nat /\ Total \in Nat
    BY <1>1, LenProperties DEF FifoTypes, Total
  <2> QED BY <2>1, <2>2 DEF Places
<1>6. SumFunctionOnSet(f, Consumers) = Cardinality(GotAs(ReceivedNow, v))
  <2>1. IsFiniteSet(K)
    BY FS_Interval DEF Total
  <2>2. GotAs(ReceivedNow, v) = {s \in Consumers \X K : s[2] \in F[s[1]]}
    BY DEF GotAs
  <2>3. \A c \in Consumers : f[c] = Cardinality(F[c])
    BY <1>4
  <2>4. IsFiniteSet(Consumers)
    OBVIOUS
  <2> HIDE Parameters DEF f, F, K, v
  <2>5. SumFunctionOnSet(f, Consumers) = Cardinality({s \in Consumers \X K : s[2] \in F[s[1]]})
    BY ONLY <1>5, <2>1, <2>3, <2>4, SumOfCardinalities
  <2> QED BY <2>2, <2>5
<1>7. Cardinality(PutAs(SentNow, v)) = IF i <= Sent(p) THEN 1 ELSE 0
  <2>1. \A s \in Producers \X (1 .. ItemsPerProducer) :
          s \in PutAs(SentNow, v) <=> i <= Sent(p) /\ s = <<p, i>>
    BY ValuesDiffer DEF PutAs, SentNow
  <2>2. PutAs(SentNow, v) \subseteq Producers \X (1 .. ItemsPerProducer)
    BY DEF PutAs
  <2>3. PutAs(SentNow, v) = IF i <= Sent(p) THEN {<<p, i>>} ELSE {}
    BY <2>1, <2>2
  <2> QED BY <2>3, FS_Singleton, FS_EmptySet
<1>8. Cardinality(PutAs(SentNow, v))
        = Cardinality(Places(Contents, v)) + Cardinality(GotAs(ReceivedNow, v))
  BY <1>2 DEF NothingLost, Balanced
<1> QED BY <1>3, <1>4, <1>6, <1>7, <1>8

\* Every item reaches exactly one consumer, once.
THEOREM DeliveredExactlyOnce ==
  ASSUME NumProducers <= IdTags PROVE Spec => []ExactlyOnce
<1>1. TypeOK /\ NothingLost => ExactlyOnce
  BY OnceFromBalance
<1> QED BY <1>1, TypeCorrect, ItemsConserved, PTL

\* No two producers push the same value, with no more producers than tags.
THEOREM StreamsUnique ==
  ASSUME NumProducers <= IdTags PROVE Spec => []UniqueStreams
<1>1. UniqueStreams
  BY ValuesDiffer DEF UniqueStreams
<1> QED BY <1>1, PTL

-----------------------------------------------------------------------------
(* What run_once returns.                                                   *)

\* The report of the counters as they are.
ReportNow ==
  [total_produced |-> SumFunction(produced),
   total_consumed |-> SumFunction([c \in Consumers |-> Len(delivered[c])]),
   max_observed_queue_depth |-> max_observed_count,
   full_waits |-> \E p \in Producers : waited[p],
   checksum |-> Checksum]

\* run_once is past a join loop only when its threads have returned, and what
\* it reported is still so; a producer waited only when the ring was full.
Joined ==
  /\ main \in {"join_consumers", "reported"} => Finished(Producers)
  /\ main = "reported" => Finished(Consumers) /\ report = ReportNow
WaitedWhenFull == \A p \in Producers : waited[p] => max_observed_count = Capacity

\* A thread that has returned takes no step and is not woken.
LEMMA DoneStays ==
  ASSUME TypeOK, [Next]_vars, NEW t \in Threads, pc[t] = "done"
  PROVE  pc'[t] = "done"
<1> USE DEF Threads, NotFull, NotEmpty
<1>1. ASSUME NEW u \in Threads, NEW next, Goto(u, next), pc[u] # "done"
      PROVE  pc'[t] = "done"
  BY <1>1 DEF Goto, TypeOK, PcsOK
<1>2. ASSUME NEW u \in Threads, NEW next, NEW cv \in {NotFull, NotEmpty},
             NEW woken \in Signal(cv) \cup Broadcast(cv), Move(u, next, woken, cv),
             pc[u] # "done"
      PROVE  pc'[t] = "done"
  <2>1. woken \subseteq Waiters(cv)
    BY <1>2, WokenWait
  <2>2. t \notin woken
    BY <2>1 DEF Waiters
  <2> QED BY <1>2, <2>2 DEF Move
<1>3. ASSUME NEW p \in Producers, ProducerStep(p) PROVE pc'[t] = "done"
  <2>1. CASE PushLock(p) \/ PushRelock(p) \/ FinishLock(p)
    BY <1>1, <2>1 DEF PushLock, PushRelock, FinishLock, Lock
  <2>2. CASE PushWait(p)
    BY <1>1, <2>2 DEF PushWait, Wait
  <2>3. CASE PushItem(p)
    BY <1>2, <2>3 DEF PushItem
  <2>4. CASE CountProduced(p)
    BY <1>1, <2>4 DEF CountProduced
  <2>5. CASE ProducerFinished(p)
    BY <1>2, <2>5 DEF ProducerFinished
  <2> QED BY <1>3, <2>1, <2>2, <2>3, <2>4, <2>5 DEF ProducerStep
<1>4. ASSUME NEW c \in Consumers, ConsumerStep(c) PROVE pc'[t] = "done"
  <2>1. CASE PopLock(c) \/ PopRelock(c)
    BY <1>1, <2>1 DEF PopLock, PopRelock, Lock
  <2>2. CASE PopWait(c)
    BY <1>1, <2>2 DEF PopWait, Wait
  <2>3. CASE PopItem(c)
    BY <1>2, <2>3 DEF PopItem
  <2>4. CASE CountConsumed(c)
    BY <1>1, <2>4 DEF CountConsumed
  <2>5. CASE PopEnd(c)
    BY <1>1, <2>5 DEF PopEnd
  <2> QED BY <1>4, <2>1, <2>2, <2>3, <2>4, <2>5 DEF ConsumerStep
<1>5. ASSUME NEW u \in Threads, SpuriousWakeup(u) PROVE pc'[t] = "done"
  BY <1>1, <1>5 DEF SpuriousWakeup
<1>6. ASSUME JoinProducers \/ Report \/ UNCHANGED vars PROVE pc'[t] = "done"
  BY <1>6 DEF JoinProducers, Report, vars
<1> QED BY <1>3, <1>4, <1>5, <1>6 DEF Next, Terminated

\* Once all threads have returned only run_once is left to move.
LEMMA AllDone ==
  ASSUME Finished(Producers), Finished(Consumers), [Next]_vars
  PROVE  UNCHANGED <<mutex, queueVars, pc, statsVars>>
<1> USE DEF Finished, Threads, NotFull, NotEmpty
<1>1. ASSUME NEW p \in Producers, ProducerStep(p) PROVE FALSE
  BY <1>1 DEF ProducerStep, PushLock, PushRelock, FinishLock, Lock, PushWait, Wait,
              PushItem, CountProduced, ProducerFinished
<1>2. ASSUME NEW c \in Consumers, ConsumerStep(c) PROVE FALSE
  BY <1>2 DEF ConsumerStep, PopLock, PopRelock, Lock, PopWait, Wait, PopItem,
              CountConsumed, PopEnd
<1>3. ASSUME NEW t \in Threads, SpuriousWakeup(t) PROVE FALSE
  BY <1>3 DEF SpuriousWakeup
<1> QED BY <1>1, <1>2, <1>3 DEF Next, Terminated, JoinProducers, Report, vars

\* Nobody but run_once touches main and report.
LEMMA OnlyMainReports ==
  ASSUME [Next]_vars, ~JoinProducers, ~Report PROVE UNCHANGED mainVars
BY DEF Next, Terminated, vars, mainVars, ProducerStep, PushLock, PushRelock, FinishLock,
       Lock, PushWait, Wait, PushItem, CountProduced, ProducerFinished, ConsumerStep,
       PopLock, PopRelock, PopWait, PopItem, CountConsumed, PopEnd, SpuriousWakeup

\* The joins wait for the threads, and what is reported stays true.
LEMMA JoinedStep == TypeOK /\ Joined /\ [Next]_vars => Joined'
<1> SUFFICES ASSUME TypeOK, Joined, [Next]_vars PROVE Joined'
  OBVIOUS
<1>1. \A S \in SUBSET Threads : Finished(S) => Finished(S)'
  BY DoneStays DEF Finished
<1>2. /\ Finished(Producers) => Finished(Producers)'
      /\ Finished(Consumers) => Finished(Consumers)'
  BY <1>1 DEF Threads
<1>3. CASE JoinProducers
  BY <1>2, <1>3 DEF JoinProducers, Joined
<1>4. CASE Report
  <2>1. /\ main = "join_consumers" /\ main' = "reported"
        /\ Finished(Consumers) /\ Finished(Producers)
    BY <1>4 DEF Report, ConsumersJoined, Joined
  <2>2. report' = ReportNow
    BY <1>4 DEF Report, ReportNow
  <2>3. ReportNow' = ReportNow
    BY <1>4 DEF Report, ReportNow, statsVars, queueVars, Checksum, Occurrences
  <2> QED BY <1>2, <2>1, <2>2, <2>3 DEF Joined
<1>5. CASE ~JoinProducers /\ ~Report
  <2>1. main' = main /\ report' = report
    BY <1>5, OnlyMainReports DEF mainVars
  <2>2. CASE main = "reported"
    <3>1. Finished(Consumers) /\ Finished(Producers) /\ report = ReportNow
      BY <2>2 DEF Joined
    <3>2. UNCHANGED <<mutex, queueVars, pc, statsVars>>
      BY <3>1, AllDone
    <3>3. ReportNow' = ReportNow
      BY <3>2 DEF ReportNow, statsVars, queueVars, Checksum, Occurrences
    <3> QED BY <1>2, <2>1, <3>1, <3>3 DEF Joined
  <2>3. CASE main # "reported"
    BY <1>2, <2>1, <2>3 DEF Joined
  <2> QED BY <2>2, <2>3
<1> QED BY <1>3, <1>4, <1>5

\* A producer waits only in front of a full ring, and the high-water mark
\* does not come down.
LEMMA WaitedStep ==
  TypeOK /\ TypeOK' /\ QueueConsistent /\ WaitedWhenFull /\ [Next]_vars => WaitedWhenFull'
<1> SUFFICES ASSUME TypeOK, TypeOK', QueueConsistent, WaitedWhenFull, [Next]_vars
             PROVE  WaitedWhenFull'
  OBVIOUS
<1> USE Parameters
<1>1. ASSUME \A p \in Producers : waited'[p] => waited[p],
             max_observed_count' >= max_observed_count
      PROVE  WaitedWhenFull'
  <2>1. max_observed_count' \in 0 .. Capacity /\ max_observed_count \in 0 .. Capacity
    BY DEF TypeOK
  <2> QED BY <1>1, <2>1 DEF WaitedWhenFull
<1>2. ASSUME UNCHANGED <<waited, max_observed_count>> PROVE WaitedWhenFull'
  BY <1>2 DEF WaitedWhenFull
<1>3. ASSUME NEW p \in Producers, PushWait(p) PROVE WaitedWhenFull'
  <2>1. max_observed_count = Capacity /\ max_observed_count' = max_observed_count
    BY <1>3 DEF PushWait, IsFull, Wait, QueueConsistent, TypeOK, queueVars
  <2> QED BY <2>1 DEF WaitedWhenFull
<1>4. ASSUME NEW p \in Producers, PushItem(p) PROVE WaitedWhenFull'
  <2>1. waited' = waited /\ max_observed_count' >= max_observed_count
    BY <1>4 DEF PushItem, statsVars, TypeOK
  <2> QED BY <1>1, <2>1
<1>5. ASSUME NEW c \in Consumers, PopWait(c) PROVE WaitedWhenFull'
  <2>1. \A p \in Producers : waited'[p] = waited[p]
    BY <1>5 DEF PopWait, Wait, TypeOK, Threads
  <2>2. max_observed_count' = max_observed_count
    BY <1>5 DEF PopWait, Wait, queueVars
  <2> QED BY <2>1, <2>2 DEF WaitedWhenFull
<1>6. ASSUME NEW p \in Producers, ProducerStep(p) PROVE WaitedWhenFull'
  BY <1>2, <1>3, <1>4, <1>6
     DEF ProducerStep, PushLock, PushRelock, FinishLock, Lock, CountProduced,
         ProducerFinished, queueVars, statsVars
<1>7. ASSUME NEW c \in Consumers, ConsumerStep(c) PROVE WaitedWhenFull'
  BY <1>2, <1>5, <1>7
     DEF ConsumerStep, PopLock, PopRelock, Lock, PopItem, CountConsumed, PopEnd,
         queueVars, statsVars
<1>8. ASSUME \/ \E t \in Threads : SpuriousWakeup(t)
             \/ JoinProducers \/ Report \/ UNCHANGED vars
      PROVE  WaitedWhenFull'
  BY <1>2, <1>8 DEF SpuriousWakeup, JoinProducers, Report, vars, queueVars, statsVars
<1> QED BY <1>6, <1>7, <1>8 DEF Next, Terminated

\* What the balance says when the ring is empty and everybody has returned:
\* every value was pushed as often as it was popped.
LEMMA ChecksumCancels ==
  ASSUME TypeOK, NothingLost, count = 0, Finished(Producers), Finished(Consumers)
  PROVE  /\ Checksum = {}
         /\ SumFunction(produced) = NumProducers * ItemsPerProducer
         /\ SumFunction([c \in Consumers |-> Len(delivered[c])]) = NumProducers * ItemsPerProducer
<1> USE Parameters
<1>0. FifoTypes(Contents, SentNow, ReceivedNow)
  BY NowTypes
<1>1. /\ \A p \in Producers : SentNow[p] = produced[p] /\ produced[p] = ItemsPerProducer
      /\ \A c \in Consumers : ReceivedNow[c] = delivered[c]
      /\ produced \in [Producers -> 0 .. ItemsPerProducer]
      /\ delivered \in [Consumers -> Seq(Word)]
  BY DEF TypeOK, PcsOK, Finished, SentNow, ReceivedNow, Sent, Received
<1>2. SentNow = produced /\ ReceivedNow = delivered
  BY <1>1 DEF SentNow, ReceivedNow
<1>3. Len(Contents) = 0
  BY ContentsType DEF ContentsOK
<1>4. \A v \in Word : Cardinality(PutAs(produced, v)) = Cardinality(GotAs(delivered, v))
  <2> SUFFICES ASSUME NEW v \in Word
               PROVE  Cardinality(PutAs(produced, v)) = Cardinality(GotAs(delivered, v))
    OBVIOUS
  <2>1. Places(Contents, v) = {}
    BY <1>3 DEF Places
  <2>2. Cardinality(PutAs(produced, v))
          = Cardinality(Places(Contents, v)) + Cardinality(GotAs(delivered, v))
    BY <1>2 DEF NothingLost, Balanced
  <2> QED BY <2>1, <2>2, FS_EmptySet, PairsFinite
<1>5. ASSUME NEW v \in Word
      PROVE  Occurrences(v) = Cardinality(PutAs(produced, v)) + Cardinality(GotAs(delivered, v))
  <2>1. {s \in Producers \X (1 .. ItemsPerProducer) :
           s[2] <= produced[s[1]] /\ Value(s[1], s[2]) = v} = PutAs(produced, v)
    BY DEF PutAs
  <2>2. \A c \in Consumers : DOMAIN delivered[c] = 1 .. Len(delivered[c])
    BY <1>1, LenProperties
  <2>3. {s \in Consumers \X (1 .. NumProducers * ItemsPerProducer) :
           s[2] \in DOMAIN delivered[s[1]] /\ delivered[s[1]][s[2]] = v} = GotAs(delivered, v)
    BY <2>2 DEF GotAs, Places, Total
  <2> QED BY <2>1, <2>3 DEF Occurrences
<1>6. Checksum = {}
  <2> SUFFICES ASSUME NEW v \in Word PROVE Occurrences(v) % 2 # 1
    BY DEF Checksum
  <2>1. Cardinality(GotAs(delivered, v)) \in Nat
    BY PairsFinite
  <2>2. \A n \in Nat : (n + n) % 2 # 1
    OBVIOUS
  <2> QED BY <1>4, <1>5, <2>1, <2>2
<1>7. SumFunction(produced) = NumProducers * ItemsPerProducer
  <2>1. SumFunction(produced) = SumFunctionOnSet(produced, Producers)
    BY <1>1 DEF SumFunction
  <2>2. \A p \in Producers : produced[p] = ItemsPerProducer
    BY <1>1
  <2>3. SumFunctionOnSet(produced, Producers) = Cardinality(Producers) * ItemsPerProducer
    BY <2>2, SumConst
  <2>4. Cardinality(Producers) = NumProducers
    BY FS_Interval DEF Producers
  <2> QED BY <2>1, <2>3, <2>4
<1>8. SumFunction([c \in Consumers |-> Len(delivered[c])]) = SumFunction(produced)
  <2>1. SumFunction([c \in Consumers |-> Len(delivered[c])])
          = SumFunctionOnSet(Lengths(delivered), Consumers)
    BY DEF SumFunction, Lengths
  <2>2. SumFunctionOnSet(produced, Producers)
          = Len(Contents) + SumFunctionOnSet(Lengths(delivered), Consumers)
    BY <1>2 DEF NothingLost, Balanced
  <2>3. SumFunctionOnSet(Lengths(delivered), Consumers) \in Nat
    <3>1. \A c \in Consumers : Lengths(delivered)[c] \in Nat
      BY <1>1, LenProperties DEF Lengths
    <3> QED BY <3>1, SumType
  <2>4. SumFunction(produced) = SumFunctionOnSet(produced, Producers)
    BY <1>1 DEF SumFunction
  <2> QED BY <1>3, <2>1, <2>2, <2>3, <2>4
<1> QED BY <1>6, <1>7, <1>8

\* The report, from what holds when all threads have returned.
LEMMA ReportFromInvariants ==
  /\ TypeOK /\ MutualExclusion /\ DrainedBeforeExit /\ NothingLost
  /\ Joined /\ WaitedWhenFull
  => ReportExact
<1> SUFFICES ASSUME TypeOK, MutualExclusion, DrainedBeforeExit, NothingLost,
                    Joined, WaitedWhenFull, main = "reported"
             PROVE  /\ report.total_produced = NumProducers * ItemsPerProducer
                    /\ report.total_consumed = NumProducers * ItemsPerProducer
                    /\ report.checksum = {}
                    /\ report.full_waits => report.max_observed_queue_depth = Capacity
                    /\ MutexFree
                    /\ Waiters(NotEmpty) \cup Waiters(NotFull) = {}
  BY DEF ReportExact
<1> USE Parameters
<1>1. Finished(Producers) /\ Finished(Consumers) /\ report = ReportNow
  BY DEF Joined
<1>2. \A t \in Threads : pc[t] = "done"
  BY <1>1 DEF Finished, Threads
<1>3. count = 0
  <2>1. PICK c \in Consumers : TRUE
    BY QueueAssumption
  <2>2. pc[c] = "done"
    BY <1>2 DEF Threads
  <2> QED BY <2>2 DEF DrainedBeforeExit
<1>4. MutexFree
  BY <1>2 DEF MutexFree, MutualExclusion, TypeOK, Critical
<1>5. Waiters(NotEmpty) \cup Waiters(NotFull) = {}
  BY <1>2 DEF Waiters, NotEmpty, NotFull
<1>6. report.full_waits => report.max_observed_queue_depth = Capacity
  BY <1>1 DEF ReportNow, WaitedWhenFull
<1>7. /\ report.total_produced = SumFunction(produced)
      /\ report.total_consumed = SumFunction([c \in Consumers |-> Len(delivered[c])])
      /\ report.checksum = Checksum
  BY <1>1 DEF ReportNow
<1> QED BY <1>1, <1>3, <1>4, <1>5, <1>6, <1>7, ChecksumCancels

\* run_once reports that everything was produced and consumed and that the
\* checksums cancel, and destroys a queue that nobody owns or waits for.
THEOREM ReportsExactly == Spec => []ReportExact
<1>1. TypeOK /\ Joined /\ [Next]_vars => Joined'
  BY JoinedStep
<1>2. TypeOK /\ TypeOK' /\ QueueConsistent /\ WaitedWhenFull /\ [Next]_vars => WaitedWhenFull'
  BY WaitedStep
<1>3. Init => Joined /\ WaitedWhenFull
  BY Parameters DEF Init, Joined, WaitedWhenFull, Threads
<1>4. /\ TypeOK /\ MutualExclusion /\ DrainedBeforeExit /\ NothingLost
      /\ Joined /\ WaitedWhenFull
      => ReportExact
  BY ReportFromInvariants
<1> QED BY <1>1, <1>2, <1>3, <1>4, TypeCorrect, FieldsAgree, MutexExcludes,
           ExitsDrained, ItemsConserved, PTL DEF Spec
=============================================================================
