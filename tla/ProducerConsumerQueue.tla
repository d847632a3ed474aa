------------------------ MODULE ProducerConsumerQueue ------------------------
(***************************************************************************)
(* One run_once of 04-concurrency/05-producer-consumer-queue: a bounded    *)
(* blocking queue (ring buffer, pthread mutex, two condition variables),   *)
(* the producer and consumer threads that use it, and the thread that      *)
(* joins them and adds up their counters.                                  *)
(*                                                                         *)
(* A step is what a thread does between two points at which another thread *)
(* can notice: taking the mutex, then the rest of the critical section up  *)
(* to the unlock or to the wait that releases the mutex, then the private  *)
(* bookkeeping after it.  Timing, busy_work and CPU pinning are left out.  *)
(***************************************************************************)
EXTENDS Naturals, Sequences, FiniteSets, Functions

CONSTANTS
  NumProducers,      \* --producers
  Consumers,         \* the consumer threads (--consumers of them)
  Capacity,          \* --capacity
  ItemsPerProducer,  \* --items-per-producer
  IdTags,            \* how many ids `(uint64_t)id << 56` tells apart: 2^8
  Nobody             \* the mutex has no owner

Producers == 0 .. NumProducers - 1
Threads == Producers \cup Consumers

\* parse_options rejects the rest; no item is 2^56 or more, so an id's tag
\* and its counter never overlap in the 64-bit value.
ASSUME QueueAssumption ==
  /\ NumProducers \in Nat \ {0}
  /\ IsFiniteSet(Consumers)
  /\ Consumers # {}
  /\ Consumers \cap Producers = {}
  /\ Capacity \in Nat \ {0}
  /\ ItemsPerProducer \in Nat
  /\ IdTags \in Nat \ {0}
  /\ Nobody \notin Threads

VARIABLES
  mutex,               \* the thread that owns q->mutex, or Nobody
  buffer, head, tail, count, max_observed_count, active_producers,
                       \* the fields of queue_t
  pc,                  \* where each thread is
  produced,            \* stats.produced of each producer
  waited,              \* is the thread's full_wait_count/empty_wait_count > 0?
  item,                \* consumer_main's local item
  delivered,           \* the items a consumer has added to its consumed count
                       \* and its checksum, in order
  main,                \* where run_once is
  report               \* the run_result_t it returns

queueVars == <<buffer, head, tail, count, max_observed_count, active_producers>>
statsVars == <<produced, waited, item, delivered>>
mainVars == <<main, report>>
vars == <<mutex, queueVars, pc, statsVars, mainVars>>

-----------------------------------------------------------------------------
(* Items.  The i-th value of producer id is (id << 56) ^ i in 64 bits; with *)
(* i below 2^56 that is the pair of the id's low 8 bits and i.              *)

Value(p, i) == <<p % IdTags, i>>
Stream == [p \in Producers |-> [i \in 1 .. ItemsPerProducer |-> Value(p, i)]]
Word == (0 .. IdTags - 1) \X (0 .. ItemsPerProducer)
Zero == <<0, 0>>
Slots == 0 .. Capacity - 1

-----------------------------------------------------------------------------
(* The mutex and the condition variables.                                   *)

MutexIgnored == TRUE
MutexFree == mutex = Nobody

\* A thread inside the critical section.
Critical == {"push", "finish", "pop"}
\* The condition variable a waiting thread sleeps on, as its pc.
NotFull == "wait_not_full"
NotEmpty == "wait_not_empty"
Waiters(cv) == {t \in Threads : pc[t] = cv}

\* The pc of a woken thread that has not got the mutex back yet.
Relocking(cv) == IF cv = NotFull THEN "push_relock" ELSE "pop_relock"

\* The sets of threads that one pthread_cond_signal may wake: any one waiter.
SignalNone(cv) == {{}}
Signal(cv) == IF Waiters(cv) = {} THEN {{}} ELSE {{t} : t \in Waiters(cv)}

\* The set of threads that pthread_cond_broadcast wakes.
BroadcastOne(cv) == Signal(cv)
Broadcast(cv) == {Waiters(cv)}

\* Thread t moves to `next` and the threads in `woken` leave cv's wait.
Move(t, next, woken, cv) ==
  pc' = [u \in Threads |-> IF u = t THEN next
                           ELSE IF u \in woken THEN Relocking(cv) ELSE pc[u]]
Goto(t, next) == pc' = [pc EXCEPT ![t] = next]

NextIndexNoWrap(i) == i + 1
NextIndex(i) == (i + 1) % Capacity

-----------------------------------------------------------------------------
(* queue_init, and the calloc of the threads' arguments.  A thread that is  *)
(* not created yet and one not scheduled yet look the same, so all of them  *)
(* are there from the start.                                                *)

Init ==
  /\ mutex = Nobody
  /\ buffer = [s \in Slots |-> Zero]
  /\ head = 0
  /\ tail = 0
  /\ count = 0
  /\ max_observed_count = 0
  /\ active_producers = NumProducers
  /\ pc = [t \in Threads |-> IF t \in Producers THEN "produce" ELSE "fetch"]
  /\ produced = [p \in Producers |-> 0]
  /\ waited = [t \in Threads |-> FALSE]
  /\ item = [c \in Consumers |-> Zero]
  /\ delivered = [c \in Consumers |-> <<>>]
  /\ main = "join_producers"
  /\ report = <<>>

\* pthread_mutex_lock: from `from`, once the mutex is free, to `to`.
Lock(t, from, to) ==
  /\ pc[t] = from
  /\ MutexFree
  /\ mutex' = t
  /\ Goto(t, to)
  /\ UNCHANGED <<queueVars, statsVars, mainVars>>

\* pthread_cond_wait: the mutex is released and the thread sleeps, in one step.
Wait(t, from, cv) ==
  /\ pc[t] = from
  /\ waited' = [waited EXCEPT ![t] = TRUE]
  /\ mutex' = Nobody
  /\ Goto(t, cv)
  /\ UNCHANGED <<queueVars, produced, item, delivered, mainVars>>

\* A waiter may return with nobody having signalled.
SpuriousWakeup(t) ==
  /\ pc[t] \in {NotFull, NotEmpty}
  /\ Goto(t, Relocking(pc[t]))
  /\ UNCHANGED <<mutex, queueVars, statsVars, mainVars>>

-----------------------------------------------------------------------------
(* Producers.                                                               *)

\* producer_main's loop calls queue_push_blocking with its next item.
PushLock(p) == produced[p] < ItemsPerProducer /\ Lock(p, "produce", "push")
PushRelock(p) == Lock(p, "push_relock", "push")

IsFullOffByOne == count > Capacity
IsFull == count = Capacity

\* The `while` of queue_push_blocking finds the queue full.
PushWait(p) == IsFull /\ Wait(p, "push", NotFull)

\* The rest of queue_push_blocking: store, signal not_empty, unlock.
PushItem(p) ==
  /\ pc[p] = "push"
  /\ ~IsFull
  /\ buffer' = [buffer EXCEPT ![tail] = Value(p, produced[p] + 1)]
  /\ tail' = NextIndex(tail)
  /\ count' = count + 1
  /\ max_observed_count' =
       IF count + 1 > max_observed_count THEN count + 1 ELSE max_observed_count
  /\ \E woken \in Signal(NotEmpty) : Move(p, "pushed", woken, NotEmpty)
  /\ mutex' = Nobody
  /\ UNCHANGED <<head, active_producers, statsVars, mainVars>>

\* producer_main counts the item, and adds it to its checksum.
CountProduced(p) ==
  /\ pc[p] = "pushed"
  /\ produced' = [produced EXCEPT ![p] = @ + 1]
  /\ Goto(p, "produce")
  /\ UNCHANGED <<mutex, queueVars, waited, item, delivered, mainVars>>

\* queue_producer_finished, after the last item.
FinishLock(p) == produced[p] = ItemsPerProducer /\ Lock(p, "produce", "finish")

ProducerFinished(p) ==
  /\ pc[p] = "finish"
  /\ active_producers' = active_producers - 1
  /\ \E woken \in Broadcast(NotEmpty) : Move(p, "done", woken, NotEmpty)
  /\ mutex' = Nobody
  /\ UNCHANGED <<buffer, head, tail, count, max_observed_count, statsVars, mainVars>>

-----------------------------------------------------------------------------
(* Consumers.                                                               *)

PopLock(c) == Lock(c, "fetch", "pop")
PopRelock(c) == Lock(c, "pop_relock", "pop")

\* The condition of queue_pop_blocking's `while`.
MustWaitOnce(c) == count = 0 /\ active_producers > 0 /\ ~waited[c]
MustWait(c) == count = 0 /\ active_producers > 0

PopWait(c) == MustWait(c) /\ Wait(c, "pop", NotEmpty)

\* The `if` after it: no more work.
NoMoreProducers(c) == active_producers = 0
NoMoreWork(c) == count = 0 /\ active_producers = 0

\* queue_pop_blocking returns false, and consumer_main returns.
PopEnd(c) ==
  /\ pc[c] = "pop"
  /\ NoMoreWork(c)
  /\ mutex' = Nobody
  /\ Goto(c, "done")
  /\ UNCHANGED <<queueVars, statsVars, mainVars>>

\* The slot a pop takes.
PopSlot == head

\* The rest of queue_pop_blocking: take the head, signal not_full, unlock.
PopItem(c) ==
  /\ pc[c] = "pop"
  /\ ~MustWait(c)
  /\ ~NoMoreWork(c)
  /\ item' = [item EXCEPT ![c] = buffer[PopSlot]]
  /\ head' = NextIndex(head)
  /\ count' = count - 1
  /\ \E woken \in Signal(NotFull) : Move(c, "consume", woken, NotFull)
  /\ mutex' = Nobody
  /\ UNCHANGED <<buffer, tail, max_observed_count, active_producers,
                 produced, waited, delivered, mainVars>>

\* consumer_main counts the item, and adds it to its checksum.
CountConsumed(c) ==
  /\ pc[c] = "consume"
  /\ delivered' = [delivered EXCEPT ![c] = Append(@, item[c])]
  /\ Goto(c, "fetch")
  /\ UNCHANGED <<mutex, queueVars, produced, waited, item, mainVars>>

-----------------------------------------------------------------------------
(* run_once: the two join loops, then the totals.                           *)

Finished(S) == \A t \in S : pc[t] = "done"

JoinProducers ==
  /\ main = "join_producers"
  /\ Finished(Producers)
  /\ main' = "join_consumers"
  /\ UNCHANGED <<mutex, queueVars, pc, statsVars, report>>

\* XOR of all the checksums, as the set of values XORed in an odd number of
\* times; {} stands for 0.
Occurrences(v) ==
  Cardinality({s \in Producers \X (1 .. ItemsPerProducer) :
                 s[2] <= produced[s[1]] /\ Value(s[1], s[2]) = v})
  + Cardinality({s \in Consumers \X (1 .. NumProducers * ItemsPerProducer) :
                   s[2] \in DOMAIN delivered[s[1]] /\ delivered[s[1]][s[2]] = v})
Checksum == {v \in Word : Occurrences(v) % 2 = 1}

JoinNobody == TRUE
ConsumersJoined == Finished(Consumers)

Report ==
  /\ main = "join_consumers"
  /\ ConsumersJoined
  /\ main' = "reported"
  /\ report' = [total_produced |-> SumFunction(produced),
                total_consumed |-> SumFunction([c \in Consumers |-> Len(delivered[c])]),
                max_observed_queue_depth |-> max_observed_count,
                full_waits |-> \E p \in Producers : waited[p],
                checksum |-> Checksum]
  /\ UNCHANGED <<mutex, queueVars, pc, statsVars>>

\* The process has nothing left to do.
Terminated == main = "reported" /\ UNCHANGED vars

-----------------------------------------------------------------------------
ProducerStep(p) ==
  \/ PushLock(p) \/ PushRelock(p) \/ PushWait(p) \/ PushItem(p)
  \/ CountProduced(p) \/ FinishLock(p) \/ ProducerFinished(p)

ConsumerStep(c) ==
  \/ PopLock(c) \/ PopRelock(c) \/ PopWait(c) \/ PopItem(c)
  \/ CountConsumed(c) \/ PopEnd(c)

Next ==
  \/ \E p \in Producers : ProducerStep(p)
  \/ \E c \in Consumers : ConsumerStep(c)
  \/ \E t \in Threads : SpuriousWakeup(t)
  \/ JoinProducers
  \/ Report
  \/ Terminated

\* Every runnable thread keeps running, and a thread that waits for a mutex
\* that is released again and again gets it.  Nothing makes a sleeping thread
\* wake up but a signal.
Fairness ==
  /\ \A p \in Producers : WF_vars(ProducerStep(p))
                          /\ SF_vars(PushLock(p) \/ PushRelock(p) \/ FinishLock(p))
  /\ \A c \in Consumers : WF_vars(ConsumerStep(c))
                          /\ SF_vars(PopLock(c) \/ PopRelock(c))
  /\ WF_vars(JoinProducers \/ Report)

Spec == Init /\ [][Next]_vars
FairSpec == Spec /\ Fairness

-----------------------------------------------------------------------------
(* Properties.                                                              *)

PushPcs == {"push", NotFull, "push_relock", "pushed"}
ProducerPcs == PushPcs \cup {"produce", "finish", "done"}
ConsumerPcs == {"fetch", "pop", NotEmpty, "pop_relock", "consume", "done"}

\* Each thread is in its own program, and a producer inside
\* queue_push_blocking has an item left to count, one that finishes none.
PcsOK ==
  /\ pc \in [Threads -> ProducerPcs \cup ConsumerPcs]
  /\ \A p \in Producers : pc[p] \in ProducerPcs
  /\ \A c \in Consumers : pc[c] \in ConsumerPcs
  /\ \A p \in Producers : pc[p] \in PushPcs => produced[p] < ItemsPerProducer
  /\ \A p \in Producers : pc[p] \in {"finish", "done"} => produced[p] = ItemsPerProducer

TypeOK ==
  /\ mutex \in Threads \cup {Nobody}
  /\ buffer \in [Slots -> Word]
  /\ head \in Slots
  /\ tail \in Slots
  /\ count \in 0 .. Capacity
  /\ max_observed_count \in 0 .. Capacity
  /\ active_producers \in 0 .. NumProducers
  /\ PcsOK
  /\ produced \in [Producers -> 0 .. ItemsPerProducer]
  /\ waited \in [Threads -> BOOLEAN]
  /\ item \in [Consumers -> Word]
  /\ delivered \in [Consumers -> Seq(Word)]
  /\ main \in {"join_producers", "join_consumers", "reported"}

\* Only the owner of q->mutex is between a lock and the matching unlock or
\* wait, also when it got the mutex back inside pthread_cond_wait.
MutualExclusion == \A t \in Threads : pc[t] \in Critical <=> mutex = t

\* The fields of queue_t that are kept separately and updated by different
\* threads agree: head, tail and count describe one ring, the high-water mark
\* is one, and active_producers counts the producers that are not done.
Unfinished == {p \in Producers : pc[p] # "done"}
QueueConsistent ==
  /\ tail = (head + count) % Capacity
  /\ count <= max_observed_count
  /\ active_producers = Cardinality(Unfinished)

\* A signal wakes one waiter, and any thread may take the mutex before that
\* waiter does: still, while a consumer sleeps there are at least as many
\* consumers on their way to the queue as items in it, and while a producer
\* sleeps at least as many producers as free slots.  No consumer sleeps
\* once the last producer has finished.
PoppersComing == {c \in Consumers : pc[c] \in {"pop", "pop_relock"}}
PushersComing == {p \in Producers : pc[p] \in {"push", "push_relock"}}
NoLostWakeup ==
  /\ (\E c \in Consumers : pc[c] = NotEmpty) =>
       count <= Cardinality(PoppersComing) /\ active_producers > 0
  /\ (\E p \in Producers : pc[p] = NotFull) =>
       Capacity <= count + Cardinality(PushersComing)

\* The threads never all sleep: as long as one is not done, one can run.
SomeoneAwake ==
  Finished(Threads) \/ \E t \in Threads : pc[t] \notin {NotFull, NotEmpty, "done"}

\* The items in the ring, oldest first.
Contents == [k \in 1 .. count |-> buffer[(head + k - 1) % Capacity]]
\* The items a producer has put in the ring, and those a consumer has taken.
Sent(p) == produced[p] + (IF pc[p] = "pushed" THEN 1 ELSE 0)
Received(c) == IF pc[c] = "consume" THEN Append(delivered[c], item[c]) ELSE delivered[c]

\* Every item pushed so far is in exactly one place: once in the ring, or
\* once with one consumer.  An item not pushed yet is nowhere.
ExactlyOnce ==
  \A p \in Producers, i \in 1 .. ItemsPerProducer :
    Cardinality({k \in DOMAIN Contents : Contents[k] = Value(p, i)})
    + SumFunction([c \in Consumers |-> Cardinality({k \in DOMAIN Received(c) :
                                                     Received(c)[k] = Value(p, i)})])
    = IF i <= Sent(p) THEN 1 ELSE 0

\* "Consumers can terminate only when: queue is empty AND active_producers
\* == 0" (the comment on active_producers), and it stays that way.
DrainedBeforeExit ==
  (\E c \in Consumers : pc[c] = "done") =>
     count = 0 /\ active_producers = 0 /\ Finished(Producers)

\* What run_once returns: everything was produced and consumed, the XOR of
\* all the checksums is 0, a producer that had to wait means the queue was
\* once full, and queue_destroy finds no owner and no waiter.
ReportExact ==
  main = "reported" =>
    /\ report.total_produced = NumProducers * ItemsPerProducer
    /\ report.total_consumed = NumProducers * ItemsPerProducer
    /\ report.checksum = {}
    /\ report.full_waits => report.max_observed_queue_depth = Capacity
    /\ MutexFree
    /\ Waiters(NotEmpty) \cup Waiters(NotFull) = {}

\* "Each producer generates a unique value stream so checksum is sensitive to
\* lost/duplicated data" (producer_main): no two producers push the same value.
UniqueStreams ==
  \A p, q \in Producers : p # q =>
    \A i \in 1 .. Sent(p), j \in 1 .. Sent(q) : Value(p, i) # Value(q, j)

\* The ring, the mutex and the condition variables implement a FIFO queue,
\* so that a producer's items reach a consumer in order, whatever the schedule; under a fair one, a queue that never wedges.
Fifo == INSTANCE BoundedFifo WITH
          queue <- Contents,
          sent <- [p \in Producers |-> Sent(p)],
          received <- [c \in Consumers |-> Received(c)],
          open <- Unfinished,
          stopped <- {c \in Consumers : pc[c] = "done"}
ImplementsFifo == Fifo!Spec
ImplementsFairFifo == Fifo!FairSpec

\* Every run ends: no thread is left waiting on a condition variable.
Termination == <>(main = "reported")
=============================================================================
