----------------------------- MODULE BoundedFifo -----------------------------
(***************************************************************************)
(* What the blocking queue of 04-concurrency/05-producer-consumer-queue    *)
(* promises its callers, with no mutex, no condition variable and no ring: *)
(* a FIFO of at most Capacity items that producers close one by one, and   *)
(* from which a consumer is turned away only when every producer has       *)
(* closed it and it is empty.                                              *)
(***************************************************************************)
EXTENDS Naturals, Sequences

CONSTANTS
  Producers,  \* the producer threads
  Consumers,  \* the consumer threads
  Capacity,   \* the most items the queue holds
  Stream      \* Stream[p] is the sequence of items producer p pushes

VARIABLES
  queue,      \* the items pushed and not yet popped, oldest first
  sent,       \* how many items of its stream each producer has pushed
  received,   \* the items each consumer has popped, in order
  open,       \* the producers that may still push
  stopped     \* the consumers that were told there is no more work

vars == <<queue, sent, received, open, stopped>>

Init ==
  /\ queue = <<>>
  /\ sent = [p \in Producers |-> 0]
  /\ received = [c \in Consumers |-> <<>>]
  /\ open = Producers
  /\ stopped = {}

Put(p) ==
  /\ p \in open
  /\ sent[p] < Len(Stream[p])
  /\ Len(queue) < Capacity
  /\ queue' = Append(queue, Stream[p][sent[p] + 1])
  /\ sent' = [sent EXCEPT ![p] = @ + 1]
  /\ UNCHANGED <<received, open, stopped>>

Close(p) ==
  /\ p \in open
  /\ sent[p] = Len(Stream[p])
  /\ open' = open \ {p}
  /\ UNCHANGED <<queue, sent, received, stopped>>

Get(c) ==
  /\ c \notin stopped
  /\ queue # <<>>
  /\ received' = [received EXCEPT ![c] = Append(@, Head(queue))]
  /\ queue' = Tail(queue)
  /\ UNCHANGED <<sent, open, stopped>>

Stop(c) ==
  /\ c \notin stopped
  /\ open = {}
  /\ queue = <<>>
  /\ stopped' = stopped \cup {c}
  /\ UNCHANGED <<queue, sent, received, open>>

Next ==
  \/ \E p \in Producers : Put(p) \/ Close(p)
  \/ \E c \in Consumers : Get(c) \/ Stop(c)

Spec == Init /\ [][Next]_vars

\* Some operation that is possible eventually happens: the queue as a whole
\* never wedges, though nothing says which thread is served.
FairSpec == Spec /\ WF_vars(Next)
=============================================================================
