------------------------------ MODULE SpscRing -------------------------------
(***************************************************************************)
(* One run_once of 04-concurrency/04-ring-buffer: a single-producer,       *)
(* single-consumer ring with free-running 64-bit indices, no lock, and the *)
(* acquire and release orders of C11 atomics.  The packed and the padded   *)
(* ring differ in layout only: both are this module.                       *)
(*                                                                         *)
(* Memory is weaker than interleaving.  An atomic index is the sequence of *)
(* the values stored to it; a load returns any of them that is not older   *)
(* than the one the thread loaded before.  A release store carries how     *)
(* many slot accesses of its thread happen before it, and an acquire load  *)
(* that returns it makes those happen before what the loader does next.    *)
(* The slots are plain memory: an access is defined only if the other      *)
(* thread's last access to the slot happens before it.                     *)
(***************************************************************************)
EXTENDS Naturals, Sequences, Functions

CONSTANTS
  Capacity,   \* --capacity
  Messages,   \* --messages
  Modulus     \* the indices and the checksum are uint64_t: 2^64

\* main rejects the rest, and a power of two divides 2^64.
ASSUME RingAssumption ==
  /\ Capacity \in Nat \ {0}
  /\ Messages \in Nat \ {0}
  /\ Modulus \in Nat
  /\ \E k \in 2 .. Modulus : Modulus = k * Capacity

VARIABLES
  tail, head,     \* the stores to each index, oldest first: [value, covers]
  buffer,         \* the slots
  lastWrite,      \* which push wrote each slot last, counting from 1
  lastRead,       \* which pop read each slot last
  full_hits,      \* is the ring's full_hits > 0?
  pcP, pushed,    \* producer_main: where it is, how many messages it has pushed
  seenHead,       \* the store of head it loaded last
  knownPops,      \* the pops whose slot accesses happen before its next step
  pcC, popped,    \* the same for consumer_main
  seenTail,
  knownPushes,
  value,          \* ring_*_pop's local value
  checksum,       \* consumer_main's
  received        \* the values popped so far, in order

producerVars == <<tail, lastWrite, buffer, full_hits, pcP, pushed, seenHead, knownPops>>
consumerVars == <<head, lastRead, pcC, popped, seenTail, knownPushes, value, checksum, received>>
vars == <<producerVars, consumerVars>>

Slots == 0 .. Capacity - 1

\* What a thread's own index holds: its own last store.
Latest(index) == index[Len(index)].value

Advance(i) == (i + 1) % Modulus

\* buffer[i & mask], with mask = capacity - 1.
Slot(i) == i % Capacity

\* memory_order_release, and memory_order_acquire.
ReleaseRelaxed(done) == 0
Release(done) == done
AcquireRelaxed(known, covers) == known
Acquire(known, covers) == IF covers > known THEN covers ELSE known

-----------------------------------------------------------------------------
(* ring_packed_create, ring_padded_create.                                  *)

Init ==
  /\ tail = <<[value |-> 0, covers |-> 0]>>
  /\ head = <<[value |-> 0, covers |-> 0]>>
  /\ buffer = [s \in Slots |-> 0]
  /\ lastWrite = [s \in Slots |-> 0]
  /\ lastRead = [s \in Slots |-> 0]
  /\ full_hits = FALSE
  /\ pcP = "load"
  /\ pushed = 0
  /\ seenHead = 1
  /\ knownPops = 0
  /\ pcC = "load"
  /\ popped = 0
  /\ seenTail = 1
  /\ knownPushes = 0
  /\ value = 0
  /\ checksum = 0
  /\ received = <<>>

-----------------------------------------------------------------------------
(* producer_main and ring_packed_push, ring_padded_push.                    *)

\* Is there room, by the indices loaded?
HasRoomUnwrapped(t, h) == t < h + Capacity
HasRoom(t, h) == (t + Modulus - h) % Modulus < Capacity

\* One turn of the spin loop, which loads store m of head.
LoadHead(m) ==
  /\ pcP = "load"
  /\ pushed < Messages
  /\ m \in seenHead .. Len(head)
  /\ seenHead' = m
  /\ knownPops' = Acquire(knownPops, head[m].covers)
  /\ IF HasRoom(Latest(tail), head[m].value)
       THEN pcP' = "write" /\ UNCHANGED full_hits
       ELSE full_hits' = TRUE /\ UNCHANGED pcP
  /\ UNCHANGED <<tail, buffer, lastWrite, pushed, consumerVars>>

WriteSlot ==
  /\ pcP = "write"
  /\ buffer' = [buffer EXCEPT ![Slot(Latest(tail))] = pushed + 1]
  /\ lastWrite' = [lastWrite EXCEPT ![Slot(Latest(tail))] = pushed + 1]
  /\ pcP' = "publish"
  /\ UNCHANGED <<tail, full_hits, pushed, seenHead, knownPops, consumerVars>>

PublishTail ==
  /\ pcP = "publish"
  /\ tail' = Append(tail, [value |-> Advance(Latest(tail)), covers |-> Release(pushed + 1)])
  /\ pushed' = pushed + 1
  /\ pcP' = "load"
  /\ UNCHANGED <<buffer, lastWrite, full_hits, seenHead, knownPops, consumerVars>>

ProducerReturn ==
  /\ pcP = "load"
  /\ pushed = Messages
  /\ pcP' = "done"
  /\ UNCHANGED <<tail, buffer, lastWrite, full_hits, pushed, seenHead, knownPops, consumerVars>>

-----------------------------------------------------------------------------
(* consumer_main and ring_packed_pop, ring_padded_pop.                      *)

HasItemOrdered(h, t) == h < t
HasItem(h, t) == h # t

\* One turn of the spin loop, which loads store m of tail.
LoadTail(m) ==
  /\ pcC = "load"
  /\ popped < Messages
  /\ m \in seenTail .. Len(tail)
  /\ seenTail' = m
  /\ knownPushes' = Acquire(knownPushes, tail[m].covers)
  /\ pcC' = IF HasItem(Latest(head), tail[m].value) THEN "read" ELSE "load"
  /\ UNCHANGED <<head, lastRead, popped, value, checksum, received, producerVars>>

ReadSlot ==
  /\ pcC = "read"
  /\ value' = buffer[Slot(Latest(head))]
  /\ lastRead' = [lastRead EXCEPT ![Slot(Latest(head))] = popped + 1]
  /\ pcC' = "publish"
  /\ UNCHANGED <<head, popped, seenTail, knownPushes, checksum, received, producerVars>>

\* The store of head; then consumer_main adds the value to its checksum.
PublishHead ==
  /\ pcC = "publish"
  /\ head' = Append(head, [value |-> Advance(Latest(head)), covers |-> Release(popped + 1)])
  /\ popped' = popped + 1
  /\ checksum' = (checksum + value) % Modulus
  /\ received' = Append(received, value)
  /\ pcC' = "load"
  /\ UNCHANGED <<lastRead, seenTail, knownPushes, value, producerVars>>

ConsumerReturn ==
  /\ pcC = "load"
  /\ popped = Messages
  /\ pcC' = "done"
  /\ UNCHANGED <<head, lastRead, popped, seenTail, knownPushes, value, checksum, received,
                 producerVars>>

-----------------------------------------------------------------------------
\* Both threads are joined: run_once has its result.
Terminated == pcP = "done" /\ pcC = "done" /\ UNCHANGED vars

ProducerStep ==
  (\E m \in 1 .. Len(head) : LoadHead(m)) \/ WriteSlot \/ PublishTail \/ ProducerReturn
ConsumerStep ==
  (\E m \in 1 .. Len(tail) : LoadTail(m)) \/ ReadSlot \/ PublishHead \/ ConsumerReturn
Next == ProducerStep \/ ConsumerStep \/ Terminated

Spec == Init /\ [][Next]_vars

\* Both threads run, and a store to an atomic becomes visible to a thread
\* that goes on loading it (C11 7.17.3).
Fairness ==
  /\ WF_vars(LoadHead(Len(head)) \/ WriteSlot \/ PublishTail \/ ProducerReturn)
  /\ WF_vars(LoadTail(Len(tail)) \/ ReadSlot \/ PublishHead \/ ConsumerReturn)
FairSpec == Spec /\ Fairness

-----------------------------------------------------------------------------
(* Properties.                                                              *)

Stores(covered) == Seq([value : 0 .. Modulus - 1, covers : 0 .. covered])
Pcs == {"load", "write", "read", "publish", "done"}
TypeOK ==
  /\ tail \in Stores(pushed) /\ head \in Stores(popped)
  /\ buffer \in [Slots -> 0 .. Messages]
  /\ lastWrite \in [Slots -> 0 .. Messages]
  /\ lastRead \in [Slots -> 0 .. Messages]
  /\ full_hits \in BOOLEAN
  /\ pcP \in Pcs \ {"read"} /\ pcC \in Pcs \ {"write"}
  /\ pushed \in 0 .. Messages /\ popped \in 0 .. Messages
  /\ Len(tail) = pushed + 1 /\ Latest(tail) = pushed % Modulus
  /\ Len(head) = popped + 1 /\ Latest(head) = popped % Modulus
  /\ seenHead \in 1 .. Len(head) /\ seenTail \in 1 .. Len(tail)
  /\ knownPops \in 0 .. popped /\ knownPushes \in 0 .. pushed
  /\ value \in 0 .. Messages
  /\ checksum \in 0 .. Modulus - 1
  /\ received \in Seq(0 .. Messages)

\* "Acquire/release memory ordering is enough for SPSC correctness" (the head
\* of ring_buffer.c): no slot is accessed unless the other thread's last
\* access to it happens before, so no payload is read half or not yet
\* written, and none is overwritten while it may still be read.
NoDataRace ==
  /\ pcP = "write" => lastRead[Slot(Latest(tail))] <= knownPops
  /\ pcC = "read" => lastWrite[Slot(Latest(head))] <= knownPushes

\* The ring implements a FIFO queue of one producer and one consumer: a
\* message enters with the store to tail and leaves with the store to head, so
\* that neither thread is misled by indices that wrap or by a stale load of
\* the other's.
Fifo == INSTANCE BoundedFifo WITH
          Producers <- {"producer"},
          Consumers <- {"consumer"},
          Stream <- [p \in {"producer"} |-> [i \in 1 .. Messages |-> i]],
          queue <- [k \in 1 .. pushed - popped |-> buffer[Slot(popped + k - 1)]],
          sent <- [p \in {"producer"} |-> pushed],
          received <- [c \in {"consumer"} |-> received],
          open <- {"producer"},
          stopped <- {}
ImplementsFifo == Fifo!Spec

\* What run_once returns: the checksum is that of all messages, and full_hits
\* counts only where they do not all fit.
Joined == pcP = "done" /\ pcC = "done"
Payloads == [i \in 1 .. Messages |-> i]
ResultExact ==
  /\ checksum = SumFunction(Payloads) % Modulus
  /\ full_hits => Messages > Capacity

\* Neither thread spins for ever, though the indices wrap and loads may be
\* stale: both return, with the exact result.
Termination == <>(Joined /\ ResultExact)
=============================================================================
