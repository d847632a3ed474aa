--------------------------- MODULE SpscRing_proofs ---------------------------
(***************************************************************************)
(* The single-producer, single-consumer ring is free of data races and     *)
(* implements a FIFO queue, for any capacity, any number of messages and   *)
(* any modulus of the indices that the capacity divides.                   *)
(*                                                                         *)
(* The invariant relates three counts of each direction: how many messages *)
(* a thread has passed on, how many of them the other thread has learnt of *)
(* by an acquire load, and how many accesses to a slot that load makes     *)
(* happen before.  The wrapped indices are functions of the counts.        *)
(***************************************************************************)
EXTENDS SpscRing, ProofLemmas, SequenceTheorems

-----------------------------------------------------------------------------
(* Wrapped indices.                                                         *)

\* The modulus is a multiple of the capacity, and more than it.
LEMMA Constants ==
  /\ Capacity \in Nat \ {0} /\ Messages \in Nat \ {0} /\ Modulus \in Nat \ {0}
  /\ Capacity < Modulus
<1> USE RingAssumption
<1>1. PICK k \in 2 .. Modulus : Modulus = k * Capacity
  OBVIOUS
<1>2. Capacity \in Nat \ {0} /\ k \in Nat \ {0} /\ k >= 2
  OBVIOUS
<1>3. k * Capacity > Capacity
  BY <1>2
<1> QED BY <1>1, <1>2, <1>3

\* So a wrapped index leads to the slot that the count it stands for does.
LEMMA Ring ==
  \A i \in Nat : Slot(i % Modulus) = Slot(i) /\ Slot(i) \in Slots
<1>1. PICK k \in 2 .. Modulus : Modulus = k * Capacity
  BY RingAssumption
<1>2. Capacity \in Nat \ {0} /\ k \in Nat \ {0}
  BY Constants
<1>3. \A i \in Nat : (i % (k * Capacity)) % Capacity = i % Capacity
  BY <1>2, ModMod
<1>4. \A i \in Nat : i % Capacity \in 0 .. Capacity - 1
  BY <1>2, ModTurns
<1>5. \A i \in Nat : (i % Modulus) % Capacity = i % Capacity
  BY <1>1, <1>3
<1> QED BY <1>4, <1>5 DEF Slot, Slots

\* Positions less than a turn apart are different slots.
LEMMA SlotsApart ==
  ASSUME NEW i \in Nat, NEW j \in Nat, i < j, j < i + Capacity
  PROVE  Slot(i) # Slot(j)
<1> DEFINE d == j - i
<1>1. d \in 0 .. Capacity - 1 /\ d # 0 /\ i + d = j /\ Capacity \in Nat \ {0}
  BY Constants
<1> HIDE DEF d
<1>2. (i + d) % Capacity = i % Capacity => d = 0
  BY <1>1, ModApart
<1> QED BY <1>1, <1>2 DEF Slot

\* What the loaded indices say of room, although they wrap: a thread compares
\* remainders of counts that are at most Capacity apart.
LEMMA RoomMeans ==
  ASSUME NEW h \in Nat, NEW t \in Nat, h <= t, t <= h + Capacity
  PROVE  /\ HasRoom(t % Modulus, h % Modulus) <=> t < h + Capacity
         /\ HasItem(h % Modulus, t % Modulus) <=> h < t
<1>1. Modulus \in Nat \ {0} /\ Capacity < Modulus /\ Capacity \in Nat
  BY Constants
<1>2. PICK d \in 0 .. Modulus - 1 : h + d = t
  <2>1. t - h \in 0 .. Modulus - 1 /\ h + (t - h) = t
    BY <1>1
  <2> QED BY <2>1
<1>3. (((h + d) % Modulus) + Modulus - (h % Modulus)) % Modulus = d
  BY <1>1, ModDistance
<1>4. (h + d) % Modulus = h % Modulus => d = 0
  BY <1>1, ModApart
<1>5. HasRoom(t % Modulus, h % Modulus) <=> d < Capacity
  BY <1>2, <1>3 DEF HasRoom
<1>6. HasItem(h % Modulus, t % Modulus) <=> d # 0
  BY <1>2, <1>4 DEF HasItem
<1> QED BY <1>1, <1>2, <1>5, <1>6

\* Advancing a wrapped index wraps the next count.
LEMMA AdvanceMeans ==
  ASSUME NEW n \in Nat PROVE Advance(n % Modulus) = (n + 1) % Modulus
<1>1. Modulus \in Nat \ {0} /\ 1 \in Nat
  BY Constants
<1> QED BY <1>1, ModSum DEF Advance

-----------------------------------------------------------------------------
(* The stores to an index.                                                  *)

\* What Append makes of a sequence that is known element by element.
LEMMA AppendIs ==
  ASSUME NEW S, NEW n \in Nat, NEW s \in Seq(S), Len(s) = n, NEW e \in S,
         NEW t \in Seq(S), Len(t) = n + 1, \A i \in 1 .. n : t[i] = s[i], t[n + 1] = e
  PROVE  Append(s, e) = t
<1>1. /\ Append(s, e) \in Seq(S) /\ Len(Append(s, e)) = n + 1
      /\ \A i \in 1 .. n : Append(s, e)[i] = s[i]
      /\ Append(s, e)[n + 1] = e
  BY AppendProperties
<1>2. \A i \in 1 .. n + 1 : Append(s, e)[i] = t[i]
  BY <1>1
<1> QED BY <1>1, <1>2, SeqEqual

\* A function on 1 .. n is a sequence of n elements.
LEMMA FunctionIsSeq ==
  ASSUME NEW S, NEW n \in Nat, NEW s \in [1 .. n -> S]
  PROVE  s \in Seq(S) /\ Len(s) = n
<1>1. s \in Seq(S)
  BY SeqDef
<1> QED BY <1>1, LenProperties

\* The stores to an index that has been advanced n times: store m publishes
\* m - 1 messages, and all of their slot accesses happen before it.
Stored(n) == [m \in 1 .. n + 1 |-> [value |-> (m - 1) % Modulus, covers |-> m - 1]]
StoreOf(n) == [value : 0 .. Modulus - 1, covers : 0 .. n]

\* They are a sequence, whose last element holds the index.
LEMMA StoredMeans ==
  ASSUME NEW n \in Nat
  PROVE  /\ Stored(n) \in Seq(StoreOf(n)) /\ Len(Stored(n)) = n + 1
         /\ Latest(Stored(n)) = n % Modulus
<1>1. \A m \in 1 .. n + 1 : m - 1 \in Nat /\ m - 1 \in 0 .. n /\ (m - 1) % Modulus \in 0 .. Modulus - 1
  BY Constants, ModTurns
<1>2. n + 1 \in Nat /\ Stored(n) \in [1 .. n + 1 -> StoreOf(n)]
  BY <1>1 DEF Stored, StoreOf
<1>3. Stored(n) \in Seq(StoreOf(n)) /\ Len(Stored(n)) = n + 1
  BY <1>2, FunctionIsSeq
<1>4. Stored(n)[n + 1].value = n % Modulus
  BY DEF Stored
<1> QED BY <1>3, <1>4 DEF Latest

\* Advancing the index once more adds the next store.
LEMMA StoredNext ==
  ASSUME NEW n \in Nat
  PROVE  Append(Stored(n), [value |-> Advance(n % Modulus), covers |-> Release(n + 1)])
           = Stored(n + 1)
<1> DEFINE e == [value |-> Advance(n % Modulus), covers |-> Release(n + 1)]
           R == StoreOf(n + 1)
<1>1. e = [value |-> (n + 1) % Modulus, covers |-> n + 1]
  BY AdvanceMeans DEF Release
<1>2. Stored(n + 1) \in Seq(R) /\ Len(Stored(n + 1)) = (n + 1) + 1
  BY StoredMeans
<1>3. Stored(n + 1)[(n + 1) + 1] = e /\ \A i \in 1 .. n + 1 : Stored(n + 1)[i] = Stored(n)[i]
  BY <1>1 DEF Stored
<1>4. e \in R
  <2>1. (n + 1) % Modulus \in 0 .. Modulus - 1
    BY Constants, ModTurns
  <2> QED BY <1>1, <2>1 DEF StoreOf
<1>5. Stored(n) \in Seq(R) /\ Len(Stored(n)) = n + 1
  <2>1. \A m \in 1 .. n + 1 : /\ m - 1 \in 0 .. n + 1
                              /\ (m - 1) % Modulus \in 0 .. Modulus - 1
    BY Constants, ModTurns
  <2>2. Stored(n) \in [1 .. n + 1 -> R]
    BY <2>1 DEF Stored, StoreOf
  <2> HIDE DEF R
  <2> QED BY <2>2, FunctionIsSeq
<1> HIDE DEF e, R
<1>6. n + 1 \in Nat
  OBVIOUS
<1>7. Append(Stored(n), e) = Stored(n + 1)
  BY <1>2, <1>3, <1>4, <1>5, <1>6, AppendIs
<1> QED BY <1>7 DEF e

-----------------------------------------------------------------------------
(* The messages.                                                            *)

\* Passing the next message on keeps those received in order,
LEMMA CountUp ==
  ASSUME NEW n \in Nat
  PROVE  Append([k \in 1 .. n |-> k], n + 1) = [k \in 1 .. n + 1 |-> k]
<1> DEFINE s == [k \in 1 .. n |-> k]
           t == [k \in 1 .. n + 1 |-> k]
<1>1. s \in [1 .. n -> Nat] /\ t \in [1 .. n + 1 -> Nat] /\ n + 1 \in Nat
  OBVIOUS
<1>2. t[n + 1] = n + 1 /\ \A i \in 1 .. n : t[i] = s[i]
  OBVIOUS
<1> HIDE DEF s, t
<1>3. s \in Seq(Nat) /\ Len(s) = n /\ t \in Seq(Nat) /\ Len(t) = n + 1
  BY <1>1, FunctionIsSeq
<1>4. Append(s, n + 1) = t
  BY <1>1, <1>2, <1>3, AppendIs
<1> QED BY <1>4 DEF s, t

\* and adding it to the checksum keeps that the sum of those received.
LEMMA AddUp ==
  ASSUME NEW n \in 0 .. Messages - 1
  PROVE  ((SumFunctionOnSet(Payloads, 1 .. n) % Modulus) + (n + 1)) % Modulus
           = SumFunctionOnSet(Payloads, 1 .. n + 1) % Modulus
<1> DEFINE S == 1 .. n
           T == 1 .. n + 1
<1>1. n \in Nat /\ n + 1 \in Nat /\ n + 1 \in T /\ T \ {n + 1} = S
  BY Constants
<1>2. IsFiniteSet(S) /\ IsFiniteSet(T)
  BY <1>1, FS_Interval
<1>3. /\ \A k \in S : Payloads[k] \in Nat
      /\ \A k \in T : Payloads[k] \in Nat
      /\ Payloads[n + 1] = n + 1
  BY Constants DEF Payloads
<1> HIDE DEF S, T
<1>4. SumFunctionOnSet(Payloads, S) \in Nat
  BY <1>2, <1>3, SumType
<1>5. SumFunctionOnSet(Payloads, T) = Payloads[n + 1] + SumFunctionOnSet(Payloads, T \ {n + 1})
  BY <1>1, <1>2, <1>3, SumRemove
<1>6. PICK sum \in Nat : sum = SumFunctionOnSet(Payloads, S)
  BY <1>4
<1>7. SumFunctionOnSet(Payloads, T) = sum + (n + 1)
  <2>1. SumFunctionOnSet(Payloads, T) = (n + 1) + sum
    BY <1>1, <1>3, <1>5, <1>6
  <2>2. (n + 1) + sum = sum + (n + 1)
    BY <1>1
  <2> QED BY <2>1, <2>2
<1>8. ((sum % Modulus) + (n + 1)) % Modulus = (sum + (n + 1)) % Modulus
  BY <1>1, Constants, ModSum
<1> QED BY <1>6, <1>7, <1>8 DEF S, T

-----------------------------------------------------------------------------
(* The inductive invariant.                                                 *)

\* What the state is made of, apart from the indices.
PlainTypes ==
  /\ buffer \in [Slots -> 0 .. Messages]
  /\ lastWrite \in [Slots -> 0 .. Messages]
  /\ lastRead \in [Slots -> 0 .. Messages]
  /\ full_hits \in BOOLEAN
  /\ pcP \in Pcs \ {"read"} /\ pcC \in Pcs \ {"write"}
  /\ pushed \in 0 .. Messages /\ popped \in 0 .. Messages
  /\ knownPops \in Nat /\ knownPushes \in Nat
  /\ value \in 0 .. Messages

\* The indices are what so many pushes and pops make them.
Indexes == tail = Stored(pushed) /\ head = Stored(popped)

\* What each thread has learnt of the other's progress is true, if late; the
\* producer is never more than a turn ahead even of what it has learnt.
Learnt ==
  /\ seenHead = knownPops + 1 /\ seenTail = knownPushes + 1
  /\ knownPops <= popped /\ popped <= knownPushes /\ knownPushes <= pushed
  /\ pushed <= knownPops + Capacity

\* A thread at a slot knows that it may be there.
Entitled ==
  /\ pcP \in {"write", "publish"} => pushed < Messages /\ pushed < knownPops + Capacity
  /\ pcC \in {"read", "publish"} => popped < knownPushes

\* The messages pushed and not yet popped are in their slots, and so is the
\* one about to be published; the one about to be passed on has been read.
HoldsMessage(k) == buffer[Slot(k)] = k + 1 /\ lastWrite[Slot(k)] = k + 1
Pending ==
  /\ \A k \in popped .. pushed - 1 : HoldsMessage(k)
  /\ pcP = "publish" => HoldsMessage(pushed)
  /\ pcC = "publish" => value = popped + 1

\* A slot was read last by a pop that has been published, or by the one that
\* is about to be.
ReadInTurn ==
  \A s \in Slots : lastRead[s] > 0 =>
     /\ Slot(lastRead[s] - 1) = s
     /\ lastRead[s] <= popped \/ (pcC = "publish" /\ lastRead[s] = popped + 1)

\* The consumer has received every message once and in order, and added it up;
\* the producer has met a full ring only if there are more messages than slots.
ReceivedInOrder ==
  /\ received = [k \in 1 .. popped |-> k]
  /\ checksum = SumFunctionOnSet(Payloads, 1 .. popped) % Modulus
  /\ full_hits => Messages > Capacity

RingInvariant ==
  /\ PlainTypes /\ Indexes /\ Learnt /\ Entitled /\ Pending /\ ReadInTurn /\ ReceivedInOrder

\* In the initial state nothing has happened.
LEMMA RingInit == Init => RingInvariant
<1> SUFFICES ASSUME Init PROVE RingInvariant
  OBVIOUS
<1> USE Constants DEF Init
<1>1. PlainTypes
  <2>1. 0 \in 0 .. Messages /\ 0 \in Nat
    OBVIOUS
  <2>2. full_hits \in BOOLEAN
    OBVIOUS
  <2>3. pcP \in Pcs \ {"read"} /\ pcC \in Pcs \ {"write"}
    BY DEF Pcs
  <2> QED BY <2>1, <2>2, <2>3 DEF PlainTypes
<1>2. Indexes
  <2>1. Stored(0) = <<[value |-> 0, covers |-> 0]>>
    <3>1. 0 % Modulus = 0
      OBVIOUS
    <3> QED BY <3>1 DEF Stored
  <2> QED BY <2>1 DEF Indexes
<1>3. Learnt /\ Entitled /\ Pending /\ ReadInTurn
  BY DEF Learnt, Entitled, Pending, ReadInTurn
<1>4. ReceivedInOrder
  <2>1. 1 .. 0 = {} /\ [k \in 1 .. 0 |-> k] = <<>>
    OBVIOUS
  <2>2. SumFunctionOnSet(Payloads, {}) = 0
    BY SumUnfold, FS_EmptySet
  <2>3. 0 % Modulus = 0
    OBVIOUS
  <2> QED BY <2>1, <2>2, <2>3 DEF ReceivedInOrder
<1> QED BY <1>1, <1>2, <1>3, <1>4 DEF RingInvariant

-----------------------------------------------------------------------------
(* The producer.                                                            *)

\* What the indices hold, and what a load of the other's may return.
LEMMA IndexFacts ==
  ASSUME PlainTypes, Indexes
  PROVE  /\ Latest(tail) = pushed % Modulus /\ Latest(head) = popped % Modulus
         /\ Slot(Latest(tail)) = Slot(pushed) /\ Slot(pushed) \in Slots
         /\ Slot(Latest(head)) = Slot(popped) /\ Slot(popped) \in Slots
         /\ Len(tail) = pushed + 1 /\ Len(head) = popped + 1
         /\ \A m \in 1 .. pushed + 1 : tail[m].value = (m - 1) % Modulus /\ tail[m].covers = m - 1
         /\ \A m \in 1 .. popped + 1 : head[m].value = (m - 1) % Modulus /\ head[m].covers = m - 1
<1>1. pushed \in Nat /\ popped \in Nat
  BY Constants DEF PlainTypes
<1>2. /\ Latest(tail) = pushed % Modulus /\ Latest(head) = popped % Modulus
      /\ Len(tail) = pushed + 1 /\ Len(head) = popped + 1
  BY <1>1, StoredMeans DEF Indexes
<1>3. \A n \in Nat : \A m \in 1 .. n + 1 :
        Stored(n)[m].value = (m - 1) % Modulus /\ Stored(n)[m].covers = m - 1
  BY DEF Stored
<1> QED BY <1>1, <1>2, <1>3, Ring DEF Indexes

\* A load of head tells the producer of more pops, never of more than there
\* were, and of room only if there is.
LEMMA LoadHeadStep ==
  ASSUME RingInvariant, NEW m \in 1 .. Len(head), LoadHead(m)
  PROVE  RingInvariant'
<1> USE Constants DEF RingInvariant
<1>1. /\ pcP = "load" /\ pushed < Messages /\ m \in seenHead .. popped + 1
      /\ seenHead' = m /\ knownPops' = m - 1
      /\ UNCHANGED <<tail, buffer, lastWrite, pushed, consumerVars>>
  <2>1. m \in 1 .. popped + 1 /\ head[m].covers = m - 1 /\ seenHead = knownPops + 1
    BY IndexFacts DEF Learnt
  <2>2. m \in seenHead .. popped + 1
    BY IndexFacts DEF LoadHead
  <2> QED BY <2>1, <2>2 DEF LoadHead, Acquire, PlainTypes
<1>2. /\ m - 1 \in Nat /\ knownPops <= m - 1 /\ m - 1 <= popped
      /\ m - 1 <= pushed /\ pushed <= m - 1 + Capacity
  BY <1>1 DEF Learnt, PlainTypes
<1>3. HasRoom(Latest(tail), head[m].value) <=> pushed < m - 1 + Capacity
  <2>1. Latest(tail) = pushed % Modulus /\ head[m].value = (m - 1) % Modulus /\ pushed \in Nat
    BY <1>1, IndexFacts DEF PlainTypes
  <2> QED BY <1>2, <2>1, RoomMeans
<1>4. \/ pcP' = "write" /\ pushed < m - 1 + Capacity /\ full_hits' = full_hits
      \/ pcP' = "load" /\ full_hits' = TRUE /\ Messages > Capacity
  <2>1. ~(pushed < m - 1 + Capacity) => Messages > Capacity
    BY <1>1, <1>2 DEF PlainTypes
  <2> QED BY <1>1, <1>3, <2>1 DEF LoadHead
<1>5. PlainTypes'
  BY <1>1, <1>2, <1>4 DEF PlainTypes, Pcs, consumerVars
<1>6. Indexes' /\ Learnt'
  BY <1>1, <1>2 DEF Indexes, Learnt, consumerVars
<1>7. Entitled'
  BY <1>1, <1>4 DEF Entitled, consumerVars
<1>8. Pending' /\ ReadInTurn' /\ ReceivedInOrder'
  BY <1>1, <1>4 DEF Pending, HoldsMessage, ReadInTurn, ReceivedInOrder, consumerVars
<1> QED BY <1>5, <1>6, <1>7, <1>8

\* The slot that is written is that of no pending message.
LEMMA WriteSlotStep ==
  ASSUME RingInvariant, WriteSlot
  PROVE  RingInvariant'
<1> USE Constants DEF RingInvariant
<1>1. /\ pcP = "write" /\ pcP' = "publish"
      /\ Slot(pushed) \in Slots
      /\ buffer' = [buffer EXCEPT ![Slot(pushed)] = pushed + 1]
      /\ lastWrite' = [lastWrite EXCEPT ![Slot(pushed)] = pushed + 1]
      /\ UNCHANGED <<tail, full_hits, pushed, seenHead, knownPops, consumerVars>>
  BY IndexFacts DEF WriteSlot
<1>2. /\ pushed < Messages /\ pushed < knownPops + Capacity /\ knownPops <= popped
      /\ pushed \in Nat /\ popped \in Nat /\ knownPops \in Nat
  BY <1>1 DEF Entitled, Learnt, PlainTypes
<1>3. PlainTypes'
  BY <1>1, <1>2 DEF PlainTypes, Pcs, consumerVars
<1>4. Indexes' /\ Learnt' /\ Entitled' /\ ReadInTurn' /\ ReceivedInOrder'
  BY <1>1, <1>2 DEF Indexes, Learnt, Entitled, ReadInTurn, ReceivedInOrder, consumerVars
<1>5. HoldsMessage(pushed)'
  BY <1>1 DEF HoldsMessage, PlainTypes
<1>6. ASSUME NEW k \in popped .. pushed - 1 PROVE HoldsMessage(k)'
  <2>1. k \in Nat /\ k < pushed /\ pushed < k + Capacity
    BY <1>2
  <2>2. Slot(k) # Slot(pushed)
    BY <1>2, <2>1, SlotsApart
  <2>3. HoldsMessage(k)
    BY <1>6 DEF Pending
  <2> QED BY <1>1, <2>2, <2>3 DEF HoldsMessage, PlainTypes
<1>7. Pending'
  <2>1. /\ pushed' = pushed /\ popped' = popped /\ pcC' = pcC /\ value' = value
    BY <1>1 DEF consumerVars
  <2> QED BY <1>5, <1>6, <2>1 DEF Pending, HoldsMessage
<1> QED BY <1>3, <1>4, <1>7

\* The message in the slot becomes one of those pushed.
LEMMA PublishTailStep ==
  ASSUME RingInvariant, PublishTail
  PROVE  RingInvariant'
<1> USE Constants DEF RingInvariant
<1>1. /\ pcP = "publish" /\ pcP' = "load" /\ pushed' = pushed + 1
      /\ tail' = Append(tail, [value |-> Advance(pushed % Modulus), covers |-> Release(pushed + 1)])
      /\ UNCHANGED <<buffer, lastWrite, full_hits, seenHead, knownPops, consumerVars>>
  BY IndexFacts DEF PublishTail
<1>2. /\ pushed < Messages /\ pushed < knownPops + Capacity
      /\ pushed \in Nat /\ popped \in Nat /\ knownPops \in Nat /\ knownPushes \in Nat
  BY <1>1 DEF Entitled, PlainTypes
<1>3. PlainTypes'
  BY <1>1, <1>2 DEF PlainTypes, Pcs, consumerVars
<1>4. Indexes'
  BY <1>1, <1>2, StoredNext DEF Indexes, consumerVars
<1>5. Learnt' /\ Entitled' /\ ReadInTurn' /\ ReceivedInOrder'
  BY <1>1, <1>2 DEF Learnt, Entitled, ReadInTurn, ReceivedInOrder, consumerVars
<1>6. Pending'
  <2>1. \A k \in popped .. pushed : HoldsMessage(k)
    BY <1>1, <1>2 DEF Pending
  <2>2. popped' .. pushed' - 1 = popped .. pushed
    BY <1>1, <1>2 DEF consumerVars
  <2> QED BY <1>1, <2>1, <2>2 DEF Pending, HoldsMessage, consumerVars
<1> QED BY <1>3, <1>4, <1>5, <1>6

\* Returning changes nothing else.
LEMMA ReturnSteps ==
  ASSUME RingInvariant, ProducerReturn \/ ConsumerReturn \/ UNCHANGED vars
  PROVE  RingInvariant'
<1> USE DEF RingInvariant, producerVars, consumerVars
<1>1. /\ UNCHANGED <<tail, head, buffer, lastWrite, lastRead, full_hits, pushed, seenHead, knownPops,
                     popped, seenTail, knownPushes, value, checksum, received>>
      /\ pcP' = pcP \/ pcP' = "done"
      /\ pcC' = pcC \/ (pcC = "load" /\ pcC' = "done")
  BY DEF ProducerReturn, ConsumerReturn, vars
<1> QED BY <1>1 DEF PlainTypes, Pcs, Indexes, Learnt, Entitled, Pending, HoldsMessage, ReadInTurn,
                    ReceivedInOrder

-----------------------------------------------------------------------------
(* The consumer.                                                            *)

\* A load of tail tells the consumer of more pushes, and of an item only if
\* there is one.
LEMMA LoadTailStep ==
  ASSUME RingInvariant, NEW m \in 1 .. Len(tail), LoadTail(m)
  PROVE  RingInvariant'
<1> USE Constants DEF RingInvariant
<1>1. /\ pcC = "load" /\ popped < Messages /\ m \in seenTail .. pushed + 1
      /\ seenTail' = m /\ knownPushes' = m - 1
      /\ UNCHANGED <<head, lastRead, popped, value, checksum, received, producerVars>>
  <2>1. m \in 1 .. pushed + 1 /\ tail[m].covers = m - 1 /\ seenTail = knownPushes + 1
    BY IndexFacts DEF Learnt
  <2>2. m \in seenTail .. pushed + 1
    BY IndexFacts DEF LoadTail
  <2> QED BY <2>1, <2>2 DEF LoadTail, Acquire, PlainTypes
<1>2. /\ m - 1 \in Nat /\ popped <= m - 1 /\ m - 1 <= pushed /\ m - 1 <= popped + Capacity
      /\ popped \in Nat
  BY <1>1 DEF Learnt, PlainTypes
<1>3. HasItem(Latest(head), tail[m].value) <=> popped < m - 1
  <2>1. Latest(head) = popped % Modulus /\ tail[m].value = (m - 1) % Modulus
    BY <1>1, IndexFacts
  <2> QED BY <1>2, <2>1, RoomMeans
<1>4. \/ pcC' = "read" /\ popped < m - 1
      \/ pcC' = "load"
  BY <1>1, <1>3 DEF LoadTail
<1>5. PlainTypes'
  BY <1>1, <1>2, <1>4 DEF PlainTypes, Pcs, producerVars
<1>6. Indexes' /\ Learnt'
  BY <1>1, <1>2 DEF Indexes, Learnt, producerVars
<1>7. Entitled'
  BY <1>1, <1>4 DEF Entitled, producerVars
<1>8. Pending' /\ ReadInTurn' /\ ReceivedInOrder'
  BY <1>1, <1>4 DEF Pending, HoldsMessage, ReadInTurn, ReceivedInOrder, producerVars
<1> QED BY <1>5, <1>6, <1>7, <1>8

\* The slot that is read holds the next message.
LEMMA ReadSlotStep ==
  ASSUME RingInvariant, ReadSlot
  PROVE  RingInvariant'
<1> USE Constants DEF RingInvariant
<1>1. /\ pcC = "read" /\ pcC' = "publish"
      /\ Slot(popped) \in Slots
      /\ value' = buffer[Slot(popped)]
      /\ lastRead' = [lastRead EXCEPT ![Slot(popped)] = popped + 1]
      /\ UNCHANGED <<head, popped, seenTail, knownPushes, checksum, received, producerVars>>
  BY IndexFacts DEF ReadSlot
<1>2. /\ popped < knownPushes /\ knownPushes <= pushed
      /\ pushed \in Nat /\ popped \in Nat /\ knownPushes \in Nat /\ pushed <= Messages
  BY <1>1 DEF Entitled, Learnt, PlainTypes
<1>3. value' = popped + 1
  <2>1. popped \in popped .. pushed - 1
    BY <1>2
  <2> QED BY <1>1, <2>1 DEF Pending, HoldsMessage
<1>4. PlainTypes'
  BY <1>1, <1>2, <1>3 DEF PlainTypes, Pcs, producerVars
<1>5. Indexes' /\ Learnt' /\ Entitled' /\ Pending' /\ ReceivedInOrder'
  BY <1>1, <1>2, <1>3
     DEF Indexes, Learnt, Entitled, Pending, HoldsMessage, ReceivedInOrder, producerVars
<1>6. ReadInTurn'
  <2>1. \A s \in Slots : lastRead'[s] = IF s = Slot(popped) THEN popped + 1 ELSE lastRead[s]
    BY <1>1 DEF PlainTypes
  <2>2. (popped + 1) - 1 = popped /\ popped' = popped
    BY <1>1, <1>2
  <2>3. pcC # "publish"
    BY <1>1
  <2> QED BY <1>1, <2>1, <2>2, <2>3 DEF ReadInTurn
<1> QED BY <1>4, <1>5, <1>6

\* The message read is passed on and added to the checksum.
LEMMA PublishHeadStep ==
  ASSUME RingInvariant, PublishHead
  PROVE  RingInvariant'
<1> USE Constants DEF RingInvariant
<1>1. /\ pcC = "publish" /\ pcC' = "load" /\ popped' = popped + 1
      /\ head' = Append(head, [value |-> Advance(popped % Modulus), covers |-> Release(popped + 1)])
      /\ checksum' = (checksum + value) % Modulus /\ received' = Append(received, value)
      /\ UNCHANGED <<lastRead, seenTail, knownPushes, value, producerVars>>
  BY IndexFacts DEF PublishHead
<1>2. /\ value = popped + 1 /\ popped < knownPushes /\ knownPushes <= pushed /\ pushed <= Messages
      /\ pushed \in Nat /\ popped \in Nat /\ knownPops \in Nat /\ knownPushes \in Nat
  BY <1>1 DEF Entitled, Learnt, Pending, PlainTypes
<1>3. PlainTypes'
  BY <1>1, <1>2 DEF PlainTypes, Pcs, producerVars
<1>4. Indexes'
  BY <1>1, <1>2, StoredNext DEF Indexes, producerVars
<1>5. Learnt' /\ Entitled'
  BY <1>1, <1>2 DEF Learnt, Entitled, producerVars
<1>6. Pending'
  <2>1. popped' .. pushed' - 1 \subseteq popped .. pushed - 1
    BY <1>1, <1>2 DEF producerVars
  <2> QED BY <1>1, <2>1 DEF Pending, HoldsMessage, producerVars
<1>7. ReadInTurn'
  <2>1. \A s \in Slots : lastRead[s] \in Nat
    BY DEF PlainTypes
  <2> QED BY <1>1, <1>2, <2>1 DEF ReadInTurn
<1>8. received' = [k \in 1 .. popped + 1 |-> k]
  BY <1>1, <1>2, CountUp DEF ReceivedInOrder
<1>9. checksum' = SumFunctionOnSet(Payloads, 1 .. popped + 1) % Modulus
  <2>1. popped \in 0 .. Messages - 1
    BY <1>2
  <2>2. checksum = SumFunctionOnSet(Payloads, 1 .. popped) % Modulus
    BY DEF ReceivedInOrder
  <2> QED BY <1>1, <1>2, <2>1, <2>2, AddUp
<1>10. ReceivedInOrder'
  BY <1>1, <1>8, <1>9 DEF ReceivedInOrder, producerVars
<1> QED BY <1>3, <1>4, <1>5, <1>6, <1>7, <1>10

-----------------------------------------------------------------------------
(* The theorems.                                                            *)

\* Every step preserves the invariant.
LEMMA RingStep == RingInvariant /\ [Next]_vars => RingInvariant'
<1> SUFFICES ASSUME RingInvariant, [Next]_vars PROVE RingInvariant'
  OBVIOUS
<1>1. ASSUME ProducerStep PROVE RingInvariant'
  BY <1>1, LoadHeadStep, WriteSlotStep, PublishTailStep, ReturnSteps DEF ProducerStep
<1>2. ASSUME ConsumerStep PROVE RingInvariant'
  BY <1>2, LoadTailStep, ReadSlotStep, PublishHeadStep, ReturnSteps DEF ConsumerStep
<1> QED BY <1>1, <1>2, ReturnSteps DEF Next, Terminated

\* The counts, the wrapped indices and the slots agree in every state of
\* run_once's two threads.
THEOREM RingHolds == Spec => []RingInvariant
BY RingInit, RingStep, PTL DEF Spec

\* The type invariant holds in every reachable state: the indices and the
\* checksum stay 64-bit values, and each index holds the count of the messages
\* passed on, wrapped.
THEOREM RingTypes == Spec => []TypeOK
<1>1. RingInvariant => TypeOK
  <2> SUFFICES ASSUME RingInvariant PROVE TypeOK
    OBVIOUS
  <2> USE DEF RingInvariant
  <2>0. pushed \in Nat /\ popped \in Nat /\ popped <= Messages
    BY Constants DEF PlainTypes
  <2>1. tail \in Stores(pushed) /\ head \in Stores(popped)
    BY <2>0, StoredMeans DEF Indexes, Stores, StoreOf
  <2>2. received \in Seq(0 .. Messages)
    <3>1. received \in [1 .. popped -> 0 .. Messages]
      BY <2>0, Constants DEF ReceivedInOrder
    <3> QED BY <2>0, <3>1, FunctionIsSeq
  <2>3. checksum \in 0 .. Modulus - 1
    <3>1. IsFiniteSet(1 .. popped) /\ \A k \in 1 .. popped : Payloads[k] \in Nat
      BY <2>0, Constants, FS_Interval DEF Payloads
    <3>2. SumFunctionOnSet(Payloads, 1 .. popped) \in Nat
      BY <3>1, SumType
    <3> QED BY <3>2, Constants, ModTurns DEF ReceivedInOrder
  <2>4. /\ seenHead \in 1 .. Len(head) /\ seenTail \in 1 .. Len(tail)
        /\ knownPops \in 0 .. popped /\ knownPushes \in 0 .. pushed
    <3>1. Len(tail) = pushed + 1 /\ Len(head) = popped + 1
      BY IndexFacts
    <3> QED BY <2>0, <3>1 DEF Learnt, PlainTypes
  <2> QED BY <2>1, <2>2, <2>3, <2>4, IndexFacts DEF TypeOK, PlainTypes
<1> QED BY <1>1, RingHolds, PTL

\* No slot is accessed unless the other thread's last access to it happens
\* before: acquire and release are enough, for every capacity and modulus, and
\* however late a store becomes visible.
THEOREM RingHasNoDataRace == Spec => []NoDataRace
<1>1. RingInvariant => NoDataRace
  <2> SUFFICES ASSUME RingInvariant PROVE NoDataRace
    OBVIOUS
  <2> USE DEF RingInvariant
  <2>0. /\ pushed \in Nat /\ popped \in Nat /\ knownPops \in Nat /\ knownPushes \in Nat
        /\ Capacity \in Nat \ {0}
        /\ Slot(pushed) \in Slots /\ Slot(popped) \in Slots
        /\ Slot(Latest(tail)) = Slot(pushed) /\ Slot(Latest(head)) = Slot(popped)
    BY Constants, IndexFacts DEF PlainTypes
  <2>1. ASSUME pcP = "write" PROVE lastRead[Slot(pushed)] <= knownPops
    <3>1. PICK r \in Nat : r = lastRead[Slot(pushed)]
      BY <2>0 DEF PlainTypes
    <3>2. CASE r > 0
      <4>1. /\ pushed < knownPops + Capacity /\ knownPops <= popped /\ popped <= knownPushes
            /\ knownPushes <= pushed
        BY <2>1 DEF Entitled, Learnt
      <4>2. /\ Slot(r - 1) = Slot(pushed)
            /\ r <= popped \/ (pcC = "publish" /\ r = popped + 1)
        BY <2>0, <3>1, <3>2 DEF ReadInTurn
      <4>3. pcC = "publish" => popped < pushed
        BY <2>0, <4>1 DEF Entitled
      <4>4. r - 1 \in Nat /\ r - 1 < pushed
        BY <2>0, <3>2, <4>1, <4>2, <4>3
      <4>5. ~(pushed < (r - 1) + Capacity)
        BY <2>0, <4>2, <4>4, SlotsApart
      <4>6. r <= knownPops
        BY <2>0, <4>1, <4>4, <4>5
      <4> QED BY <3>1, <4>6
    <3>3. CASE r = 0
      BY <2>0, <3>1, <3>3
    <3> QED BY <3>2, <3>3
  <2>2. ASSUME pcC = "read" PROVE lastWrite[Slot(popped)] <= knownPushes
    <3>1. popped < knownPushes /\ knownPushes <= pushed
      BY <2>2 DEF Entitled, Learnt
    <3>2. popped \in popped .. pushed - 1
      BY <2>0, <3>1
    <3>3. lastWrite[Slot(popped)] = popped + 1
      BY <3>2 DEF Pending, HoldsMessage
    <3> QED BY <2>0, <3>1, <3>3
  <2> QED BY <2>0, <2>1, <2>2 DEF NoDataRace
<1> QED BY <1>1, RingHolds, PTL

\* What the consumer has received is the messages pushed first, each once and
\* in order.
THEOREM NothingLostOrRepeated == Spec => [](received = [k \in 1 .. popped |-> k])
BY RingHolds, PTL DEF RingInvariant, ReceivedInOrder

\* When both threads have returned, run_once's result is exact.
THEOREM JoinedResultExact == Spec => [](Joined => ResultExact)
<1> DEFINE Returned ==
      /\ pcP = "done" => pushed = Messages
      /\ pcC = "done" => popped = Messages
<1>1. Init => Returned
  BY DEF Init
<1>2. Returned /\ [Next]_vars => Returned'
  BY DEF Next, ProducerStep, ConsumerStep, Terminated, LoadHead, WriteSlot, PublishTail,
         ProducerReturn, LoadTail, ReadSlot, PublishHead, ConsumerReturn, vars, producerVars,
         consumerVars
<1>3. RingInvariant /\ Returned => (Joined => ResultExact)
  <2>1. DOMAIN Payloads = 1 .. Messages
    BY DEF Payloads
  <2>2. SumFunction(Payloads) = SumFunctionOnSet(Payloads, 1 .. Messages)
    BY <2>1 DEF SumFunction
  <2> QED BY <2>2 DEF RingInvariant, ReceivedInOrder, Joined, ResultExact
<1> HIDE DEF Returned
<1>4. Spec => []Returned
  BY <1>1, <1>2, PTL DEF Spec
<1> QED BY <1>3, <1>4, RingHolds, PTL

-----------------------------------------------------------------------------
(* The ring implements the FIFO queue.                                      *)

\* The abstract queue's variables, under the refinement mapping.
Queue == [k \in 1 .. pushed - popped |-> buffer[Slot(popped + k - 1)]]
Sent == [p \in {"producer"} |-> pushed]
Received == [c \in {"consumer"} |-> received]
fifoVars == <<Queue, Sent, Received>>

\* The queue holds the messages after the last one popped.
Stretch(h, t) == [k \in 1 .. t - h |-> h + k]
QueueOK ==
  /\ Queue = Stretch(popped, pushed)
  /\ popped \in Nat /\ pushed \in Nat /\ popped <= pushed /\ pushed <= popped + Capacity

\* The slots hold them.
LEMMA QueueMeans == RingInvariant => QueueOK
<1> SUFFICES ASSUME RingInvariant PROVE QueueOK
  OBVIOUS
<1> USE DEF RingInvariant
<1>1. /\ popped \in Nat /\ pushed \in Nat /\ knownPops \in Nat /\ knownPushes \in Nat
      /\ popped <= pushed /\ pushed <= popped + Capacity /\ Capacity \in Nat
  BY Constants DEF PlainTypes, Learnt
<1>2. ASSUME NEW k \in 1 .. pushed - popped PROVE buffer[Slot(popped + k - 1)] = popped + k
  <2>1. popped + k - 1 \in popped .. pushed - 1 /\ (popped + k - 1) + 1 = popped + k
    BY <1>1
  <2> QED BY <2>1 DEF Pending, HoldsMessage
<1> QED BY <1>1, <1>2 DEF QueueOK, Queue, Stretch

\* A stretch of messages is a sequence,
LEMMA MessagesSeq ==
  ASSUME NEW h \in Nat, NEW t \in Nat, h <= t
  PROVE  /\ Stretch(h, t) \in Seq(Nat) /\ Len(Stretch(h, t)) = t - h
         /\ \A k \in 1 .. t - h : Stretch(h, t)[k] = h + k
<1>1. t - h \in Nat /\ Stretch(h, t) \in [1 .. t - h -> Nat]
  BY DEF Stretch
<1>2. \A k \in 1 .. t - h : Stretch(h, t)[k] = h + k
  BY DEF Stretch
<1> QED BY <1>1, <1>2, FunctionIsSeq

\* which grows at its end by a push,
LEMMA MessagesPush ==
  ASSUME NEW h \in Nat, NEW t \in Nat, h <= t
  PROVE  Append(Stretch(h, t), t + 1) = Stretch(h, t + 1)
<1>1. PICK n \in Nat : n = t - h
  OBVIOUS
<1>2. /\ Stretch(h, t) \in Seq(Nat) /\ Len(Stretch(h, t)) = n
      /\ \A k \in 1 .. n : Stretch(h, t)[k] = h + k
  BY <1>1, MessagesSeq
<1>3. /\ Stretch(h, t + 1) \in Seq(Nat) /\ Len(Stretch(h, t + 1)) = n + 1
      /\ \A k \in 1 .. n + 1 : Stretch(h, t + 1)[k] = h + k
  <2>1. t + 1 \in Nat /\ h <= t + 1 /\ (t + 1) - h = n + 1
    BY <1>1
  <2>2. /\ Stretch(h, t + 1) \in Seq(Nat) /\ Len(Stretch(h, t + 1)) = (t + 1) - h
        /\ \A k \in 1 .. (t + 1) - h : Stretch(h, t + 1)[k] = h + k
    BY <2>1, MessagesSeq
  <2> QED BY <2>1, <2>2
<1>4. /\ \A k \in 1 .. n : Stretch(h, t + 1)[k] = Stretch(h, t)[k]
      /\ Stretch(h, t + 1)[n + 1] = t + 1
  BY <1>1, <1>2, <1>3
<1>5. t + 1 \in Nat
  OBVIOUS
<1> QED BY <1>2, <1>3, <1>4, <1>5, AppendIs

\* and loses its first by a pop.
LEMMA MessagesPop ==
  ASSUME NEW h \in Nat, NEW t \in Nat, h < t
  PROVE  /\ Stretch(h, t) # <<>> /\ Head(Stretch(h, t)) = h + 1
         /\ Tail(Stretch(h, t)) = Stretch(h + 1, t)
<1>1. PICK n \in Nat : t = h + 1 + n /\ t - h = n + 1 /\ t - (h + 1) = n
  <2>1. t - h - 1 \in Nat /\ t = h + 1 + (t - h - 1)
    OBVIOUS
  <2> QED BY <2>1
<1>2. /\ Stretch(h, t) \in Seq(Nat) /\ Len(Stretch(h, t)) = n + 1
      /\ \A k \in 1 .. n + 1 : Stretch(h, t)[k] = h + k
  BY <1>1, MessagesSeq
<1>3. /\ Stretch(h + 1, t) \in Seq(Nat) /\ Len(Stretch(h + 1, t)) = n
      /\ \A k \in 1 .. n : Stretch(h + 1, t)[k] = (h + 1) + k
  <2>1. h + 1 \in Nat /\ h + 1 <= t
    BY <1>1
  <2>2. /\ Stretch(h + 1, t) \in Seq(Nat) /\ Len(Stretch(h + 1, t)) = t - (h + 1)
        /\ \A k \in 1 .. t - (h + 1) : Stretch(h + 1, t)[k] = (h + 1) + k
    BY <2>1, MessagesSeq
  <2> QED BY <1>1, <2>2
<1>4. Stretch(h, t) # <<>>
  BY <1>2
<1>5. /\ Head(Stretch(h, t)) = Stretch(h, t)[1]
      /\ Tail(Stretch(h, t)) \in Seq(Nat) /\ Len(Tail(Stretch(h, t))) = n
      /\ \A k \in 1 .. n : Tail(Stretch(h, t))[k] = Stretch(h, t)[k + 1]
  BY <1>2, <1>4, HeadTailProperties
<1>6. \A k \in 1 .. n : Tail(Stretch(h, t))[k] = Stretch(h + 1, t)[k]
  <2> SUFFICES ASSUME NEW k \in 1 .. n
               PROVE  Tail(Stretch(h, t))[k] = Stretch(h + 1, t)[k]
    OBVIOUS
  <2>1. k + 1 \in 1 .. n + 1 /\ h + (k + 1) = (h + 1) + k
    OBVIOUS
  <2> QED BY <1>2, <1>3, <1>5, <2>1
<1>7. Tail(Stretch(h, t)) = Stretch(h + 1, t)
  BY <1>3, <1>5, <1>6, SeqEqual
<1> QED BY <1>2, <1>4, <1>5, <1>7

\* The store to tail is a Put.
LEMMA PublishTailPuts ==
  ASSUME RingInvariant, RingInvariant', PublishTail
  PROVE  Fifo!Put("producer")
<1>1. /\ pcP = "publish" /\ pushed' = pushed + 1 /\ UNCHANGED <<popped, received>>
  BY DEF PublishTail, consumerVars
<1>2. /\ pushed < Messages /\ pushed < popped + Capacity /\ pushed \in Nat /\ popped \in Nat
  BY <1>1, Constants DEF RingInvariant, Entitled, Learnt, PlainTypes
<1>3. QueueOK /\ QueueOK'
  BY QueueMeans, PTL
<1>4. Len(Queue) < Capacity
  BY <1>2, <1>3, Constants, MessagesSeq DEF QueueOK
<1>5. Queue' = Append(Queue, pushed + 1)
  BY <1>1, <1>3, MessagesPush DEF QueueOK
<1>6. /\ Len([i \in 1 .. Messages |-> i]) = Messages
      /\ [i \in 1 .. Messages |-> i][pushed + 1] = pushed + 1
  BY <1>2, Constants
<1>7. Sent' = [Sent EXCEPT !["producer"] = @ + 1] /\ Sent["producer"] = pushed
  BY <1>1 DEF Sent
<1>8. Received' = Received
  BY <1>1 DEF Received
<1> QED BY <1>2, <1>4, <1>5, <1>6, <1>7, <1>8 DEF Fifo!Put, Queue, Sent, Received

\* The store to head is a Get.
LEMMA PublishHeadGets ==
  ASSUME RingInvariant, RingInvariant', PublishHead
  PROVE  Fifo!Get("consumer")
<1>1. /\ pcC = "publish" /\ popped' = popped + 1 /\ received' = Append(received, value)
      /\ UNCHANGED pushed
  BY DEF PublishHead, producerVars
<1>2. value = popped + 1 /\ popped < pushed
  BY <1>1, Constants DEF RingInvariant, Entitled, Learnt, Pending, PlainTypes
<1>3. QueueOK /\ QueueOK'
  BY QueueMeans, PTL
<1>4. /\ Queue # <<>> /\ Head(Queue) = value /\ Queue' = Tail(Queue)
  BY <1>1, <1>2, <1>3, MessagesPop DEF QueueOK
<1>5. Received' = [Received EXCEPT !["consumer"] = Append(@, Head(Queue))]
  BY <1>1, <1>4 DEF Received
<1>6. Sent' = Sent
  BY <1>1 DEF Sent
<1> QED BY <1>4, <1>5, <1>6 DEF Fifo!Get, Queue, Sent, Received

\* Every step of the ring is a step of the queue or leaves it alone.
LEMMA RingStepRefines ==
  RingInvariant /\ RingInvariant' /\ [Next]_vars => [Fifo!Next]_fifoVars
<1> SUFFICES ASSUME RingInvariant, RingInvariant', [Next]_vars
             PROVE  Fifo!Next \/ UNCHANGED fifoVars
  OBVIOUS
<1>1. QueueOK /\ QueueOK'
  BY QueueMeans, PTL
<1>2. ASSUME UNCHANGED <<pushed, popped, received>> PROVE UNCHANGED fifoVars
  BY <1>1, <1>2 DEF QueueOK, fifoVars, Sent, Received
<1>3. CASE PublishTail
  BY <1>3, PublishTailPuts DEF Fifo!Next
<1>4. CASE PublishHead
  BY <1>4, PublishHeadGets DEF Fifo!Next
<1>5. CASE ~PublishTail /\ ~PublishHead
  <2>1. UNCHANGED <<pushed, popped, received>>
    BY <1>5 DEF Next, ProducerStep, ConsumerStep, Terminated, LoadHead, WriteSlot, ProducerReturn,
                LoadTail, ReadSlot, ConsumerReturn, vars, producerVars, consumerVars
  <2> QED BY <1>2, <2>1
<1> QED BY <1>3, <1>4, <1>5

\* The lock-free ring, with its wrapped indices and its late loads, is a FIFO
\* queue of Capacity places between its two threads.
THEOREM RingImplementsFifo == Spec => ImplementsFifo
<1>1. Init => Fifo!Init
  <2> SUFFICES ASSUME Init PROVE Fifo!Init
    OBVIOUS
  <2>1. [k \in 1 .. pushed - popped |-> buffer[Slot(popped + k - 1)]] = <<>>
    BY DEF Init
  <2> QED BY <2>1 DEF Init, Fifo!Init
<1>2. RingInvariant /\ RingInvariant' /\ [Next]_vars => [Fifo!Next]_(Fifo!vars)
  BY RingStepRefines DEF fifoVars, Queue, Sent, Received, Fifo!vars
<1> QED BY <1>1, <1>2, RingHolds, PTL DEF Spec, ImplementsFifo, Fifo!Spec
=============================================================================
