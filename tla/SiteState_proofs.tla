--------------------------- MODULE SiteState_proofs ---------------------------
(***************************************************************************)
(* The parts of the site's search code that keep state do what their       *)
(* callers count on, whatever the texts, the words, the tables, the        *)
(* timers' callbacks and the listeners are, and however many there are.    *)
(*                                                                         *)
(* Each part has an inductive invariant of its own: what is queued comes   *)
(* after what has run; the wrappers on an emitter's lists are all          *)
(* different and none of them fired; the words so far and the one in work  *)
(* make up what was read; every prefix of a text says where its last       *)
(* piece starts; every acceptor of the dictionary knows the words that     *)
(* start with what it has read.                                            *)
(***************************************************************************)
EXTENDS SiteState, Integers, ProofLemmas, SequenceTheorems

(* Sequences.                                                               *)

\* What concatenation gives.
LEMMA Concatenation ==
  ASSUME NEW S, NEW a \in Seq(S), NEW b \in Seq(S), NEW c, c = a \o b
  PROVE  /\ c \in Seq(S) /\ Len(c) = Len(a) + Len(b)
         /\ \A k \in 1 .. Len(a) : c[k] = a[k]
         /\ \A k \in 1 .. Len(b) : c[Len(a) + k] = b[k]
<1>1. Len(a) \in Nat /\ Len(b) \in Nat
  OBVIOUS
<1>2. /\ c \in Seq(S) /\ Len(c) = Len(a) + Len(b)
      /\ \A k \in 1 .. Len(a) + Len(b) : c[k] = IF k <= Len(a) THEN a[k] ELSE b[k - Len(a)]
  BY ConcatProperties
<1>3. ASSUME NEW k \in 1 .. Len(b) PROVE c[Len(a) + k] = b[k]
  <2>1. PICK x : x = Len(a) + k
    OBVIOUS
  <2>2. x \in 1 .. Len(a) + Len(b) /\ ~(x <= Len(a)) /\ x - Len(a) = k
    BY <1>1, <2>1
  <2>3. c[x] = b[k]
    BY <1>2, <2>2
  <2> QED BY <2>1, <2>3
<1>4. ASSUME NEW k \in 1 .. Len(a) PROVE c[k] = a[k]
  BY <1>1, <1>2
<1> QED BY <1>2, <1>3, <1>4

\* A sequence made of one.
LEMMA Singleton ==
  ASSUME NEW S, NEW c \in S
  PROVE  <<c>> \in Seq(S) /\ <<c>> # <<>> /\ Len(<<c>>) = 1 /\ <<c>>[1] = c
OBVIOUS

\* A sequence of one.
LEMMA OnlyOne ==
  ASSUME NEW S, NEW u \in Seq(S), Len(u) = 1
  PROVE  u = <<u[1]>>
<1>1. PICK v : v = <<u[1]>>
  OBVIOUS
<1>2. u[1] \in S
  <2>1. 1 \in 1 .. Len(u)
    OBVIOUS
  <2> QED BY <2>1, ElementOfSeq
<1>3. v \in Seq(S) /\ Len(v) = 1 /\ v[1] = u[1]
  BY <1>1, <1>2
<1>4. u = v
  BY <1>3, SeqEqual
<1> QED BY <1>1, <1>4

\* One more element of a prefix.
LEMMA LongerPrefix ==
  ASSUME NEW S, NEW s \in Seq(S), NEW m \in Nat, m < Len(s)
  PROVE  SubSeq(s, 1, m) \o <<s[m + 1]>> = SubSeq(s, 1, m + 1)
<1>1. Len(s) \in Nat /\ m + 1 \in 1 .. Len(s) /\ s[m + 1] \in S
  OBVIOUS
<1>2. PICK a, b, d : a = SubSeq(s, 1, m) /\ b = <<s[m + 1]>> /\ d = SubSeq(s, 1, m + 1)
  OBVIOUS
<1>3. /\ a \in Seq(S) /\ Len(a) = m /\ \A k \in 1 .. m : a[k] = s[k]
      /\ d \in Seq(S) /\ Len(d) = m + 1 /\ \A k \in 1 .. m + 1 : d[k] = s[k]
  BY <1>1, <1>2
<1>4. b \in Seq(S) /\ Len(b) = 1 /\ b[1] = s[m + 1]
  BY <1>1, <1>2
<1>5. PICK c : c = a \o b
  OBVIOUS
<1>6. /\ c \in Seq(S) /\ Len(c) = Len(a) + Len(b)
      /\ \A k \in 1 .. Len(a) : c[k] = a[k]
      /\ \A k \in 1 .. Len(b) : c[Len(a) + k] = b[k]
  <2>1. a \in Seq(S) /\ b \in Seq(S)
    BY <1>3, <1>4
  <2>2. c \in Seq(S) /\ Len(c) = Len(a) + Len(b)
    BY ONLY <1>5, <2>1, Concatenation
  <2>3. \A k \in 1 .. Len(a) : c[k] = a[k]
    BY ONLY <1>5, <2>1, Concatenation
  <2>4. \A k \in 1 .. Len(b) : c[Len(a) + k] = b[k]
    BY ONLY <1>5, <2>1, Concatenation
  <2> QED BY ONLY <2>2, <2>3, <2>4
<1>7. Len(c) = m + 1 /\ c[m + 1] = s[m + 1]
  BY <1>3, <1>4, <1>6
<1>8. ASSUME NEW k \in 1 .. Len(c) PROVE c[k] = d[k]
  <2>1. CASE k \in 1 .. m
    BY <1>3, <1>6, <2>1
  <2>2. CASE k = m + 1
    BY <1>1, <1>3, <1>7, <2>2
  <2> QED BY <1>7, <2>1, <2>2
<1>9. c = d
  BY <1>3, <1>6, <1>7, <1>8, SeqEqual
<1> QED BY <1>2, <1>5, <1>9

-----------------------------------------------------------------------------
(* nextTick.                                                                *)

\* What has run, then the rest of the queue in work, then the queue: the items
\* in order.
TicksInvariant ==
  /\ items \in Nat
  /\ queue \in Seq(Nat) /\ currentQueue \in Seq(Nat) /\ ran \in Seq(Nat)
  /\ len = Len(currentQueue) /\ queueIndex \in 0 .. len
  /\ \A k \in 1 .. Len(ran) : ran[k] = k
  /\ items = Len(ran) + (len - queueIndex) + Len(queue)
  /\ \A k \in queueIndex + 1 .. len : currentQueue[k] = Len(ran) + (k - queueIndex)
  /\ \A k \in 1 .. Len(queue) : queue[k] = Len(ran) + (len - queueIndex) + k
  /\ ~draining => currentQueue = <<>> /\ code = "nothing"

\* Every step of nextTick and its timers keeps the invariant.
LEMMA TicksStep == ASSUME TicksInvariant, Ticks!Next \/ UNCHANGED tickVars PROVE TicksInvariant'
<1>0. /\ Len(queue) \in Nat /\ Len(currentQueue) \in Nat /\ Len(ran) \in Nat
      /\ len \in Nat /\ queueIndex \in Nat /\ queueIndex <= len /\ Len(<<>>) = 0 /\ <<>> \in Seq(Nat)
  BY DEF TicksInvariant
<1>1. CASE Ticks!NextTick
  <2>1. /\ items' = items + 1 /\ queue' = Append(queue, items + 1)
        /\ UNCHANGED <<draining, currentQueue, queueIndex, len, ran>>
    BY <1>1 DEF Ticks!NextTick
  <2>2. /\ queue' \in Seq(Nat) /\ Len(queue') = Len(queue) + 1
        /\ \A k \in 1 .. Len(queue) : queue'[k] = queue[k]
        /\ queue'[Len(queue) + 1] = items + 1
    BY <2>1 DEF TicksInvariant
  <2>3. draining => draining'
    BY <2>1
  <2>4. items + 1 = Len(ran) + (len - queueIndex) + (Len(queue) + 1) /\ items + 1 \in Nat
    BY <1>0 DEF TicksInvariant
  <2>5. ASSUME NEW k \in 1 .. Len(queue')
        PROVE  queue'[k] = Len(ran) + (len - queueIndex) + k
    <3>1. CASE k \in 1 .. Len(queue)
      BY <2>2, <3>1 DEF TicksInvariant
    <3>2. CASE k = Len(queue) + 1
      BY <2>2, <2>4, <3>2
    <3> QED BY <1>0, <2>2, <2>5, <3>1, <3>2
  <2>6. ~draining' => code' = "nothing"
    BY <1>1, <2>1 DEF TicksInvariant, Ticks!NextTick
  <2> QED BY <1>0, <2>1, <2>2, <2>4, <2>5, <2>6 DEF TicksInvariant
<1>2. ASSUME NEW q \in Seq(Nat), NEW index, index = queueIndex, Len(q) >= len,
             \A k \in 1 .. Len(currentQueue) : q[k] = currentQueue[k],
             Len(q) = Len(currentQueue) + Len(queue),
             \A k \in 1 .. Len(queue) : q[len + k] = queue[k],
             len' = Len(q), currentQueue' = q, queue' = <<>>, draining' = TRUE, queueIndex' = index,
             items' = items, ran' = ran
      PROVE  TicksInvariant'
  <2>1. /\ items' = Len(ran') + (len' - queueIndex') + Len(queue') /\ queueIndex' \in 0 .. len'
    BY <1>0, <1>2 DEF TicksInvariant
  <2>2. ASSUME NEW k \in queueIndex + 1 .. Len(q)
        PROVE  q[k] = Len(ran) + (k - queueIndex)
    <3>1. CASE k <= len
      BY <1>0, <1>2, <2>2, <3>1 DEF TicksInvariant
    <3>2. CASE len < k
      <4>1. PICK j \in 1 .. Len(queue) : k = len + j
        <5>1. k - len \in 1 .. Len(queue) /\ k = len + (k - len)
          BY <1>0, <1>2, <2>2, <3>2 DEF TicksInvariant
        <5> QED BY <5>1
      <4>2. q[k] = queue[j] /\ queue[j] = Len(ran) + (len - queueIndex) + j
        BY <1>2, <4>1 DEF TicksInvariant
      <4> QED BY <1>0, <4>1, <4>2
    <3> QED BY <1>0, <2>2, <3>1, <3>2
  <2> QED BY <1>0, <1>2, <2>1, <2>2 DEF TicksInvariant
<1>3. CASE Ticks!DrainTimer
  <2>1. CASE draining /\ UNCHANGED <<queue, draining, currentQueue, queueIndex, len, items, ran>>
    BY <2>1 DEF TicksInvariant
  <2>2. CASE /\ ~draining /\ UNCHANGED <<queueIndex, items, ran>>
             /\ draining' = TRUE /\ len' = Len(queue) /\ currentQueue' = queue /\ queue' = <<>>
    <3>1. currentQueue = <<>> /\ len = 0 /\ queueIndex = 0
      BY <1>0, <2>2 DEF TicksInvariant
    <3> QED BY <1>0, <1>2, <2>2, <3>1 DEF TicksInvariant
  <2> QED BY <1>3, <2>1, <2>2 DEF Ticks!DrainTimer, Ticks!Drain
<1>4. CASE Ticks!CleanUpTimer
  <2>1. PICK q : q = currentQueue \o queue
    OBVIOUS
  <2>2. /\ UNCHANGED <<queueIndex, items, ran>>
        /\ draining' = TRUE /\ len' = Len(q) /\ currentQueue' = q /\ queue' = <<>>
    BY <1>4, <2>1 DEF Ticks!CleanUpTimer, Ticks!Drain, Ticks!AfterTheThrow
  <2>3. /\ q \in Seq(Nat) /\ Len(q) = Len(currentQueue) + Len(queue)
        /\ \A k \in 1 .. Len(currentQueue) : q[k] = currentQueue[k]
        /\ \A k \in 1 .. Len(queue) : q[len + k] = queue[k]
    BY <2>1 DEF TicksInvariant
  <2>4. Len(q) >= len /\ len = Len(currentQueue)
    BY <1>0, <2>3 DEF TicksInvariant
  <2> QED BY <1>2, <2>2, <2>3, <2>4
<1>5. CASE Ticks!RunItem
  <2>1. /\ queueIndex < len /\ queueIndex' = queueIndex + 1
        /\ ran' = Append(ran, currentQueue[queueIndex + 1])
        /\ UNCHANGED <<queue, draining, currentQueue, len, items>>
    BY <1>5 DEF Ticks!RunItem
  <2>2. currentQueue[queueIndex + 1] = Len(ran) + 1
    <3>1. queueIndex + 1 \in queueIndex + 1 .. len /\ (queueIndex + 1) - queueIndex = 1
      BY <1>0, <2>1
    <3> QED BY <3>1 DEF TicksInvariant
  <2>3. /\ ran' \in Seq(Nat) /\ Len(ran') = Len(ran) + 1
        /\ \A k \in 1 .. Len(ran) : ran'[k] = ran[k]
        /\ ran'[Len(ran) + 1] = Len(ran) + 1
    BY <2>1, <2>2 DEF TicksInvariant
  <2>4. ASSUME NEW k \in 1 .. Len(ran') PROVE ran'[k] = k
    <3>1. CASE k \in 1 .. Len(ran)
      BY <2>3, <3>1 DEF TicksInvariant
    <3>2. CASE k = Len(ran) + 1
      BY <2>3, <3>2
    <3> QED BY <1>0, <2>3, <2>4, <3>1, <3>2
  <2>5. ASSUME NEW k \in queueIndex' + 1 .. len'
        PROVE  currentQueue'[k] = Len(ran') + (k - queueIndex')
    <3>1. k \in queueIndex + 1 .. len
      BY <1>0, <2>1, <2>5
    <3>2. currentQueue[k] = Len(ran) + (k - queueIndex)
      BY <3>1 DEF TicksInvariant
    <3> QED BY <1>0, <2>1, <2>3, <3>1, <3>2
  <2>6. ASSUME NEW k \in 1 .. Len(queue')
        PROVE  queue'[k] = Len(ran') + (len' - queueIndex') + k
    <3>1. queue[k] = Len(ran) + (len - queueIndex) + k
      BY <2>1, <2>6 DEF TicksInvariant
    <3> QED BY <1>0, <2>1, <2>3, <3>1
  <2>7. items' = Len(ran') + (len' - queueIndex') + Len(queue') /\ queueIndex' \in 0 .. len'
    BY <1>0, <2>1, <2>3 DEF TicksInvariant
  <2>8. ~draining' => FALSE
    BY <1>5, <2>1 DEF TicksInvariant, Ticks!RunItem
  <2> QED BY <1>0, <2>1, <2>3, <2>4, <2>5, <2>6, <2>7, <2>8 DEF TicksInvariant
<1>6. CASE Ticks!NextQueue
  <2>1. /\ queueIndex = len /\ queueIndex' = 0 /\ len' = Len(queue) /\ UNCHANGED <<items, ran>>
        /\ queue' = <<>> /\ currentQueue' = queue
        /\ queue # <<>> => draining' = draining
    BY <1>0, <1>6 DEF TicksInvariant, Ticks!NextQueue
  <2>2. draining /\ (~draining' => queue = <<>> /\ code' = "nothing")
    BY <1>6 DEF TicksInvariant, Ticks!NextQueue
  <2>3. queue' \in Seq(Nat) /\ currentQueue' \in Seq(Nat) /\ len' = Len(currentQueue')
    BY <1>0, <2>1 DEF TicksInvariant
  <2>4. items' = Len(ran') + (len' - queueIndex') + Len(queue') /\ queueIndex' \in 0 .. len'
    <3>1. Len(queue') = 0 /\ len - queueIndex = 0
      BY <1>0, <2>1
    <3>2. items = Len(ran) + (len - queueIndex) + Len(queue)
      BY DEF TicksInvariant
    <3> QED BY <1>0, <2>1, <3>1, <3>2
  <2>5. ASSUME NEW k \in queueIndex' + 1 .. len'
        PROVE  currentQueue'[k] = Len(ran') + (k - queueIndex')
    <3>1. k \in 1 .. Len(queue)
      BY <1>0, <2>1, <2>5
    <3>2. queue[k] = Len(ran) + (len - queueIndex) + k
      BY <3>1 DEF TicksInvariant
    <3> QED BY <1>0, <2>1, <3>1, <3>2
  <2>6. \A k \in 1 .. Len(queue') : FALSE
    BY <1>0, <2>1
  <2> QED BY <2>1, <2>2, <2>3, <2>4, <2>5, <2>6 DEF TicksInvariant
<1>7. CASE Ticks!Returns \/ Ticks!Throws \/ Ticks!AllRan \/ UNCHANGED tickVars
  BY <1>7 DEF TicksInvariant, Ticks!Returns, Ticks!Throws, Ticks!AllRan, Ticks!vars, tickVars
<1> QED BY <1>1, <1>3, <1>4, <1>5, <1>6, <1>7 DEF Ticks!Next, Ticks!Timer, Ticks!Running

\* The invariant holds at first.
LEMMA TicksStart == ASSUME Ticks!Init PROVE TicksInvariant
BY DEF Ticks!Init, TicksInvariant

\* It says in which order items ran.
LEMMA TicksInOrder == ASSUME TicksInvariant PROVE Ticks!RunInOrder
<1>1. ran \in Seq(Nat) /\ \A k \in 1 .. Len(ran) : ran[k] = k
  BY DEF TicksInvariant
<1>2. ran = [k \in 1 .. Len(ran) |-> ran[k]]
  BY <1>1
<1> QED BY <1>1, <1>2 DEF Ticks!RunInOrder

-----------------------------------------------------------------------------
(* EventEmitter.                                                            *)

\* The list new is old without some elements, those at lost among them.
Thins(new, old, lost) ==
  \E m \in [DOMAIN new -> DOMAIN old] :
    /\ \A j, k \in DOMAIN new : m[j] = m[k] => j = k
    /\ \A k \in DOMAIN new : new[k] = old[m[k]] /\ m[k] \notin lost

\* What removing a listener leaves.
LEMMA WithoutAtThins ==
  ASSUME NEW S, NEW list \in Seq(S), NEW ks \in SUBSET DOMAIN list,
         NEW out, out = Emitter!WithoutAt(list, ks)
  PROVE  /\ out \in Seq(S)
         /\ \E lost \in SUBSET ks : (ks # {} => lost # {}) /\ Thins(out, list, lost)
<1>1. CASE ks = {}
  <2>1. out = list /\ DOMAIN list = 1 .. Len(list)
    BY <1>1 DEF Emitter!WithoutAt
  <2>2. PICK m : m = [k \in DOMAIN out |-> k]
    OBVIOUS
  <2>3. /\ m \in [DOMAIN out -> DOMAIN list]
        /\ \A j, k \in DOMAIN out : m[j] = m[k] => j = k
        /\ \A k \in DOMAIN out : out[k] = list[m[k]] /\ m[k] \notin {}
    BY <2>1, <2>2
  <2>4. Thins(out, list, {})
    BY ONLY <2>3 DEF Thins
  <2> QED BY <1>1, <2>1, <2>4
<1>2. CASE ks # {}
  <2>1. /\ Len(list) \in Nat /\ DOMAIN list = 1 .. Len(list)
        /\ ks \in SUBSET (0 .. Len(list))
    OBVIOUS
  <2>2. \E k \in ks : \A j \in ks : j <= k
    BY <1>2, <2>1, NatGreatest
  <2>3. PICK r : r = CHOOSE k \in ks : \A j \in ks : j <= k
    OBVIOUS
  <2>4. r \in ks /\ r \in 1 .. Len(list)
    BY <2>1, <2>2, <2>3
  <2>5. out = SubSeq(list, 1, r - 1) \o SubSeq(list, r + 1, Len(list))
    BY <1>2, <2>3 DEF Emitter!WithoutAt, Emitter!RemoveAt
  <2>14. PICK a, b : a = SubSeq(list, 1, r - 1) /\ b = SubSeq(list, r + 1, Len(list))
    OBVIOUS
  <2>15. /\ a \in Seq(S) /\ Len(a) = r - 1 /\ \A k \in 1 .. r - 1 : a[k] = list[k]
    BY <2>1, <2>4, <2>14
  <2>16. /\ b \in Seq(S) /\ Len(b) = Len(list) - r /\ \A k \in 1 .. Len(list) - r : b[k] = list[r + k]
    BY <2>1, <2>4, <2>14
  <2>6. /\ out \in Seq(S) /\ Len(out) = Len(list) - 1
        /\ DOMAIN out = 1 .. Len(list) - 1
        /\ \A k \in 1 .. Len(list) - 1 : out[k] = list[IF k < r THEN k ELSE k + 1]
    <3>1. /\ out = a \o b /\ out \in Seq(S) /\ Len(out) = Len(a) + Len(b)
          /\ \A k \in 1 .. Len(a) : out[k] = a[k]
          /\ \A k \in Len(a) + 1 .. Len(a) + Len(b) : out[k] = b[k - Len(a)]
      <4>1. out = a \o b
        BY <2>5, <2>14
      <4>2. a \in Seq(S) /\ b \in Seq(S) /\ Len(a) \in Nat /\ Len(b) \in Nat
        BY <2>15, <2>16
      <4>3. /\ out \in Seq(S) /\ Len(out) = Len(a) + Len(b)
            /\ \A k \in 1 .. Len(a) + Len(b) : out[k] = IF k <= Len(a) THEN a[k] ELSE b[k - Len(a)]
        BY ONLY <4>1, <4>2, ConcatProperties
      <4> QED BY ONLY <4>1, <4>2, <4>3
    <3>2. Len(out) = Len(list) - 1 /\ DOMAIN out = 1 .. Len(out)
      BY <2>1, <2>4, <2>15, <2>16, <3>1
    <3>3. ASSUME NEW k \in 1 .. Len(list) - 1 PROVE out[k] = list[IF k < r THEN k ELSE k + 1]
      <4>1. CASE k < r
        BY <2>1, <2>4, <2>15, <3>1, <4>1
      <4>2. CASE r <= k
        <5>1. out[k] = b[k - Len(a)] /\ k - Len(a) = k - (r - 1)
          <6>1. Len(a) = r - 1 /\ k \in Len(a) + 1 .. Len(a) + Len(b)
            BY <2>1, <2>4, <2>15, <2>16, <4>2
          <6> QED BY <3>1, <6>1
        <5>2. PICK x : x = k - (r - 1)
          OBVIOUS
        <5>3. x \in 1 .. Len(list) - r /\ r + x = k + 1
          BY <2>1, <2>4, <4>2, <5>2
        <5>4. b[x] = list[r + x]
          BY <2>16, <5>3
        <5>5. ~(k < r)
          BY <2>1, <2>4, <4>2
        <5> QED BY <5>1, <5>2, <5>3, <5>4, <5>5
      <4> QED BY <2>1, <2>4, <4>1, <4>2
    <3> QED BY <3>1, <3>2, <3>3
  <2>7. PICK m : m = [k \in DOMAIN out |-> IF k < r THEN k ELSE k + 1]
    OBVIOUS
  <2>8. m \in [DOMAIN out -> DOMAIN list]
    BY <2>1, <2>4, <2>6, <2>7
  <2>9. ASSUME NEW j \in DOMAIN out, NEW k \in DOMAIN out, m[j] = m[k] PROVE j = k
    BY <2>1, <2>4, <2>6, <2>7, <2>9
  <2>10. ASSUME NEW k \in DOMAIN out PROVE out[k] = list[m[k]] /\ m[k] \notin {r}
    BY <2>1, <2>4, <2>6, <2>7, <2>10
  <2>11. Thins(out, list, {r})
    BY ONLY <2>8, <2>9, <2>10 DEF Thins
  <2> QED BY <2>4, <2>6, <2>11
<1> QED BY <1>1, <1>2

\* What is left was there, and not at a place that was lost.
LEMMA ThinsType ==
  ASSUME NEW new, NEW old, NEW lost, Thins(new, old, lost), NEW k \in DOMAIN new
  PROVE  \E j \in DOMAIN old : new[k] = old[j] /\ j \notin lost
BY DEF Thins

\* A function that listens, or the wrapper of once around it; an emit at work.
Listener == [fn : Functions, once : Nat]
Frame == [type : Types, listeners : Seq(Listener), i : Nat \ {0}, inside : BOOLEAN]

\* The wrappers on the lists are all different ones, and copies that emits
\* work through are of the same wrappers.
ListsInvariant ==
  /\ emitterCalls \in Nat
  /\ events \in [Types -> Seq(Listener)] /\ stack \in Seq(Frame)
  /\ \A t \in Types : \A k \in DOMAIN events[t] : events[t][k].once <= emitterCalls
  /\ \A f \in DOMAIN stack : \A k \in DOMAIN stack[f].listeners :
       stack[f].listeners[k].once <= emitterCalls
  /\ \A t, u \in Types : \A k \in DOMAIN events[t], j \in DOMAIN events[u] :
       events[t][k].once = events[u][j].once /\ events[t][k].once # 0 => t = u /\ k = j
  /\ \A f \in DOMAIN stack, t \in Types :
       \A k \in DOMAIN stack[f].listeners, j \in DOMAIN events[t] :
         stack[f].listeners[k].once = events[t][j].once /\ events[t][j].once # 0
           => t = stack[f].type /\ events[t][j] = stack[f].listeners[k]

\* Wrappers fire once each, and those on the lists have not fired.
FiredInvariant ==
  /\ heard \in Seq(Nat)
  /\ fired = {heard[k] : k \in DOMAIN heard} /\ fired \subseteq 1 .. emitterCalls
  /\ \A j, k \in DOMAIN heard : heard[j] = heard[k] => j = k
  /\ \A t \in Types : \A k \in DOMAIN events[t] : events[t][k].once \notin fired

EmitterInvariant == ListsInvariant /\ FiredInvariant

\* A step that adds no listener to a list, and lets the emits work through
\* copies that they had or through the lists.
LEMMA ListsThin ==
  ASSUME ListsInvariant, emitterCalls' \in Nat, emitterCalls <= emitterCalls',
         events' \in [Types -> Seq(Listener)],
         \A t \in Types : \E lost : Thins(events'[t], events[t], lost),
         stack' \in Seq(Frame),
         \A f \in DOMAIN stack' :
           \/ \E h \in DOMAIN stack : stack'[f].type = stack[h].type
                                      /\ stack'[f].listeners = stack[h].listeners
           \/ stack'[f].type \in Types /\ stack'[f].listeners = events[stack'[f].type]
  PROVE  ListsInvariant'
<1>1. ASSUME NEW t \in Types, NEW k \in DOMAIN events'[t]
      PROVE  \E j \in DOMAIN events[t] : events'[t][k] = events[t][j]
  <2>1. PICK lost : Thins(events'[t], events[t], lost)
    OBVIOUS
  <2> QED BY <1>1, <2>1, ThinsType
<1>3. ASSUME NEW t \in Types, NEW k \in DOMAIN events'[t] PROVE events'[t][k].once <= emitterCalls'
  <2>1. PICK j \in DOMAIN events[t] : events'[t][k] = events[t][j]
    BY <1>1
  <2>2. events[t][j].once <= emitterCalls /\ events[t][j].once \in Nat /\ emitterCalls \in Nat
    <3>1. events[t][j] \in Listener
      BY DEF ListsInvariant
    <3> QED BY <3>1 DEF ListsInvariant, Listener
  <2> QED BY <2>1, <2>2
<1>4. ASSUME NEW f \in DOMAIN stack', NEW k \in DOMAIN stack'[f].listeners
      PROVE  stack'[f].listeners[k].once <= emitterCalls'
  <2>1. ASSUME NEW n, n = stack'[f].listeners[k].once, n \in Nat, n <= emitterCalls
        PROVE n <= emitterCalls'
    BY <2>1 DEF ListsInvariant
  <2>2. CASE \E h \in DOMAIN stack : stack'[f].listeners = stack[h].listeners
    <3>1. PICK h \in DOMAIN stack : stack'[f].listeners = stack[h].listeners
      BY <2>2
    <3>2. stack[h].listeners \in Seq(Listener) /\ k \in DOMAIN stack[h].listeners
      <4>1. stack[h] \in Frame
        BY DEF ListsInvariant
      <4> QED BY <3>1, <4>1 DEF Frame
    <3>3. stack[h].listeners[k].once <= emitterCalls /\ stack[h].listeners[k].once \in Nat
      <4>1. stack[h].listeners[k] \in Listener
        BY <3>2
      <4> QED BY <3>2, <4>1 DEF ListsInvariant, Listener
    <3> QED BY <2>1, <3>1, <3>3
  <2>3. CASE stack'[f].type \in Types /\ stack'[f].listeners = events[stack'[f].type]
    <3>1. PICK t \in Types : stack'[f].listeners = events[t]
      BY <2>3
    <3>2. events[t] \in Seq(Listener) /\ k \in DOMAIN events[t]
      BY <3>1 DEF ListsInvariant
    <3>3. events[t][k].once <= emitterCalls /\ events[t][k].once \in Nat
      <4>1. events[t][k] \in Listener
        BY <3>2
      <4> QED BY <3>2, <4>1 DEF ListsInvariant, Listener
    <3> QED BY <2>1, <3>1, <3>3
  <2> QED BY <2>2, <2>3
<1>5. ASSUME NEW t \in Types, NEW u \in Types, NEW k \in DOMAIN events'[t], NEW j \in DOMAIN events'[u],
             events'[t][k].once = events'[u][j].once, events'[t][k].once # 0
      PROVE  t = u /\ k = j
  <2>1. PICK a \in DOMAIN events[t] : events'[t][k] = events[t][a]
    BY <1>1
  <2>2. PICK b \in DOMAIN events[u] : events'[u][j] = events[u][b]
    BY <1>1
  <2>3. t = u
    BY <1>5, <2>1, <2>2 DEF ListsInvariant
  <2>4. PICK lost : Thins(events'[t], events[t], lost)
    OBVIOUS
  <2>5. PICK m \in [DOMAIN events'[t] -> DOMAIN events[t]] :
           /\ \A x, y \in DOMAIN events'[t] : m[x] = m[y] => x = y
           /\ \A x \in DOMAIN events'[t] : events'[t][x] = events[t][m[x]]
    BY <2>4 DEF Thins
  <2>6. m[k] \in DOMAIN events[t] /\ m[j] \in DOMAIN events[t] /\ j \in DOMAIN events'[t]
    BY <2>3, <2>5
  <2>7. events[t][m[k]].once = events[t][m[j]].once /\ events[t][m[k]].once # 0
    BY <1>5, <2>3, <2>5
  <2>8. m[k] = m[j]
    BY <2>6, <2>7 DEF ListsInvariant
  <2> QED BY <2>3, <2>5, <2>6, <2>8
<1>6. ASSUME NEW f \in DOMAIN stack', NEW t \in Types,
             NEW k \in DOMAIN stack'[f].listeners, NEW j \in DOMAIN events'[t],
             stack'[f].listeners[k].once = events'[t][j].once, events'[t][j].once # 0
      PROVE  t = stack'[f].type /\ events'[t][j] = stack'[f].listeners[k]
  <2>1. PICK a \in DOMAIN events[t] : events'[t][j] = events[t][a]
    BY <1>1
  <2>2. CASE \E h \in DOMAIN stack : stack'[f].type = stack[h].type
                                     /\ stack'[f].listeners = stack[h].listeners
    BY <1>6, <2>1, <2>2 DEF ListsInvariant
  <2>3. CASE stack'[f].type \in Types /\ stack'[f].listeners = events[stack'[f].type]
    BY <1>6, <2>1, <2>3 DEF ListsInvariant
  <2> QED BY <2>2, <2>3
<1> QED BY <1>3, <1>4, <1>5, <1>6 DEF ListsInvariant
\* A list that stays is thinned by nothing.
LEMMA ThinsSame == \A s : Thins(s, s, {})
<1> TAKE s
<1>1. PICK m : m = [k \in DOMAIN s |-> k]
  OBVIOUS
<1>2. /\ m \in [DOMAIN s -> DOMAIN s] /\ \A j, k \in DOMAIN s : m[j] = m[k] => j = k
      /\ \A k \in DOMAIN s : s[k] = s[m[k]] /\ m[k] \notin {}
  BY <1>1
<1> QED BY ONLY <1>2 DEF Thins

\* So is one that is emptied.
LEMMA ThinsEmpty == \A s : Thins(<<>>, s, {})
<1> TAKE s
<1>1. PICK m : m = [k \in {} |-> k]
  OBVIOUS
<1>2. DOMAIN <<>> = {} /\ m \in [{} -> DOMAIN s]
  BY <1>1
<1> QED BY <1>2 DEF Thins

\* One list is thinned.
LEMMA OneThin ==
  ASSUME ListsInvariant, NEW t \in Types, NEW new \in Seq(Listener), NEW lost,
         Thins(new, events[t], lost), events' = [events EXCEPT ![t] = new]
  PROVE  /\ events' \in [Types -> Seq(Listener)]
         /\ \A u \in Types : \E gone : Thins(events'[u], events[u], gone)
<1>1. events' \in [Types -> Seq(Listener)] /\ \A u \in Types : events'[u] = IF u = t THEN new ELSE events[u]
  BY DEF ListsInvariant
<1>2. ASSUME NEW u \in Types PROVE \E gone : Thins(events'[u], events[u], gone)
  <2>1. CASE u = t
    BY <1>1, <2>1
  <2>2. CASE u # t
    BY <1>1, <2>2, ThinsSame
  <2> QED BY <2>1, <2>2
<1> QED BY <1>1, <1>2

\* The lists stay.
LEMMA AllThin ==
  ASSUME ListsInvariant, events' = events
  PROVE  /\ events' \in [Types -> Seq(Listener)]
         /\ \A u \in Types : \E gone : Thins(events'[u], events[u], gone)
BY ThinsSame DEF ListsInvariant

\* addListener and once.
LEMMA ListsGrow ==
  ASSUME EmitterInvariant, NEW t \in Types, NEW g \in Listener,
         events' = [events EXCEPT ![t] = Append(@, g)], emitterCalls' = emitterCalls + 1,
         g.once \in {0, emitterCalls + 1}, UNCHANGED <<fired, stack, heard>>
  PROVE  EmitterInvariant'
<1>0. /\ events \in [Types -> Seq(Listener)] /\ emitterCalls \in Nat
      /\ g.once \in Nat
  BY DEF EmitterInvariant, ListsInvariant, Listener
<1>1. /\ events' \in [Types -> Seq(Listener)]
      /\ \A u \in Types : u # t => events'[u] = events[u]
      /\ DOMAIN events'[t] = DOMAIN events[t] \cup {Len(events[t]) + 1}
      /\ \A k \in DOMAIN events[t] : events'[t][k] = events[t][k]
      /\ Len(events[t]) + 1 \notin DOMAIN events[t]
      /\ events'[t][Len(events[t]) + 1] = g
  <2>1. PICK old : old = events[t]
    OBVIOUS
  <2>2. old \in Seq(Listener)
    BY <1>0, <2>1
  <2>3. PICK new : new = Append(old, g)
    OBVIOUS
  <2>4. /\ new \in Seq(Listener) /\ DOMAIN new = DOMAIN old \cup {Len(old) + 1}
        /\ \A k \in DOMAIN old : new[k] = old[k]
        /\ Len(old) + 1 \notin DOMAIN old /\ new[Len(old) + 1] = g
    BY <2>2, <2>3
  <2>5. events' = [events EXCEPT ![t] = new]
    BY <2>1, <2>3
  <2>6. events' \in [Types -> Seq(Listener)] /\ events'[t] = new /\ \A u \in Types : u # t => events'[u] = events[u]
    BY <1>0, <2>4, <2>5
  <2> QED BY <2>1, <2>4, <2>6
<1>2. ASSUME NEW u \in Types, NEW k \in DOMAIN events'[u]
      PROVE  \/ k \in DOMAIN events[u] /\ events'[u][k] = events[u][k]
             \/ u = t /\ k = Len(events[t]) + 1 /\ events'[u][k] = g
  BY <1>1, <1>2
<1>3. /\ \A u \in Types : \A k \in DOMAIN events[u] : events[u][k].once \in 0 .. emitterCalls
      /\ \A f \in DOMAIN stack : \A k \in DOMAIN stack[f].listeners :
           stack[f].listeners[k].once \in 0 .. emitterCalls
  <2>1. ASSUME NEW u \in Types, NEW k \in DOMAIN events[u] PROVE events[u][k].once \in 0 .. emitterCalls
    <3>1. events[u][k] \in Listener
      BY <1>0
    <3> QED BY <1>0, <3>1 DEF EmitterInvariant, ListsInvariant, Listener
  <2>2. ASSUME NEW f \in DOMAIN stack, NEW k \in DOMAIN stack[f].listeners
        PROVE stack[f].listeners[k].once \in 0 .. emitterCalls
    <3>1. stack[f] \in Frame
      BY DEF EmitterInvariant, ListsInvariant
    <3>2. stack[f].listeners \in Seq(Listener)
      BY <3>1 DEF Frame
    <3>3. stack[f].listeners[k] \in Listener
      BY <3>2
    <3> QED BY <1>0, <3>3 DEF EmitterInvariant, ListsInvariant, Listener
  <2> QED BY <2>1, <2>2
<1>4. ASSUME NEW u \in Types, NEW k \in DOMAIN events'[u] PROVE events'[u][k].once <= emitterCalls'
  BY <1>0, <1>2, <1>3, <1>4
<1>5. ASSUME NEW f \in DOMAIN stack, NEW k \in DOMAIN stack[f].listeners
      PROVE  stack[f].listeners[k].once <= emitterCalls'
  BY <1>0, <1>3, <1>5
<1>6. ASSUME NEW u \in Types, NEW v \in Types, NEW k \in DOMAIN events'[u], NEW j \in DOMAIN events'[v],
             events'[u][k].once = events'[v][j].once, events'[u][k].once # 0
      PROVE  u = v /\ k = j
  <2>1. CASE k \in DOMAIN events[u] /\ events'[u][k] = events[u][k]
             /\ j \in DOMAIN events[v] /\ events'[v][j] = events[v][j]
    BY <1>6, <2>1 DEF EmitterInvariant, ListsInvariant
  <2>2. CASE k \in DOMAIN events[u] /\ events'[u][k] = events[u][k] /\ events'[v][j] = g
    BY <1>0, <1>3, <1>6, <2>2
  <2>3. CASE j \in DOMAIN events[v] /\ events'[v][j] = events[v][j] /\ events'[u][k] = g
    BY <1>0, <1>3, <1>6, <2>3
  <2> QED BY <1>2, <2>1, <2>2, <2>3
<1>7. ASSUME NEW f \in DOMAIN stack, NEW u \in Types,
             NEW k \in DOMAIN stack[f].listeners, NEW j \in DOMAIN events'[u],
             stack[f].listeners[k].once = events'[u][j].once, events'[u][j].once # 0
      PROVE  u = stack[f].type /\ events'[u][j] = stack[f].listeners[k]
  <2>1. CASE j \in DOMAIN events[u] /\ events'[u][j] = events[u][j]
    BY <1>7, <2>1 DEF EmitterInvariant, ListsInvariant
  <2>2. CASE events'[u][j] = g
    BY <1>0, <1>3, <1>7, <2>2
  <2> QED BY <1>2, <2>1, <2>2
<1>8. ListsInvariant'
  <2>1. emitterCalls' \in Nat
    BY <1>0
  <2>2. stack' \in Seq(Frame)
    BY DEF EmitterInvariant, ListsInvariant
  <2>3. \A f \in DOMAIN stack' : \A k \in DOMAIN stack'[f].listeners :
          stack'[f].listeners[k].once <= emitterCalls'
    BY <1>5
  <2>4. \A f \in DOMAIN stack', u \in Types :
          \A k \in DOMAIN stack'[f].listeners, j \in DOMAIN events'[u] :
            stack'[f].listeners[k].once = events'[u][j].once /\ events'[u][j].once # 0
              => u = stack'[f].type /\ events'[u][j] = stack'[f].listeners[k]
    BY <1>7
  <2>5. \A u, v \in Types : \A k \in DOMAIN events'[u], j \in DOMAIN events'[v] :
          events'[u][k].once = events'[v][j].once /\ events'[u][k].once # 0 => u = v /\ k = j
    BY <1>6
  <2>6. \A u \in Types : \A k \in DOMAIN events'[u] : events'[u][k].once <= emitterCalls'
    BY <1>4
  <2> QED BY ONLY <1>1, <2>1, <2>2, <2>3, <2>4, <2>5, <2>6 DEF ListsInvariant
<1>9. ASSUME NEW u \in Types, NEW k \in DOMAIN events'[u] PROVE events'[u][k].once \notin fired
  <2>1. CASE k \in DOMAIN events[u] /\ events'[u][k] = events[u][k]
    BY <2>1 DEF EmitterInvariant, FiredInvariant
  <2>2. CASE events'[u][k] = g
    <3>1. fired \subseteq 1 .. emitterCalls
      BY DEF EmitterInvariant, FiredInvariant
    <3>2. 0 \notin 1 .. emitterCalls /\ emitterCalls + 1 \notin 1 .. emitterCalls
      BY <1>0
    <3> QED BY <2>2, <3>1, <3>2
  <2> QED BY <1>2, <2>1, <2>2
<1>10. FiredInvariant'
  <2>1. fired' \subseteq 1 .. emitterCalls'
    <3>1. fired \subseteq 1 .. emitterCalls
      BY DEF EmitterInvariant, FiredInvariant
    <3> QED BY <1>0, <3>1
  <2> QED BY <1>9, <2>1 DEF EmitterInvariant, FiredInvariant
<1> QED BY <1>8, <1>10 DEF EmitterInvariant

\* Where no wrapper fires and no listener is added, those on the lists have
\* not fired.
LEMMA FiredThin ==
  ASSUME FiredInvariant, emitterCalls \in Nat, emitterCalls' \in Nat, emitterCalls <= emitterCalls',
         UNCHANGED <<fired, heard>>,
         \A t \in Types : \E lost : Thins(events'[t], events[t], lost)
  PROVE  FiredInvariant'
<1>1. ASSUME NEW t \in Types, NEW k \in DOMAIN events'[t] PROVE events'[t][k].once \notin fired
  <2>1. PICK lost : Thins(events'[t], events[t], lost)
    OBVIOUS
  <2>2. PICK j \in DOMAIN events[t] : events'[t][k] = events[t][j]
    BY <1>1, <2>1, ThinsType
  <2> QED BY <2>2 DEF FiredInvariant
<1>2. fired' \subseteq 1 .. emitterCalls'
  BY DEF FiredInvariant
<1> QED BY <1>1, <1>2 DEF FiredInvariant

\* Frames of the stack that the steps leave alone or change a mark of.
FramesFrom ==
  \A f \in DOMAIN stack' :
    \/ \E h \in DOMAIN stack : stack'[f].type = stack[h].type
                                /\ stack'[f].listeners = stack[h].listeners
    \/ stack'[f].type \in Types /\ stack'[f].listeners = events[stack'[f].type]

\* The marks that steps change in a frame.
LEMMA MarkedFrame ==
  ASSUME NEW r \in Frame
  PROVE  \A a \in {[r EXCEPT !.inside = TRUE], [r EXCEPT !.i = @ + 1],
                    [r EXCEPT !.inside = FALSE, !.i = @ + 1]} :
           a \in Frame /\ a.type = r.type /\ a.listeners = r.listeners
<1>1. r.i \in Nat \ {0} /\ r.i + 1 \in Nat \ {0} /\ r.type \in Types
      /\ r.listeners \in Seq(Listener) /\ r.inside \in BOOLEAN
  BY DEF Frame
<1>2. PICK n : n = r.i + 1
  OBVIOUS
<1>3. \A a \in {[r EXCEPT !.inside = TRUE], [r EXCEPT !.i = n],
                    [r EXCEPT !.inside = FALSE, !.i = n]} :
           a \in Frame /\ a.type = r.type /\ a.listeners = r.listeners
  BY <1>1, <1>2 DEF Frame
<1> QED BY <1>2, <1>3

\* One frame is marked.
LEMMA OneFrame ==
  ASSUME stack \in Seq(Frame), NEW top \in DOMAIN stack, NEW new \in Frame,
         new.type = stack[top].type, new.listeners = stack[top].listeners,
         stack' = [stack EXCEPT ![top] = new]
  PROVE  stack' \in Seq(Frame) /\ FramesFrom
<1>1. /\ stack' \in Seq(Frame) /\ DOMAIN stack' = DOMAIN stack
      /\ \A f \in DOMAIN stack : stack'[f] = IF f = top THEN new ELSE stack[f]
  OBVIOUS
<1> QED BY <1>1 DEF FramesFrom

\* Every step but those of addListener and once, and but the firing of a wrapper.
LEMMA KeepsBoth ==
  ASSUME EmitterInvariant, emitterCalls' \in Nat, emitterCalls <= emitterCalls',
         events' \in [Types -> Seq(Listener)],
         \A t \in Types : \E lost : Thins(events'[t], events[t], lost),
         stack' \in Seq(Frame), FramesFrom, UNCHANGED <<fired, heard>>
  PROVE  EmitterInvariant'
<1>1. ListsInvariant'
  BY ListsThin DEF EmitterInvariant, FramesFrom
<1>2. FiredInvariant'
  BY FiredThin DEF EmitterInvariant, ListsInvariant
<1> QED BY <1>1, <1>2 DEF EmitterInvariant

\* The stack stays.
LEMMA SameFrames == ASSUME stack \in Seq(Frame), stack' = stack PROVE stack' \in Seq(Frame) /\ FramesFrom
BY DEF FramesFrom

\* The next listener of an emit, which may be a wrapper that fires: the wrapper
\* is on one list at most, that of the event, from which it is removed.
LEMMA EmitterCallListener == ASSUME EmitterInvariant, Emitter!CallListener PROVE EmitterInvariant'
<1>1. PICK top : top = Len(stack)
  OBVIOUS
<1>2. stack \in Seq(Frame) /\ top \in DOMAIN stack /\ stack[top] \in Frame
  BY <1>1 DEF Emitter!CallListener, EmitterInvariant, ListsInvariant
<1>3. PICK t, i0, list : t = stack[top].type /\ i0 = stack[top].i /\ list = stack[top].listeners
  OBVIOUS
<1>4. t \in Types /\ i0 \in Nat \ {0} /\ list \in Seq(Listener)
  BY <1>2, <1>3 DEF Frame
<1>5. i0 <= Len(list) /\ i0 \in DOMAIN list
  BY <1>1, <1>3, <1>4 DEF Emitter!CallListener, Emitter!Last
<1>6. PICK g : g = list[i0]
  OBVIOUS
<1>7. g \in Listener
  BY <1>4, <1>5, <1>6
<1>8. PICK ks : ks = {k \in DOMAIN events[t] : events[t][k] = g}
  OBVIOUS
<1>9. PICK new : new = Emitter!WithoutAt(events[t], ks)
  OBVIOUS
<1>10. /\ events' = IF g.once = 0 THEN events ELSE [events EXCEPT ![t] = new]
       /\ fired' = IF Emitter!FiresNow(g) THEN fired \cup {g.once} ELSE fired
       /\ heard' = IF Emitter!FiresNow(g) THEN Append(heard, g.once) ELSE heard
       /\ stack' = IF g.once = 0 \/ Emitter!FiresNow(g)
                     THEN [stack EXCEPT ![top].inside = TRUE]
                     ELSE [stack EXCEPT ![top].i = @ + 1]
       /\ emitterCalls' = emitterCalls
  <2>1. events' = IF g.once = 0 THEN events
                  ELSE [events EXCEPT ![t] = Emitter!WithoutAt(@, {k \in DOMAIN @ : @[k] = g})]
    BY <1>1, <1>3, <1>6 DEF Emitter!CallListener, Emitter!Plain
  <2>2. events' = IF g.once = 0 THEN events ELSE [events EXCEPT ![t] = new]
    BY <1>8, <1>9, <2>1
  <2> QED BY <1>1, <1>3, <1>6, <2>2 DEF Emitter!CallListener, Emitter!Plain
<1>11. stack' \in Seq(Frame) /\ FramesFrom
  <2>1. PICK a : a = [stack[top] EXCEPT !.inside = TRUE]
    OBVIOUS
  <2>2. PICK b : b = [stack[top] EXCEPT !.i = @ + 1]
    OBVIOUS
  <2>3. /\ a \in Frame /\ a.type = stack[top].type /\ a.listeners = stack[top].listeners
        /\ b \in Frame /\ b.type = stack[top].type /\ b.listeners = stack[top].listeners
    BY <1>2, <2>1, <2>2, MarkedFrame
  <2>4. stack' = [stack EXCEPT ![top] = a] \/ stack' = [stack EXCEPT ![top] = b]
    BY <1>2, <1>10, <2>1, <2>2
  <2> QED BY <1>2, <2>3, <2>4, OneFrame
<1>12. /\ new \in Seq(Listener)
       /\ \E lost \in SUBSET ks : (ks # {} => lost # {}) /\ Thins(new, events[t], lost)
  <2>1. events[t] \in Seq(Listener) /\ ks \in SUBSET DOMAIN events[t]
    BY <1>4, <1>8 DEF EmitterInvariant, ListsInvariant
  <2>2. PICK old : old = events[t]
    OBVIOUS
  <2> QED BY <1>9, <2>1, <2>2, WithoutAtThins
<1>13. PICK lost \in SUBSET ks : (ks # {} => lost # {}) /\ Thins(new, events[t], lost)
  BY <1>12
<1>14. /\ events' \in [Types -> Seq(Listener)]
       /\ \A u \in Types : \E gone : Thins(events'[u], events[u], gone)
  <2>1. CASE g.once = 0
    BY <1>10, <2>1, AllThin DEF EmitterInvariant
  <2>2. CASE g.once # 0
    <3>1. events' = [events EXCEPT ![t] = new]
      BY <1>10, <2>2
    <3> QED BY <1>4, <1>12, <1>13, <3>1, OneThin DEF EmitterInvariant
  <2> QED BY <2>1, <2>2
<1>15. CASE ~Emitter!FiresNow(g)
  <2>1. emitterCalls' \in Nat /\ emitterCalls <= emitterCalls'
    BY <1>10 DEF EmitterInvariant, ListsInvariant
  <2> QED BY <1>10, <1>11, <1>14, <1>15, <2>1, KeepsBoth
<1>16. CASE Emitter!FiresNow(g)
  <2>1. g.once # 0 /\ g.once \notin fired /\ g.once \in Nat /\ emitterCalls \in Nat
    BY <1>7, <1>16 DEF Emitter!FiresNow, Emitter!Plain, Listener, EmitterInvariant, ListsInvariant
  <2>2. ListsInvariant'
    <3>1. emitterCalls' \in Nat /\ emitterCalls <= emitterCalls'
      BY <1>10, <2>1
    <3> QED BY <1>11, <1>14, <3>1, ListsThin DEF EmitterInvariant, FramesFrom
  <2>3. ASSUME NEW u \in Types, NEW k \in DOMAIN events'[u] PROVE events'[u][k].once \notin fired'
    <3>1. events'[t] = new /\ (u # t => events'[u] = events[u])
      BY <1>4, <1>10, <2>1 DEF EmitterInvariant, ListsInvariant
    <3>2. \E j \in DOMAIN events[u] : events'[u][k] = events[u][j] /\ (u = t => j \notin lost)
      <4>1. CASE u = t
        BY <1>13, <2>3, <3>1, <4>1, ThinsType
      <4>2. CASE u # t
        BY <2>3, <3>1, <4>2
      <4> QED BY <4>1, <4>2
    <3>3. PICK j \in DOMAIN events[u] : events'[u][k] = events[u][j] /\ (u = t => j \notin lost)
      BY <3>2
    <3>4. events[u][j].once \notin fired
      BY DEF EmitterInvariant, FiredInvariant
    <3>5. ASSUME events[u][j].once = g.once PROVE FALSE
      <4>1. stack[top].listeners[i0].once = events[u][j].once /\ events[u][j].once # 0
        BY <1>3, <1>6, <2>1, <3>5
      <4>2. u = stack[top].type /\ events[u][j] = stack[top].listeners[i0]
        BY <1>2, <1>3, <1>5, <4>1 DEF EmitterInvariant, ListsInvariant
      <4>3. u = t /\ j \in ks
        BY <1>3, <1>6, <1>8, <4>2
      <4>4. PICK l \in lost : l \in DOMAIN events[t] /\ events[t][l] = g
        BY <1>8, <1>13, <4>3
      <4>5. l = j
        <5>1. events[u][j].once = events[t][l].once /\ events[u][j].once # 0
          BY <2>1, <3>5, <4>4
        <5> QED BY <1>4, <4>4, <5>1 DEF EmitterInvariant, ListsInvariant
      <4> QED BY <3>3, <4>3, <4>4, <4>5
    <3> QED BY <1>10, <1>16, <3>3, <3>4, <3>5
  <2>4. g.once <= emitterCalls
    BY <1>2, <1>3, <1>5, <1>6 DEF EmitterInvariant, ListsInvariant
  <2>5. /\ heard' \in Seq(Nat) /\ heard' = Append(heard, g.once) /\ heard \in Seq(Nat)
        /\ DOMAIN heard' = DOMAIN heard \cup {Len(heard) + 1}
        /\ \A k \in DOMAIN heard : heard'[k] = heard[k]
        /\ heard'[Len(heard) + 1] = g.once
    BY <1>10, <1>16, <2>1 DEF EmitterInvariant, FiredInvariant
  <2>6. fired = {heard[k] : k \in DOMAIN heard} /\ fired \subseteq 1 .. emitterCalls
        /\ \A j, k \in DOMAIN heard : heard[j] = heard[k] => j = k
    BY DEF EmitterInvariant, FiredInvariant
  <2>7. fired' = {heard'[k] : k \in DOMAIN heard'}
    BY <1>10, <1>16, <2>5, <2>6
  <2>8. fired' \subseteq 1 .. emitterCalls'
    BY <1>10, <1>16, <2>1, <2>4, <2>6
  <2>9. ASSUME NEW j \in DOMAIN heard', NEW k \in DOMAIN heard', heard'[j] = heard'[k] PROVE j = k
    BY <2>1, <2>5, <2>6, <2>9
  <2>10. FiredInvariant'
    BY <2>3, <2>5, <2>7, <2>8, <2>9 DEF FiredInvariant
  <2> QED BY <2>2, <2>10 DEF EmitterInvariant
<1> QED BY <1>15, <1>16

\* Every step of the emitter keeps the invariant.
LEMMA EmitterStep == ASSUME EmitterInvariant, Emitter!Next \/ UNCHANGED eventVars PROVE EmitterInvariant'
<1>0. /\ emitterCalls \in Nat /\ emitterCalls + 1 \in Nat /\ emitterCalls <= emitterCalls + 1
      /\ emitterCalls <= emitterCalls
      /\ events \in [Types -> Seq(Listener)] /\ stack \in Seq(Frame) /\ ListsInvariant
  BY DEF EmitterInvariant, ListsInvariant
<1>1. ASSUME NEW t \in Types, NEW fn \in Functions, Emitter!On(t, fn) \/ Emitter!Once(t, fn)
      PROVE  EmitterInvariant'
  <2>1. PICK a : a = [fn |-> fn, once |-> 0]
    OBVIOUS
  <2>2. PICK b : b = [fn |-> fn, once |-> emitterCalls + 1]
    OBVIOUS
  <2>3. a \in Listener /\ b \in Listener /\ a.once \in {0, emitterCalls + 1} /\ b.once \in {0, emitterCalls + 1}
    BY <1>0, <2>1, <2>2 DEF Listener
  <2>4. /\ emitterCalls' = emitterCalls + 1 /\ UNCHANGED <<fired, stack, heard>>
        /\ \/ events' = [events EXCEPT ![t] = Append(@, a)]
           \/ events' = [events EXCEPT ![t] = Append(@, b)]
    BY <1>1, <2>1, <2>2 DEF Emitter!On, Emitter!Once, Emitter!Calls, Emitter!Plain
  <2> QED BY <2>3, <2>4, ListsGrow
<1>2. ASSUME NEW t \in Types, NEW fn \in Functions, Emitter!RemoveListener(t, fn) PROVE EmitterInvariant'
  <2>1. PICK old : old = events[t]
    OBVIOUS
  <2>2. PICK ks : ks = {k \in DOMAIN old : old[k].fn = fn}
    OBVIOUS
  <2>3. PICK new : new = Emitter!WithoutAt(old, ks)
    OBVIOUS
  <2>4. events' = [events EXCEPT ![t] = new] /\ emitterCalls' = emitterCalls + 1 /\ UNCHANGED <<fired, stack, heard>>
    BY <1>2, <2>1, <2>2, <2>3 DEF Emitter!RemoveListener, Emitter!Calls
  <2>5. old \in Seq(Listener) /\ ks \in SUBSET DOMAIN old
    BY <1>0, <2>1, <2>2
  <2>6. new \in Seq(Listener) /\ \E lost : Thins(new, old, lost)
    BY <2>3, <2>5, WithoutAtThins
  <2>7. /\ events' \in [Types -> Seq(Listener)]
        /\ \A u \in Types : \E gone : Thins(events'[u], events[u], gone)
    BY <1>0, <2>1, <2>4, <2>6, OneThin
  <2> QED BY <1>0, <2>4, <2>7, KeepsBoth, SameFrames
<1>3. ASSUME NEW t \in Types, Emitter!RemoveAllListeners(t) PROVE EmitterInvariant'
  <2>1. /\ events' = [events EXCEPT ![t] = <<>>] /\ emitterCalls' = emitterCalls + 1
        /\ UNCHANGED <<fired, stack, heard>>
    BY <1>3 DEF Emitter!RemoveAllListeners, Emitter!Calls
  <2>2. PICK new : new = <<>>
    OBVIOUS
  <2>3. new \in Seq(Listener) /\ Thins(new, events[t], {}) /\ events' = [events EXCEPT ![t] = new]
    BY <2>1, <2>2, ThinsEmpty
  <2>4. /\ events' \in [Types -> Seq(Listener)]
        /\ \A u \in Types : \E gone : Thins(events'[u], events[u], gone)
    BY <1>0, <2>3, OneThin
  <2> QED BY <1>0, <2>1, <2>4, KeepsBoth, SameFrames
<1>4. ASSUME NEW t \in Types, Emitter!Emit(t) PROVE EmitterInvariant'
  <2>1. emitterCalls' = emitterCalls + 1 /\ UNCHANGED <<events, fired, heard>>
    BY <1>4 DEF Emitter!Emit, Emitter!Calls
  <2>2. stack' \in Seq(Frame) /\ FramesFrom
    <3>1. PICK new : new = [type |-> t, listeners |-> events[t], i |-> 1, inside |-> FALSE]
      OBVIOUS
    <3>2. new \in Frame /\ new.type = t /\ new.listeners = events[t]
      BY <1>0, <3>1 DEF Frame
    <3>3. CASE stack' = Append(stack, new)
      <4>1. /\ stack' \in Seq(Frame) /\ DOMAIN stack' = DOMAIN stack \cup {Len(stack) + 1}
            /\ \A f \in DOMAIN stack : stack'[f] = stack[f]
            /\ stack'[Len(stack) + 1] = new
        BY <1>0, <3>2, <3>3
      <4> QED BY <3>2, <4>1 DEF FramesFrom
    <3>4. CASE stack' = <<>>
      BY <3>4 DEF FramesFrom
    <3>5. CASE stack' = stack
      BY <1>0, <3>5, SameFrames
    <3> QED BY <1>4, <3>1, <3>3, <3>4, <3>5 DEF Emitter!Emit
  <2> QED BY <1>0, <2>1, <2>2, KeepsBoth, AllThin
<1>5. CASE Emitter!ListenerReturns
  <2>1. UNCHANGED <<events, fired, emitterCalls, heard>>
    BY <1>5 DEF Emitter!ListenerReturns
  <2>2. PICK top : top = Len(stack)
    OBVIOUS
  <2>3. top \in DOMAIN stack /\ stack[top] \in Frame
    BY <1>0, <1>5, <2>2 DEF Emitter!ListenerReturns
  <2>4. PICK new : new = [stack[top] EXCEPT !.inside = FALSE, !.i = @ + 1]
    OBVIOUS
  <2>5. new \in Frame /\ new.type = stack[top].type /\ new.listeners = stack[top].listeners
    BY <2>3, <2>4, MarkedFrame
  <2>6. stack' = [stack EXCEPT ![top] = new]
    BY <1>0, <1>5, <2>2, <2>3, <2>4 DEF Emitter!ListenerReturns
  <2>7. stack' \in Seq(Frame) /\ FramesFrom
    BY <1>0, <2>3, <2>5, <2>6, OneFrame
  <2> QED BY <1>0, <2>1, <2>7, KeepsBoth, AllThin
<1>6. CASE Emitter!EmitReturns
  <2>1. UNCHANGED <<events, fired, emitterCalls, heard>> /\ stack' = SubSeq(stack, 1, Len(stack) - 1) /\ stack # <<>>
    BY <1>6 DEF Emitter!EmitReturns, Emitter!Front
  <2>2. stack' \in Seq(Frame) /\ DOMAIN stack' = 1 .. Len(stack) - 1 /\ \A f \in DOMAIN stack' : stack'[f] = stack[f]
    BY <1>0, <2>1
  <2>3. FramesFrom
    <3>1. DOMAIN stack' \subseteq DOMAIN stack
      BY <1>0, <2>2
    <3> QED BY <2>2, <3>1 DEF FramesFrom
  <2> QED BY <1>0, <2>1, <2>2, <2>3, KeepsBoth, AllThin
<1>7. CASE Emitter!Silent \/ UNCHANGED eventVars
  BY <1>0, <1>7, KeepsBoth, AllThin, SameFrames DEF Emitter!Silent, Emitter!vars, eventVars
<1>8. CASE Emitter!CallListener
  BY <1>8, EmitterCallListener
<1> QED BY <1>1, <1>2, <1>3, <1>4, <1>5, <1>6, <1>7, <1>8 DEF Emitter!Next, Emitter!Method

\* The invariant holds at first.
LEMMA EmitterStart == ASSUME Emitter!Init PROVE EmitterInvariant
BY DEF Emitter!Init, EmitterInvariant, ListsInvariant, FiredInvariant

\* It says that wrappers fire once.
LEMMA EmitterOnce == ASSUME EmitterInvariant PROVE Emitter!OnceIsOnce
BY DEF EmitterInvariant, FiredInvariant, Emitter!OnceIsOnce, Emitter!IsInjective

-----------------------------------------------------------------------------
(* The Japanese segmenter.                                                  *)

\* What FlattenSeq's recursive function satisfies, for the words r.
Flattens(r, f) == f = [k \in 1 .. Len(r) |-> IF k = 1 THEN r[k] ELSE f[k - 1] \o r[k]]
\* The words r make up s.
Joins(r, s) == IF r = <<>> THEN s = <<>> ELSE \E f : Flattens(r, f) /\ f[Len(r)] = s

\* One function does.
LEMMA FlattensOnce ==
  ASSUME NEW r, Len(r) \in Nat, NEW f, Flattens(r, f), NEW g, Flattens(r, g)
  PROVE  f = g
<1>1. PICK n \in Nat : n = Len(r)
  OBVIOUS
<1>2. /\ f = [k \in 1 .. n |-> IF k = 1 THEN r[k] ELSE f[k - 1] \o r[k]]
      /\ g = [k \in 1 .. n |-> IF k = 1 THEN r[k] ELSE g[k - 1] \o r[k]]
  BY <1>1 DEF Flattens
<1>3. PICK D : D = {k \in 1 .. n : f[k] # g[k]}
  OBVIOUS
<1>4. CASE D = {}
  <2>1. \A k \in 1 .. n : f[k] = g[k]
    BY <1>3, <1>4
  <2>2. DOMAIN f = 1 .. n /\ DOMAIN g = 1 .. n
    BY ONLY <1>2
  <2>3. f = [k \in 1 .. n |-> f[k]] /\ g = [k \in 1 .. n |-> g[k]]
    <3>1. f = [k \in DOMAIN f |-> f[k]] /\ g = [k \in DOMAIN g |-> g[k]]
      BY ONLY <1>2
    <3> QED BY <2>2, <3>1
  <2> QED BY ONLY <2>1, <2>3
<1>5. CASE D # {}
  <2>1. D \in SUBSET Nat
    BY <1>3
  <2>2. PICK m \in D : \A j \in D : m <= j
    BY <1>5, <2>1, NatLeast
  <2>3. m \in 1 .. n /\ f[m] # g[m]
    BY <1>3
  <2>4. m # 1
    BY <1>2, <2>3
  <2>5. m - 1 \in 1 .. n /\ m - 1 \notin D
    BY <1>1, <2>2, <2>3, <2>4
  <2>6. f[m - 1] = g[m - 1]
    BY <1>3, <2>5
  <2>7. f[m] = f[m - 1] \o r[m] /\ g[m] = g[m - 1] \o r[m]
    BY ONLY <1>2, <2>3, <2>4
  <2> QED BY <2>3, <2>6, <2>7
<1> QED BY <1>4, <1>5

\* FlattenSeq is that function's last value.
LEMMA JoinsFlattens ==
  ASSUME NEW S, NEW r \in Seq(S), NEW s, Joins(r, s)
  PROVE  Tiny!FlattenSeq(r) = s
<1>0. Len(r) \in Nat
  OBVIOUS
<1>1. CASE r = <<>>
  BY <1>1 DEF Joins, Tiny!FlattenSeq
<1>2. CASE r # <<>>
  <2>1. PICK f : Flattens(r, f) /\ f[Len(r)] = s
    BY <1>2 DEF Joins
  <2>2. PICK g : g = CHOOSE h : h = [k \in 1 .. Len(r) |-> IF k = 1 THEN r[k] ELSE h[k - 1] \o r[k]]
    OBVIOUS
  <2>3. Flattens(r, g)
    BY ONLY <2>1, <2>2 DEF Flattens
  <2>4. f = g
    BY <1>0, <2>1, <2>3, FlattensOnce
  <2>5. Len(r) # 0
    BY <1>2
  <2>6. Tiny!FlattenSeq(r) = g[Len(r)]
    BY ONLY <2>2, <2>5 DEF Tiny!FlattenSeq
  <2> QED BY <2>1, <2>4, <2>6
<1> QED BY <1>1, <1>2

\* One more word.
LEMMA JoinsAppend ==
  ASSUME NEW S, NEW r \in Seq(Seq(S)), NEW s, Joins(r, s), NEW w \in Seq(S)
  PROVE  Joins(Append(r, w), s \o w)
<1>1. PICK n, t : n = Len(r) /\ t = Append(r, w)
  OBVIOUS
<1>2. n \in Nat /\ Len(t) = n + 1 /\ t[n + 1] = w /\ \A k \in 1 .. n : t[k] = r[k]
  BY <1>1
<1>3. t # <<>>
  BY <1>1, <1>2
<1>4. CASE r = <<>>
  <2>1. n = 0 /\ s \o w = w
    BY <1>1, <1>4 DEF Joins
  <2>2. PICK g : g = [k \in 1 .. Len(t) |-> w]
    OBVIOUS
  <2>3. 1 .. Len(t) = {1} /\ t[1] = w
    BY <1>2, <2>1
  <2>4. Flattens(t, g)
    BY <2>2, <2>3 DEF Flattens
  <2>5. g[Len(t)] = s \o w
    BY <1>2, <2>1, <2>2
  <2> QED BY <1>1, <1>3, <2>4, <2>5 DEF Joins
<1>5. CASE r # <<>>
  <2>1. PICK f : Flattens(r, f) /\ f[n] = s
    BY <1>1, <1>5 DEF Joins
  <2>2. PICK g : g = [k \in 1 .. Len(t) |-> IF k <= n THEN f[k] ELSE s \o w]
    OBVIOUS
  <2>3. n # 0
    BY <1>1, <1>5
  <2>4. ASSUME NEW k \in 1 .. Len(t) PROVE g[k] = IF k = 1 THEN t[k] ELSE g[k - 1] \o t[k]
    <3>1. CASE k = 1
      BY <1>1, <1>2, <2>1, <2>2, <2>3, <3>1 DEF Flattens
    <3>2. CASE k # 1 /\ k <= n
      <4>1. k \in 1 .. n /\ k - 1 \in 1 .. Len(t) /\ k - 1 <= n
        BY <1>2, <3>2
      <4>2. f[k] = f[k - 1] \o r[k]
        BY <1>1, <2>1, <3>2, <4>1 DEF Flattens
      <4>3. g[k] = f[k] /\ g[k - 1] = f[k - 1] /\ t[k] = r[k]
        BY <1>2, <2>2, <3>2, <4>1
      <4> QED BY <3>2, <4>2, <4>3
    <3>3. CASE k # 1 /\ ~(k <= n)
      <4>1. k = n + 1 /\ k - 1 = n /\ n \in 1 .. Len(t)
        BY <1>2, <2>3, <3>3
      <4>2. g[k] = s \o w /\ g[n] = s /\ t[k] = w
        BY <1>2, <2>1, <2>2, <3>3, <4>1
      <4> QED BY <3>3, <4>1, <4>2
    <3> QED BY <3>1, <3>2, <3>3
  <2>5. Flattens(t, g)
    <3>1. g = [k \in 1 .. Len(t) |-> g[k]]
      BY <2>2
    <3> QED BY <2>4, <3>1 DEF Flattens
  <2>6. g[Len(t)] = s \o w
    BY <1>2, <2>2
  <2> QED BY <1>1, <1>3, <2>5, <2>6 DEF Joins
<1> QED BY <1>4, <1>5

\* The words so far, and the one in work, make up what was read.
TinyInvariant ==
  /\ input \in Seq(STRING) /\ tinyPc \in {"start", "scan", "returned"}
  /\ result \in Seq(Seq(STRING)) /\ \A k \in DOMAIN result : result[k] # <<>>
  /\ tinyPc = "start" => result = <<>>
  /\ tinyPc = "scan" =>
       /\ at \in 4 .. Len(input) + 3 /\ word \in Seq(STRING) /\ word # <<>>
       /\ \E s \in Seq(STRING) : Joins(result, s) /\ s \o word = SubSeq(input, 1, at - 3)
  /\ tinyPc = "returned" => Joins(result, input)

\* The padding of three on each side, and where the input is in it.
LEMMA PaddedInput ==
  ASSUME input \in Seq(STRING)
  PROVE  /\ Len(Tiny!Padded(input)) = Len(input) + 6
         /\ \A k \in 3 .. Len(input) + 2 : Tiny!seg(k) = input[k - 2]
<1>1. PICK T : T = STRING \cup {"B3", "B2", "B1", "E1", "E2", "E3"}
  OBVIOUS
<1>2. PICK a, b : a = <<"B3", "B2", "B1">> /\ b = <<"E1", "E2", "E3">>
  OBVIOUS
<1>3. a \in Seq(T) /\ b \in Seq(T) /\ Len(a) = 3 /\ Len(b) = 3
  BY <1>1, <1>2
<1>4. input \in Seq(T)
  BY <1>1, SeqMonotonic
<1>5. PICK c : c = a \o input
  OBVIOUS
<1>6. /\ c \in Seq(T) /\ Len(c) = Len(a) + Len(input)
      /\ \A k \in 1 .. Len(input) : c[Len(a) + k] = input[k]
  <2>1. a \in Seq(T) /\ input \in Seq(T)
    BY <1>3, <1>4
  <2>2. c \in Seq(T) /\ Len(c) = Len(a) + Len(input)
    BY ONLY <1>5, <2>1, Concatenation
  <2>3. \A k \in 1 .. Len(input) : c[Len(a) + k] = input[k]
    BY ONLY <1>5, <2>1, Concatenation
  <2> QED BY ONLY <2>2, <2>3
<1>7. PICK d : d = c \o b
  OBVIOUS
<1>8. Len(d) = Len(c) + Len(b) /\ \A k \in 1 .. Len(c) : d[k] = c[k]
  <2>1. c \in Seq(T) /\ b \in Seq(T)
    BY <1>3, <1>6
  <2>2. Len(d) = Len(c) + Len(b)
    BY ONLY <1>7, <2>1, Concatenation
  <2>3. \A k \in 1 .. Len(c) : d[k] = c[k]
    BY ONLY <1>7, <2>1, Concatenation
  <2> QED BY ONLY <2>2, <2>3
<1>9. d = Tiny!Padded(input) /\ Len(input) \in Nat
  BY <1>2, <1>5, <1>7 DEF Tiny!Padded
<1>10. ASSUME NEW k \in 3 .. Len(input) + 2 PROVE Tiny!seg(k) = input[k - 2]
  <2>1. PICK x, y : x = k + 1 /\ y = k - 2
    OBVIOUS
  <2>2. x \in 1 .. Len(c) /\ y \in 1 .. Len(input) /\ x = Len(a) + y
    BY <1>3, <1>6, <1>9, <2>1
  <2>3. d[x] = input[y]
    BY <1>6, <1>8, <2>2
  <2> QED BY <1>9, <2>1, <2>3 DEF Tiny!seg
<1> QED BY <1>3, <1>6, <1>8, <1>9, <1>10

\* Every step of the segmenter keeps the invariant.
LEMMA TinyStep == ASSUME TinyInvariant, Tiny!Next \/ UNCHANGED tinyVars PROVE TinyInvariant'
<1>0. /\ input \in Seq(STRING) /\ Len(input) \in Nat
      /\ Len(Tiny!Padded(input)) = Len(input) + 6
      /\ \A k \in 3 .. Len(input) + 2 : Tiny!seg(k) = input[k - 2]
  BY PaddedInput DEF TinyInvariant
<1>1. CASE Tiny!Start
  <2>0. UNCHANGED <<input, result>> /\ result = <<>>
    BY <1>1 DEF Tiny!Start, TinyInvariant
  <2>1. CASE input = <<>>
    <3>1. tinyPc' = "returned" /\ Joins(result, input)
      BY <1>1, <2>0, <2>1 DEF Tiny!Start, Joins
    <3> QED BY <2>0, <3>1 DEF TinyInvariant, Joins
  <2>2. CASE input # <<>>
    <3>1. tinyPc' = "scan" /\ word' = <<Tiny!seg(3)>> /\ at' = 4
      BY <1>1, <2>2 DEF Tiny!Start, Tiny!Padding
    <3>2. Len(input) >= 1 /\ Tiny!seg(3) = input[1] /\ input[1] \in STRING
      <4>1. Len(input) >= 1 /\ 3 \in 3 .. Len(input) + 2 /\ 3 - 2 = 1
        BY <1>0, <2>2
      <4> QED BY <1>0, <4>1
    <3>3. at' \in 4 .. Len(input) + 3 /\ word' \in Seq(STRING) /\ word' # <<>> /\ at' - 3 = 1
      BY <3>1, <3>2, <1>0
    <3>4. <<>> \o word' = SubSeq(input, 1, at' - 3)
      <4>1. SubSeq(input, 1, 1) = <<input[1]>>
        <5>1. PICK u : u = SubSeq(input, 1, 1)
          OBVIOUS
        <5>2. Len(u) = 1 /\ u[1] = input[1] /\ u \in Seq(STRING)
          BY <1>0, <3>2, <5>1
        <5>3. u = <<u[1]>>
          BY ONLY <5>2, OnlyOne
        <5> QED BY <5>1, <5>2, <5>3
      <4>2. <<>> \o word' = word'
        BY <3>3
      <4> QED BY <3>1, <3>2, <3>3, <4>1, <4>2
    <3>5. \E s \in Seq(STRING) : Joins(result', s) /\ s \o word' = SubSeq(input', 1, at' - 3)
      <4>1. PICK s : s = <<>>
        OBVIOUS
      <4>2. s \in Seq(STRING) /\ Joins(result', s) /\ s \o word' = SubSeq(input', 1, at' - 3)
        BY <2>0, <3>4, <4>1 DEF Joins
      <4> QED BY <4>2
    <3> QED BY <2>0, <3>1, <3>3, <3>5 DEF TinyInvariant
  <2> QED BY <2>1, <2>2
<1>2. ASSUME tinyPc = "scan", NEW s \in Seq(STRING), Joins(result, s), s \o word = SubSeq(input, 1, at - 3)
      PROVE  /\ Joins(Append(result, word), s \o word)
             /\ Append(result, word) \in Seq(Seq(STRING))
             /\ \A k \in DOMAIN Append(result, word) : Append(result, word)[k] # <<>>
  <2>1. word \in Seq(STRING) /\ word # <<>> /\ result \in Seq(Seq(STRING)) /\ \A k \in DOMAIN result : result[k] # <<>>
    BY <1>2 DEF TinyInvariant
  <2>2. Joins(Append(result, word), s \o word)
    BY <1>2, <2>1, JoinsAppend
  <2>3. PICK new : new = Append(result, word)
    OBVIOUS
  <2>4. PICK W : W = Seq(STRING)
    OBVIOUS
  <2>7. PICK n : n = Len(result) + 1
    OBVIOUS
  <2>5. /\ new \in Seq(W) /\ DOMAIN new = DOMAIN result \cup {n}
        /\ \A k \in DOMAIN result : new[k] = result[k]
        /\ new[n] = word
    BY <2>1, <2>3, <2>4, <2>7
  <2>6. ASSUME NEW k \in DOMAIN new PROVE new[k] # <<>>
    <3>1. CASE k \in DOMAIN result
      BY <2>1, <2>5, <3>1
    <3>2. CASE k = n
      BY <2>1, <2>5, <3>2
    <3> QED BY <2>5, <3>1, <3>2
  <2> QED BY <2>2, <2>3, <2>4, <2>5, <2>6
<1>3. CASE Tiny!Scan
  <2>1. tinyPc = "scan" /\ at < Len(input) + 3 /\ at' = at + 1 /\ UNCHANGED <<input, tinyPc>>
    BY <1>0, <1>3 DEF Tiny!Scan
  <2>2. at \in 4 .. Len(input) + 3 /\ word \in Seq(STRING) /\ word # <<>>
    BY <2>1 DEF TinyInvariant
  <2>3. PICK s \in Seq(STRING) : Joins(result, s) /\ s \o word = SubSeq(input, 1, at - 3)
    BY <2>1 DEF TinyInvariant
  <2>4. PICK c \in STRING : c = Tiny!seg(at) /\ c = input[at - 2]
    <3>1. at \in 3 .. Len(input) + 2 /\ at - 2 \in 1 .. Len(input)
      BY <1>0, <2>1, <2>2
    <3>2. input[at - 2] \in STRING
      BY <1>0, <3>1, ElementOfSeq
    <3>3. Tiny!seg(at) = input[at - 2]
      BY <1>0, <3>1
    <3> QED BY <3>2, <3>3
  <2>5. \/ result' = Append(result, word) /\ word' = <<>> \o <<c>>
        \/ result' = result /\ word' = word \o <<c>>
    BY <1>3, <2>4 DEF Tiny!Scan
  <2>6. SubSeq(input, 1, at - 3) \o <<c>> = SubSeq(input, 1, at - 2)
    <3>1. PICK m : m = at - 3
      OBVIOUS
    <3>2. m \in 0 .. Len(input) /\ m + 1 \in 1 .. Len(input) /\ m + 1 = at - 2
      BY <1>0, <2>1, <2>2, <3>1
    <3>3. SubSeq(input, 1, m) \o <<input[m + 1]>> = SubSeq(input, 1, m + 1)
      <4>1. m \in Nat /\ m < Len(input)
        BY <1>0, <3>2
      <4> QED BY <1>0, <4>1, LongerPrefix
    <3> QED BY <2>4, <3>1, <3>2, <3>3
  <2>10. PICK one : one = <<c>>
    OBVIOUS
  <2>11. one \in Seq(STRING) /\ one # <<>> /\ Len(one) = 1
    BY <2>4, <2>10, Singleton
  <2>7. at' \in 4 .. Len(input') + 3 /\ at' - 3 = at - 2
    BY <1>0, <2>1, <2>2
  <2>8. CASE result' = Append(result, word) /\ word' = <<>> \o <<c>>
    <3>1. word' = <<c>> /\ word' \in Seq(STRING) /\ word' # <<>>
      <4>1. <<>> \o one = one
        BY <2>11, ConcatEmptySeq
      <4> QED BY <2>8, <2>10, <2>11, <4>1
    <3>2. Joins(result', s \o word) /\ s \o word \in Seq(STRING) /\ result' \in Seq(Seq(STRING))
          /\ \A k \in DOMAIN result' : result'[k] # <<>>
      <4>1. s \o word \in Seq(STRING)
        BY <2>2, ConcatProperties
      <4>2. PICK new : new = Append(result, word)
        OBVIOUS
      <4>3. Joins(new, s \o word) /\ new \in Seq(Seq(STRING)) /\ \A k \in DOMAIN new : new[k] # <<>>
        BY <1>2, <2>1, <2>3, <4>2
      <4> QED BY <2>8, <4>1, <4>2, <4>3
    <3>3. (s \o word) \o word' = SubSeq(input', 1, at' - 3)
      BY <2>1, <2>3, <2>6, <2>7, <3>1
    <3> QED BY <1>0, <2>1, <2>7, <3>1, <3>2, <3>3 DEF TinyInvariant
  <2>9. CASE result' = result /\ word' = word \o <<c>>
    <3>1. word' \in Seq(STRING) /\ word' # <<>>
      <4>1. PICK longer : longer = word \o one
        OBVIOUS
      <4>2. longer \in Seq(STRING) /\ Len(longer) = Len(word) + Len(one)
        <5>1. word \in Seq(STRING) /\ one \in Seq(STRING)
          BY <2>2, <2>11
        <5>2. longer \in Seq(STRING)
          BY ONLY <4>1, <5>1, Concatenation
        <5>3. Len(longer) = Len(word) + Len(one)
          BY ONLY <4>1, <5>1, Concatenation
        <5> QED BY <5>2, <5>3
      <4>3. longer # <<>>
        BY <2>2, <2>11, <4>2
      <4> QED BY <2>9, <2>10, <4>1, <4>2, <4>3
    <3>2. s \o word' = (s \o word) \o <<c>>
      <4>1. (s \o word) \o one = s \o (word \o one)
        BY <2>2, <2>11, ConcatAssociative
      <4> QED BY <2>9, <2>10, <4>1
    <3>3. s \o word' = SubSeq(input', 1, at' - 3)
      BY <2>1, <2>3, <2>6, <2>7, <3>2
    <3> QED BY <1>0, <2>1, <2>3, <2>7, <2>9, <3>1, <3>3 DEF TinyInvariant
  <2> QED BY <2>5, <2>8, <2>9
<1>4. CASE Tiny!Return
  <2>1. tinyPc = "scan" /\ at >= Len(input) + 3 /\ tinyPc' = "returned" /\ UNCHANGED input
        /\ result' = Append(result, word)
    BY <1>0, <1>4 DEF Tiny!Return
  <2>2. PICK s \in Seq(STRING) : Joins(result, s) /\ s \o word = SubSeq(input, 1, at - 3)
    BY <2>1 DEF TinyInvariant
  <2>3. at - 3 = Len(input)
    BY <1>0, <2>1 DEF TinyInvariant
  <2>4. s \o word = input
    BY <1>0, <2>2, <2>3
  <2> QED BY <1>0, <1>2, <2>1, <2>2, <2>4 DEF TinyInvariant
<1>5. CASE Tiny!Finished \/ UNCHANGED tinyVars
  BY <1>5 DEF Tiny!Finished, Tiny!vars, tinyVars, TinyInvariant, Joins, Flattens
<1> QED BY <1>1, <1>3, <1>4, <1>5 DEF Tiny!Next

\* The invariant holds at first.
LEMMA TinyStart == ASSUME SiteAssumption, Tiny!Init PROVE TinyInvariant
BY DEF SiteAssumption, Tiny!Init, TinyInvariant

\* It says that the words make up the input.
LEMMA TinyJoins == ASSUME TinyInvariant PROVE Tiny!WordsJoinToInput
<1>1. CASE tinyPc = "returned"
  <2>1. Joins(result, input) /\ result \in Seq(Seq(STRING))
    BY <1>1 DEF TinyInvariant
  <2>2. Tiny!FlattenSeq(result) = input
    BY <2>1, JoinsFlattens
  <2> QED BY <2>2 DEF TinyInvariant, Tiny!WordsJoinToInput
<1> QED BY <1>1 DEF Tiny!WordsJoinToInput

-----------------------------------------------------------------------------
(* The Thai segmenter: acceptors, the path, and the ranges made of it.      *)

\* What Those's recursive function satisfies.
Picks(s, T, f, n) ==
  f = [k \in 0 .. n |-> IF k = 0 THEN <<>>
                        ELSE IF s[k] \in T THEN Append(f[k - 1], s[k]) ELSE f[k - 1]]

\* Such a function ends with elements of both.
LEMMA PicksElements ==
  ASSUME NEW S, NEW s \in Seq(S), NEW T, NEW f, Picks(s, T, f, Len(s))
  PROVE  f[Len(s)] \in Seq(S \cap T)
<1>1. PICK n \in Nat : n = Len(s)
  OBVIOUS
<1>2. PICK X : X = S \cap T
  OBVIOUS
<1>3. PICK D : D = {k \in 0 .. n : f[k] \notin Seq(X)}
  OBVIOUS
<1>4. SUFFICES ASSUME D # {} PROVE FALSE
  BY <1>1, <1>2, <1>3
<1>5. D \in SUBSET Nat
  BY <1>3
<1>6. PICK m \in D : \A j \in D : m <= j
  BY <1>4, <1>5, NatLeast
<1>7. m \in 0 .. n /\ f[m] \notin Seq(X)
  BY <1>3
<1>8. f[m] = IF m = 0 THEN <<>> ELSE IF s[m] \in T THEN Append(f[m - 1], s[m]) ELSE f[m - 1]
  BY ONLY Picks(s, T, f, Len(s)), <1>1, <1>7 DEF Picks
<1>9. m # 0
  <2>1. <<>> \in Seq(X)
    OBVIOUS
  <2> QED BY <1>7, <1>8, <2>1
<1>10. m - 1 \in 0 .. n /\ m - 1 \notin D
  BY <1>1, <1>6, <1>7, <1>9
<1>11. f[m - 1] \in Seq(X)
  BY <1>3, <1>10
<1>12. s[m] \in S
  BY <1>1, <1>7, <1>9
<1>13. CASE s[m] \in T
  <2>1. s[m] \in X
    BY <1>2, <1>12, <1>13
  <2>2. Append(f[m - 1], s[m]) \in Seq(X)
    BY <1>11, <2>1, AppendProperties
  <2> QED BY <1>7, <1>8, <1>9, <1>13, <2>2
<1>14. CASE s[m] \notin T
  BY <1>7, <1>8, <1>9, <1>11, <1>14
<1> QED BY <1>13, <1>14

\* There is one.
LEMMA PicksExist ==
  ASSUME NEW s, NEW T, NEW n \in Nat
  PROVE  \E f : Picks(s, T, f, n)
<1>1. PICK D : D = {k \in 0 .. n : \A f : ~Picks(s, T, f, k)}
  OBVIOUS
<1>2. SUFFICES ASSUME D # {} PROVE FALSE
  <2>1. n \in 0 .. n
    OBVIOUS
  <2> QED BY <1>1, <2>1
<1>3. D \in SUBSET Nat
  BY <1>1
<1>4. PICK m \in D : \A j \in D : m <= j
  BY <1>2, <1>3, NatLeast
<1>5. m \in 0 .. n /\ \A f : ~Picks(s, T, f, m)
  BY <1>1
<1>6. CASE m = 0
  <2>1. PICK f : f = [k \in 0 .. 0 |-> <<>>]
    OBVIOUS
  <2>2. Picks(s, T, f, 0)
    BY <2>1 DEF Picks
  <2> QED BY <1>5, <1>6, <2>2
<1>7. CASE m # 0
  <2>1. PICK l : l = m - 1
    OBVIOUS
  <2>2. l \in 0 .. n /\ l \notin D /\ l \in Nat /\ m = l + 1
    BY <1>4, <1>5, <1>7, <2>1
  <2>3. PICK f : Picks(s, T, f, l)
    BY <1>1, <2>2
  <2>4. PICK x : x = IF s[m] \in T THEN Append(f[l], s[m]) ELSE f[l]
    OBVIOUS
  <2>5. PICK g : g = [k \in 0 .. m |-> IF k = m THEN x ELSE f[k]]
    OBVIOUS
  <2>6. ASSUME NEW k \in 0 .. m
        PROVE  g[k] = IF k = 0 THEN <<>> ELSE IF s[k] \in T THEN Append(g[k - 1], s[k]) ELSE g[k - 1]
    <3>1. CASE k = m
      <4>1. g[k] = x /\ g[k - 1] = f[l] /\ k # 0
        BY <1>7, <2>2, <2>5, <3>1
      <4> QED BY <2>4, <3>1, <4>1
    <3>2. CASE k # m
      <4>1. k \in 0 .. l /\ g[k] = f[k] /\ (k # 0 => g[k - 1] = f[k - 1])
        BY <1>7, <2>2, <2>5, <3>2
      <4>2. f[k] = IF k = 0 THEN <<>> ELSE IF s[k] \in T THEN Append(f[k - 1], s[k]) ELSE f[k - 1]
        BY ONLY <2>3, <4>1 DEF Picks
      <4> QED BY <4>1, <4>2
    <3> QED BY <3>1, <3>2
  <2>7. g = [k \in 0 .. m |-> g[k]]
    BY <2>5
  <2>8. Picks(s, T, g, m)
    BY <2>6, <2>7 DEF Picks
  <2> QED BY <1>5, <2>8
<1> QED BY <1>6, <1>7

\* Some of the elements of a sequence.
LEMMA ThoseElements ==
  ASSUME NEW S, NEW s \in Seq(S), NEW T
  PROVE  Cut!Those(s, T) \in Seq(S \cap T)
<1>1. PICK n \in Nat : n = Len(s)
  OBVIOUS
<1>2. \E f : Picks(s, T, f, n)
  BY PicksExist
<1>3. PICK g : g = CHOOSE f : Picks(s, T, f, n)
  OBVIOUS
<1>4. Picks(s, T, g, n)
  BY ONLY <1>2, <1>3
<1>5. Cut!Those(s, T) = g[n]
  BY ONLY <1>1, <1>3 DEF Cut!Those, Picks
<1> QED BY <1>1, <1>4, <1>5, PicksElements

-----------------------------------------------------------------------------
\* What all acceptors have.
IsAcceptor(a) ==
  /\ DOMAIN a = {"type", "strOffset", "isFinal", "l", "r", "patterns"}
  /\ a.strOffset \in Nat

\* A transit keeps the shape of an acceptor, and counts the character.
LEMMA AfterAcceptor ==
  ASSUME NEW a, IsAcceptor(a), NEW ch
  PROVE  /\ IsAcceptor(Cut!After(a, ch)) /\ Cut!After(a, ch).strOffset = a.strOffset + 1
         /\ Cut!After(a, ch).type = a.type
<1>1. PICK read : read = a.strOffset + 1
  OBVIOUS
<1>2. PICK next : next = [a EXCEPT !.strOffset = read]
  OBVIOUS
<1>3. /\ IsAcceptor(next) /\ next.strOffset = read /\ next.type = a.type
  BY <1>1, <1>2 DEF IsAcceptor
<1>4. ASSUME NEW b
      PROVE  LET x == [next EXCEPT !.isFinal = b] IN IsAcceptor(x) /\ x.strOffset = read /\ x.type = a.type
  BY <1>3 DEF IsAcceptor
<1>5. ASSUME NEW m, NEW b
      PROVE  LET x == [next EXCEPT !.patterns = m, !.isFinal = b] IN IsAcceptor(x) /\ x.strOffset = read /\ x.type = a.type
  BY <1>3 DEF IsAcceptor
<1>7. CASE a.type = "THAI_RULE"
  <2>1. Cut!After(a, ch) = [next EXCEPT !.isFinal = (read = Len(Cut!Rule0))]
    BY <1>1, <1>2, <1>7 DEF Cut!After
  <2> QED BY <1>1, <1>4, <2>1
<1>8. CASE a.type = "PART"
  <2>1. \E m, b : Cut!After(a, ch) = [next EXCEPT !.patterns = m, !.isFinal = b]
    BY <1>1, <1>2, <1>8 DEF Cut!After
  <2>2. PICK m, b : Cut!After(a, ch) = [next EXCEPT !.patterns = m, !.isFinal = b]
    BY <2>1
  <2>3. PICK x : x = [next EXCEPT !.patterns = m, !.isFinal = b]
    OBVIOUS
  <2>4. IsAcceptor(x) /\ x.strOffset = read /\ x.type = a.type
    BY ONLY <1>5, <2>3
  <2> QED BY <1>1, <2>2, <2>3, <2>4
<1>9. CASE a.type = "DICT"
  <2>1. Cut!After(a, ch) = Cut!DictTransit(a, ch)
    BY <1>9 DEF Cut!After
  <2>2. \E l, r, b : Cut!DictTransit(a, ch) = [a EXCEPT !.l = l, !.r = r, !.strOffset = read, !.isFinal = b]
    BY <1>1 DEF Cut!DictTransit
  <2>3. PICK l, r, b : Cut!DictTransit(a, ch) = [a EXCEPT !.l = l, !.r = r, !.strOffset = read, !.isFinal = b]
    BY <2>2
  <2>4. PICK x : x = [a EXCEPT !.l = l, !.r = r, !.strOffset = read, !.isFinal = b]
    OBVIOUS
  <2>5. IsAcceptor(x) /\ x.strOffset = read /\ x.type = a.type
    BY <1>1, <2>4 DEF IsAcceptor
  <2> QED BY <1>1, <2>1, <2>3, <2>4, <2>5
<1>10. CASE a.type \notin {"THAI_RULE", "PART", "DICT"}
  <2>1. Cut!After(a, ch) = [next EXCEPT !.isFinal = TRUE]
    BY <1>1, <1>2, <1>10 DEF Cut!After
  <2> QED BY <1>1, <1>4, <2>1
<1> QED BY <1>7, <1>8, <1>9, <1>10

\* The acceptors that run after n characters.
AcceptorsOf(acceptors, n) ==
  \E S : /\ acceptors \in Seq(S)
         /\ \A a \in S : IsAcceptor(a) /\ a.strOffset \in 1 .. n

\* New acceptors have read nothing, and may become any word.
IsNew(a) == IsAcceptor(a) /\ a.strOffset = 0 /\ a.l = 1 /\ a.r = Len(dict)

\* Those that a transit creates are new.
LEMMA CreatedAcceptors == \E S : Cut!Created \in Seq(S) /\ \A a \in S : IsNew(a)
<1>1. PICK C : C = {"WORD_RULE", "SPACE_RULE", "SINSYM", "NUMBER_RULE", "THAI_RULE", "PART", "DICT"}
  OBVIOUS
<1>2. Cut!Creators \in Seq(C)
  BY <1>1 DEF Cut!Creators
<1>3. PICK T, types : types = Cut!Those(Cut!Creators, T) /\ Cut!Created = [k \in DOMAIN types |-> Cut!CreateAcceptor(types[k])]
  BY DEF Cut!Created
<1>4. PICK c : c = Cut!Creators
  OBVIOUS
<1>5. types \in Seq(C \cap T)
  BY <1>2, <1>3, ThoseElements
<1>6. PICK S : S = {Cut!CreateAcceptor(t) : t \in C}
  OBVIOUS
<1>7. PICK created : created = Cut!Created
  OBVIOUS
<1>8. DOMAIN types = 1 .. Len(types) /\ Len(types) \in Nat /\ \A k \in DOMAIN types : types[k] \in C
  BY <1>5
<1>9. created \in [1 .. Len(types) -> S]
  BY <1>3, <1>6, <1>7, <1>8
<1>10. created \in Seq(S)
  BY <1>8, <1>9
<1>11. ASSUME NEW t PROVE IsNew(Cut!CreateAcceptor(t))
  BY DEF Cut!CreateAcceptor, IsAcceptor, IsNew
<1>12. \A a \in S : IsNew(a)
  BY <1>6, <1>11
<1> QED BY <1>7, <1>10, <1>12

\* After one more character, acceptors have read from one to all of them.
LEMMA TransitAcceptors ==
  ASSUME NEW n \in Nat, AcceptorsOf(current, n), NEW ch
  PROVE  AcceptorsOf(Cut!Transit(ch), n + 1)
<1>1. PICK S : current \in Seq(S) /\ \A a \in S : IsAcceptor(a) /\ a.strOffset \in 1 .. n
  BY DEF AcceptorsOf
<1>2. PICK C : Cut!Created \in Seq(C) /\ \A a \in C : IsAcceptor(a) /\ a.strOffset = 0
  BY CreatedAcceptors DEF IsNew
<1>3. PICK U : U = S \cup C
  OBVIOUS
<1>4. PICK cur, created, all : cur = current /\ created = Cut!Created /\ all = cur \o created
  OBVIOUS
<1>5. cur \in Seq(U) /\ created \in Seq(U)
  BY <1>1, <1>2, <1>3, <1>4, SeqMonotonic
<1>6. all \in Seq(U)
  BY <1>4, <1>5, ConcatProperties
<1>7. PICK T, accepting : accepting = Cut!Those(all, T)
                          /\ Cut!Transit(ch) = [k \in DOMAIN accepting |-> Cut!After(accepting[k], ch)]
  BY <1>4 DEF Cut!Transit
<1>8. accepting \in Seq(U \cap T)
  BY <1>6, <1>7, ThoseElements
<1>9. DOMAIN accepting = 1 .. Len(accepting) /\ Len(accepting) \in Nat /\ \A k \in DOMAIN accepting : accepting[k] \in U
  BY <1>8
<1>10. PICK V : V = {Cut!After(a, ch) : a \in U}
  OBVIOUS
<1>11. PICK next : next = Cut!Transit(ch)
  OBVIOUS
<1>12. next \in [1 .. Len(accepting) -> V]
  BY <1>7, <1>9, <1>10, <1>11
<1>13. next \in Seq(V)
  BY <1>9, <1>12
<1>14. ASSUME NEW v \in V PROVE IsAcceptor(v) /\ v.strOffset \in 1 .. n + 1
  <2>1. PICK a \in U : v = Cut!After(a, ch)
    BY <1>10
  <2>2. IsAcceptor(a) /\ a.strOffset \in 0 .. n
    BY <1>1, <1>2, <1>3
  <2>3. IsAcceptor(v) /\ v.strOffset = a.strOffset + 1
    BY <2>1, <2>2, AfterAcceptor
  <2> QED BY <2>2, <2>3
<1> QED BY <1>11, <1>13, <1>14 DEF AcceptorsOf

\* Those of them that the text may be cut at.
LEMMA FinalsAcceptors ==
  ASSUME NEW n \in Nat, NEW next, AcceptorsOf(next, n)
  PROVE  AcceptorsOf(Cut!FinalAcceptors(next), n)
<1>1. PICK S : next \in Seq(S) /\ \A a \in S : IsAcceptor(a) /\ a.strOffset \in 1 .. n
  BY DEF AcceptorsOf
<1>2. PICK T, finals : finals = Cut!Those(next, T) /\ finals = Cut!FinalAcceptors(next)
  BY DEF Cut!FinalAcceptors
<1>3. finals \in Seq(S \cap T)
  BY <1>1, <1>2, ThoseElements
<1>4. \A a \in S \cap T : IsAcceptor(a) /\ a.strOffset \in 1 .. n
  BY <1>1
<1> QED BY <1>2, <1>3, <1>4 DEF AcceptorsOf

-----------------------------------------------------------------------------
\* The entry of the path for the prefix of j characters says where its last
\* piece starts.
Step(info, j) ==
  /\ DOMAIN info = {"p", "w", "unk", "type", "merge"}
  /\ info.p \in 0 .. j - 1 /\ info.merge \in {-1} \cup 0 .. j - 1
  /\ info.w \in Nat /\ info.unk \in Nat
\* The path has an entry for each prefix up to n characters.
PathTo(n) ==
  /\ DOMAIN path = 0 .. n /\ path[0].w = 0 /\ path[0].unk = 0
  /\ \A j \in 1 .. n : Step(path[j], j)

\* The weights of a path are numbers.
LEMMA PathWeights ==
  ASSUME NEW n \in Nat, PathTo(n), NEW j \in 0 .. n
  PROVE  path[j].w \in Nat /\ path[j].unk \in Nat
<1>1. CASE j = 0
  BY <1>1 DEF PathTo
<1>2. CASE j \in 1 .. n
  BY <1>2 DEF PathTo, Step
<1> QED BY <1>1, <1>2

\* selectPath: the best exists, and is one of them.
LEMMA Selected ==
  ASSUME NEW infos, NEW n \in Nat \ {0}, DOMAIN infos = 1 .. n,
         \A k \in 1 .. n : infos[k].w \in Nat /\ infos[k].unk \in Nat
  PROVE  \E k \in 1 .. n : Cut!SelectPath(infos) = infos[k]
<1>1. PICK U : U = {infos[k].unk : k \in 1 .. n}
  OBVIOUS
<1>2. U \in SUBSET Nat /\ U # {}
  BY <1>1
<1>3. PICK u \in U : \A x \in U : u <= x
  BY <1>2, NatLeast
<1>4. PICK W : W = {infos[k].w : k \in {m \in 1 .. n : infos[m].unk = u}}
  OBVIOUS
<1>5. W \in SUBSET Nat /\ W # {}
  BY <1>1, <1>4
<1>6. PICK w \in W : \A x \in W : w <= x
  BY <1>5, NatLeast
<1>7. PICK K : K = {m \in 1 .. n : infos[m].unk = u /\ infos[m].w = w}
  OBVIOUS
<1>8. K \in SUBSET Nat /\ K # {}
  BY <1>4, <1>7
<1>9. PICK k \in K : \A x \in K : k <= x
  BY <1>8, NatLeast
<1>10. k \in 1 .. n /\ infos[k].unk = u /\ infos[k].w = w
  BY <1>7
<1>11. ASSUME NEW j \in 1 .. n
       PROVE  ~Cut!Better(infos[j], infos[k]) /\ (j < k => Cut!Better(infos[k], infos[j]))
  <2>1. u <= infos[j].unk /\ (infos[j].unk = u => w <= infos[j].w)
        /\ (infos[j].unk = u /\ infos[j].w = w => k <= j)
    BY <1>1, <1>3, <1>4, <1>6, <1>7, <1>9
  <2>2. u \in Nat /\ w \in Nat /\ infos[j].unk \in Nat /\ infos[j].w \in Nat
    BY <1>10
  <2> QED BY <1>10, <2>1, <2>2 DEF Cut!Better
<1>12. PICK c : c = CHOOSE m \in DOMAIN infos : \A j \in DOMAIN infos :
          ~Cut!Better(infos[j], infos[m]) /\ (j < m => Cut!Better(infos[m], infos[j]))
  OBVIOUS
<1>13. c \in 1 .. n
  BY <1>10, <1>11, <1>12
<1>14. Cut!SelectPath(infos) = infos[c]
  BY ONLY <1>12 DEF Cut!SelectPath
<1> QED BY <1>13, <1>14

\* What build makes and selectPath selects ends at the new character and
\* starts before it.
LEMMA BuiltSteps ==
  ASSUME NEW n \in Nat, i = n, PathTo(n), leftBoundary \in 0 .. n,
         NEW finals, AcceptorsOf(finals, n + 1), NEW ch
  PROVE  Step(Cut!SelectPath(Cut!Build(finals, ch)), n + 1)
<1>1. PICK infos : infos = Cut!Build(finals, ch)
  OBVIOUS
<1>2. SUFFICES \E m \in Nat \ {0} : DOMAIN infos = 1 .. m /\ \A k \in 1 .. m : Step(infos[k], n + 1)
  <2>1. PICK m \in Nat \ {0} : DOMAIN infos = 1 .. m /\ \A k \in 1 .. m : Step(infos[k], n + 1)
    BY <1>2
  <2>2. \A k \in 1 .. m : infos[k].w \in Nat /\ infos[k].unk \in Nat
    BY <2>1 DEF Step
  <2>3. \E k \in 1 .. m : Cut!SelectPath(infos) = infos[k]
    BY <2>1, <2>2, Selected
  <2> QED BY <1>1, <2>1, <2>3
<1>3. CASE finals = <<>>
  <2>1. PICK f : f = Cut!Fallback(ch)
    OBVIOUS
  <2>2. infos = <<f>>
    BY <1>1, <1>3, <2>1 DEF Cut!Build
  <2>3. PICK info : info = path[leftBoundary]
    OBVIOUS
  <2>4. info.w \in Nat /\ info.unk \in Nat
    BY <2>3, PathWeights
  <2>5. leftBoundary # 0 => info.p \in 0 .. n
    BY <2>3 DEF PathTo, Step
  <2>6. PICK p : p = IF ch \in 3656 .. 3662 /\ leftBoundary # 0 THEN info.p ELSE leftBoundary
    OBVIOUS
  <2>7. p \in 0 .. n
    BY <2>5, <2>6
  <2>8. f = [p |-> p, w |-> info.w + 1, unk |-> info.unk + 1, type |-> "UNK", merge |-> -1]
    BY <2>1, <2>3, <2>6 DEF Cut!Fallback, Cut!None
  <2>9. Step(f, n + 1)
    BY <2>4, <2>7, <2>8 DEF Step
  <2>10. DOMAIN infos = 1 .. 1 /\ \A k \in 1 .. 1 : infos[k] = f
    BY <2>2
  <2> QED BY <2>9, <2>10
<1>4. CASE finals # <<>>
  <2>1. PICK S : finals \in Seq(S) /\ \A a \in S : IsAcceptor(a) /\ a.strOffset \in 1 .. n + 1
    BY DEF AcceptorsOf
  <2>2. PICK m : m = Len(finals)
    OBVIOUS
  <2>3. m \in Nat \ {0} /\ DOMAIN finals = 1 .. m
    BY <1>4, <2>1, <2>2
  <2>4. infos = [k \in 1 .. m |-> Cut!PathInfo(finals[k])]
    BY <1>1, <1>4, <2>3 DEF Cut!Build
  <2>5. ASSUME NEW k \in 1 .. m PROVE Step(infos[k], n + 1)
    <3>1. PICK a : a = finals[k]
      OBVIOUS
    <3>2. a.strOffset \in 1 .. n + 1
      BY <2>1, <2>3, <3>1
    <3>3. PICK p : p = Cut!StartOf(a)
      OBVIOUS
    <3>4. p \in 0 .. n
      BY <3>2, <3>3 DEF Cut!StartOf
    <3>5. PICK w, x : w = path[p].w /\ x = path[p].unk
      OBVIOUS
    <3>6. w \in Nat /\ x \in Nat
      BY <3>4, <3>5, PathWeights
    <3>7. PICK one : one = IF a.type = "PART" THEN 1 ELSE 0
      OBVIOUS
    <3>8. PICK g : g = IF a.type = "PART" THEN p ELSE -1
      OBVIOUS
    <3>9. infos[k] = [p |-> p, w |-> w + 1, unk |-> x + one, type |-> a.type, merge |-> g]
      BY <2>4, <3>1, <3>3, <3>5, <3>7, <3>8 DEF Cut!PathInfo, Cut!None
    <3>10. one \in Nat /\ g \in {-1} \cup 0 .. n
      BY <3>4, <3>7, <3>8
    <3> QED BY <3>4, <3>6, <3>9, <3>10 DEF Step
  <2>6. DOMAIN infos = 1 .. m
    BY <2>4
  <2> QED BY <2>3, <2>5, <2>6
<1> QED BY <1>3, <1>4

\* So do the entries that a part marks, and the first stays as it is.
LEMMA MarkedSteps ==
  ASSUME NEW n \in Nat, i = n, PathTo(n), NEW finals, AcceptorsOf(finals, n + 1),
         NEW j \in 0 .. n
  PROVE  (j = 0 => Cut!Marked(finals, j) = path[j]) /\ (j # 0 => Step(Cut!Marked(finals, j), j))
<1>0. PICK T : T = {a \in Cut!Range(finals) : a.type = "PART" /\ Cut!StartOf(a) < j}
  OBVIOUS
<1>1. PICK inside : /\ inside = Cut!Those(finals, T)
                    /\ Cut!Marked(finals, j) = IF inside = <<>> THEN path[j]
                         ELSE [path[j] EXCEPT !.merge = Cut!StartOf(inside[Len(inside)])]
  BY <1>0 DEF Cut!Marked, Cut!Last
<1>2. PICK S : finals \in Seq(S) /\ \A a \in S : IsAcceptor(a) /\ a.strOffset \in 1 .. n + 1
  BY DEF AcceptorsOf
<1>3. inside \in Seq(S \cap T)
  BY <1>1, <1>2, ThoseElements
<1>4. CASE inside = <<>>
  BY <1>1, <1>4 DEF PathTo
<1>5. CASE inside # <<>>
  <2>1. PICK a : a = inside[Len(inside)]
    OBVIOUS
  <2>2. a \in S \cap T
    BY <1>3, <1>5, <2>1
  <2>3. PICK p : p = Cut!StartOf(a)
    OBVIOUS
  <2>4. p \in 0 .. j - 1
    <3>1. a.strOffset \in 1 .. n + 1 /\ p < j
      BY <1>0, <1>2, <2>2, <2>3
    <3> QED BY <2>3, <3>1 DEF Cut!StartOf
  <2>5. j # 0 /\ Cut!Marked(finals, j) = [path[j] EXCEPT !.merge = p]
    BY <1>1, <1>5, <2>1, <2>3, <2>4
  <2>6. Step(path[j], j)
    BY <2>5 DEF PathTo
  <2>7. Step([path[j] EXCEPT !.merge = p], j)
    BY <2>4, <2>6 DEF Step
  <2> QED BY <2>5, <2>7
<1> QED BY <1>4, <1>5

-----------------------------------------------------------------------------
\* The ranges from position n of the text on.
Chain(rs, n, length) ==
  /\ rs \in Seq([s : Nat, e : Nat])
  /\ rs = <<>> => n = length
  /\ rs # <<>> => rs[1].s = n /\ rs[Len(rs)].e = length
  /\ \A k \in 1 .. Len(rs) : rs[k].s < rs[k].e /\ (k > 1 => rs[k].s = rs[k - 1].e)

\* The path reaches as far as the text was read, and the ranges from e on
\* are those of the rest of the text.
CutInvariant ==
  /\ pc \in {"idle", "read", "ranges"} /\ text \in Seq(Nat) /\ calls \in Nat
  /\ pc = "read" => /\ i \in 0 .. Len(text) /\ leftBoundary \in 0 .. i /\ ranges = <<>>
                    /\ AcceptorsOf(current, i)
  /\ pc = "ranges" => i = Len(text) /\ e \in 0 .. i
  /\ pc # "idle" => PathTo(i)
  /\ pc = "idle" /\ calls > 0 => e = 0
  /\ pc = "ranges" \/ (pc = "idle" /\ calls > 0) => Chain(ranges, e, Len(text))

\* The first range is widened to the left.
LEMMA ChainWidens ==
  ASSUME NEW rs, NEW n \in Nat, NEW length, Chain(rs, n, length), rs # <<>>, NEW m \in Nat, m < n
  PROVE  Chain([rs EXCEPT ![1].s = m], m, length)
<1>1. PICK new, first : first = [rs[1] EXCEPT !.s = m] /\ new = [rs EXCEPT ![1] = first]
  OBVIOUS
<1>2. Len(rs) \in Nat \ {0} /\ 1 \in 1 .. Len(rs) /\ Len(rs) \in 1 .. Len(rs)
  BY DEF Chain
<1>3. PICK R : R = [s : Nat, e : Nat]
  OBVIOUS
<1>4. rs \in Seq(R)
  BY <1>3 DEF Chain
<1>5. rs[1] \in R
  BY <1>2, <1>4
<1>6. first \in R /\ first.s = m /\ first.e = rs[1].e
  BY <1>1, <1>3, <1>5
<1>7. /\ new \in Seq(R) /\ Len(new) = Len(rs)
      /\ \A k \in 1 .. Len(rs) : new[k] = IF k = 1 THEN first ELSE rs[k]
  BY <1>1, <1>2, <1>4, <1>6
<1>8. new # <<>> /\ new[1].s = m
  BY <1>2, <1>6, <1>7
<1>9. ASSUME NEW k \in 1 .. Len(rs) PROVE new[k].e = rs[k].e
  BY <1>2, <1>6, <1>7, <1>9
<1>10. ASSUME NEW k \in 1 .. Len(rs)
       PROVE  new[k].s < new[k].e /\ (k > 1 => new[k].s = new[k - 1].e)
  <2>1. CASE k = 1
    <3>1. n < rs[1].e /\ rs[1].e \in Nat
      BY <1>2, <1>3, <1>5 DEF Chain
    <3>2. new[1].s = m /\ new[1].e = rs[1].e
      BY <1>2, <1>6, <1>7
    <3> QED BY <2>1, <3>1, <3>2
  <2>2. CASE k # 1
    <3>1. new[k] = rs[k] /\ k > 1 /\ k - 1 \in 1 .. Len(rs)
      BY <1>2, <1>7, <2>2
    <3>2. rs[k].s < rs[k].e /\ rs[k].s = rs[k - 1].e
      BY <3>1 DEF Chain
    <3>3. PICK l \in 1 .. Len(rs) : l = k - 1
      BY <3>1
    <3>4. new[l].e = rs[l].e
      BY <1>9
    <3> QED BY <3>1, <3>2, <3>3, <3>4
  <2> QED BY <2>1, <2>2
<1>11. new[Len(new)].e = length
  BY <1>2, <1>7, <1>9 DEF Chain
<1>12. Chain(new, m, length)
  BY <1>3, <1>7, <1>8, <1>10, <1>11 DEF Chain
<1>13. new = [rs EXCEPT ![1].s = m]
  BY <1>1, <1>2, <1>4
<1> QED BY <1>12, <1>13

\* A new range on the left.
LEMMA ChainGrows ==
  ASSUME NEW rs, NEW n \in Nat, NEW length, Chain(rs, n, length), NEW m \in Nat, m < n,
         NEW range, range = [s |-> m, e |-> n]
  PROVE  Chain(<<range>> \o rs, m, length)
<1>1. PICK one, new : one = <<range>> /\ new = one \o rs
  OBVIOUS
<1>2. PICK R : R = [s : Nat, e : Nat]
  OBVIOUS
<1>3. rs \in Seq(R) /\ Len(rs) \in Nat
  BY <1>2 DEF Chain
<1>4. range \in R /\ range.s = m /\ range.e = n
  BY <1>2
<1>5. one \in Seq(R) /\ Len(one) = 1 /\ one[1] = range
  BY <1>1, <1>4
<1>6. /\ new \in Seq(R) /\ Len(new) = Len(one) + Len(rs)
      /\ \A k \in 1 .. Len(one) : new[k] = one[k]
      /\ \A k \in 1 .. Len(rs) : new[Len(one) + k] = rs[k]
  <2>1. one \in Seq(R) /\ rs \in Seq(R)
    BY <1>3, <1>5
  <2>2. new \in Seq(R) /\ Len(new) = Len(one) + Len(rs)
    BY ONLY <1>1, <2>1, Concatenation
  <2>3. \A k \in 1 .. Len(one) : new[k] = one[k]
    BY ONLY <1>1, <2>1, Concatenation
  <2>4. \A k \in 1 .. Len(rs) : new[Len(one) + k] = rs[k]
    BY ONLY <1>1, <2>1, Concatenation
  <2> QED BY ONLY <2>2, <2>3, <2>4
<1>7. new[1] = range /\ Len(new) = Len(rs) + 1 /\ new # <<>>
  BY <1>3, <1>5, <1>6
<1>8. ASSUME NEW k \in 1 .. Len(rs) PROVE new[k + 1] = rs[k]
  BY <1>3, <1>5, <1>6, <1>8
<1>9. new[Len(new)].e = length
  <2>1. CASE rs = <<>>
    BY <1>4, <1>7, <2>1 DEF Chain
  <2>2. CASE rs # <<>>
    <3>1. Len(rs) \in 1 .. Len(rs)
      BY <1>3, <2>2
    <3> QED BY <1>7, <1>8, <2>2, <3>1 DEF Chain
  <2> QED BY <2>1, <2>2
<1>10. ASSUME NEW k \in 1 .. Len(new)
       PROVE  new[k].s < new[k].e /\ (k > 1 => new[k].s = new[k - 1].e)
  <2>1. CASE k = 1
    BY <1>4, <1>7, <2>1
  <2>2. CASE k # 1
    <3>1. PICK l \in 1 .. Len(rs) : k = l + 1
      <4>1. k - 1 \in 1 .. Len(rs) /\ k = (k - 1) + 1
        BY <1>3, <1>7, <2>2
      <4> QED BY <4>1
    <3>2. new[k] = rs[l] /\ k - 1 = l
      BY <1>8, <3>1
    <3>3. rs[l].s < rs[l].e
      BY DEF Chain
    <3>4. new[l].e = rs[l].s
      <4>1. CASE l = 1
        BY <1>3, <1>4, <1>7, <4>1 DEF Chain
      <4>2. CASE l # 1
        <5>1. PICK j \in 1 .. Len(rs) : l = j + 1
          <6>1. l - 1 \in 1 .. Len(rs) /\ l = (l - 1) + 1
            BY <1>3, <4>2
          <6> QED BY <6>1
        <5>2. rs[l].s = rs[l - 1].e /\ l - 1 = j
          BY <4>2, <5>1 DEF Chain
        <5> QED BY <1>8, <5>1, <5>2
      <4> QED BY <4>1, <4>2
    <3> QED BY <3>1, <3>2, <3>3, <3>4
  <2> QED BY <2>1, <2>2
<1>11. Chain(new, m, length)
  BY <1>2, <1>4, <1>6, <1>7, <1>9, <1>10 DEF Chain
<1> QED BY <1>1, <1>11

\* Every step of the segmenter keeps the invariant.
LEMMA CutStep ==
  ASSUME SiteAssumption, CutInvariant, Cut!Next \/ UNCHANGED cutVars
  PROVE  CutInvariant'
<1>1. CASE Cut!Cut
  <2>1. /\ text' \in FirstTexts \cup Texts /\ calls' = calls + 1 /\ i' = 0 /\ current' = <<>> /\ leftBoundary' = 0
        /\ path' = [j \in {0} |-> [p |-> -1, w |-> 0, unk |-> 0, type |-> "INIT", merge |-> -1]]
        /\ pc' = "read" /\ ranges' = <<>>
    BY <1>1 DEF Cut!Cut, Cut!CreatePath, Cut!None
  <2>2. text' \in Seq(Nat) /\ Len(text') \in Nat /\ calls' \in Nat
    BY <2>1 DEF SiteAssumption, CutInvariant
  <2>3. PathTo(i)'
    <3>1. 0 .. 0 = {0} /\ 1 .. 0 = {}
      OBVIOUS
    <3> QED BY <2>1, <3>1 DEF PathTo
  <2>4. AcceptorsOf(current, i)'
    <3>1. current' \in Seq({})
      BY <2>1
    <3> QED BY <3>1 DEF AcceptorsOf
  <2> QED BY <2>1, <2>2, <2>3, <2>4 DEF CutInvariant
<1>2. CASE Cut!ReadCharacter
  <2>1. PICK n : n = i
    OBVIOUS
  <2>2. /\ pc = "read" /\ n < Len(text) /\ i' = n + 1 /\ UNCHANGED <<calls, pc, text, e, ranges>>
    BY <1>2, <2>1 DEF Cut!ReadCharacter
  <2>3. /\ n \in Nat /\ leftBoundary \in 0 .. n /\ ranges = <<>> /\ AcceptorsOf(current, n) /\ PathTo(n)
        /\ Len(text) \in Nat
    BY <2>1, <2>2 DEF CutInvariant
  <2>4. PICK ch, next, finals, selected :
          /\ ch = text[i + 1] /\ next = Cut!Transit(ch) /\ finals = Cut!FinalAcceptors(next)
          /\ selected = Cut!SelectPath(Cut!Build(finals, ch))
    OBVIOUS
  <2>5. /\ current' = next
        /\ path' = [j \in 0 .. n + 1 |-> IF j > n THEN selected ELSE Cut!Marked(finals, j)]
        /\ leftBoundary' = IF selected.type = "UNK" THEN leftBoundary ELSE n
    BY <1>2, <2>1, <2>4 DEF Cut!ReadCharacter
  <2>6. AcceptorsOf(next, n + 1) /\ AcceptorsOf(finals, n + 1)
    <3>1. AcceptorsOf(next, n + 1)
      BY <2>3, <2>4, TransitAcceptors
    <3>2. PICK m \in Nat : m = n + 1
      BY <2>3
    <3> QED BY <2>4, <3>1, <3>2, FinalsAcceptors
  <2>7. Step(selected, n + 1)
    BY <2>1, <2>3, <2>4, <2>6, BuiltSteps
  <2>8. \A j \in 0 .. n : (j = 0 => Cut!Marked(finals, j) = path[j]) /\ (j # 0 => Step(Cut!Marked(finals, j), j))
    BY <2>1, <2>3, <2>6, MarkedSteps
  <2>9. PathTo(n + 1)'
    <3>1. DOMAIN path' = 0 .. n + 1
      BY <2>5
    <3>2. path'[0] = path[0]
      BY <2>3, <2>5, <2>8
    <3>3. ASSUME NEW j \in 1 .. n + 1 PROVE Step(path'[j], j)
      <4>1. CASE j \in 1 .. n
        <5>1. j \in 0 .. n /\ j # 0 /\ j \in 0 .. n + 1 /\ ~(j > n)
          BY <2>3, <4>1
        <5>2. path'[j] = Cut!Marked(finals, j)
          BY ONLY <2>5, <5>1
        <5> QED BY <2>8, <5>1, <5>2
      <4>2. CASE j = n + 1
        BY <2>3, <2>5, <2>7, <4>2
      <4> QED BY <2>3, <3>3, <4>1, <4>2
    <3> QED BY <2>3, <3>1, <3>2, <3>3 DEF PathTo
  <2>10. i' \in 0 .. Len(text') /\ leftBoundary' \in 0 .. i'
    BY <2>2, <2>3, <2>5
  <2> QED BY <2>2, <2>3, <2>5, <2>6, <2>9, <2>10 DEF CutInvariant
<1>3. CASE Cut!BuildRanges
  <2>1. pc = "read" /\ i = Len(text) /\ e' = i /\ pc' = "ranges" /\ UNCHANGED <<calls, text, i, path, ranges>>
    BY <1>3 DEF Cut!BuildRanges
  <2>2. ranges = <<>> /\ PathTo(i) /\ text \in Seq(Nat) /\ calls \in Nat /\ i \in 0 .. Len(text)
    BY <2>1 DEF CutInvariant
  <2>3. PathTo(i)'
    BY <2>1, <2>2 DEF PathTo
  <2>4. Chain(ranges', e', Len(text'))
    BY <2>1, <2>2 DEF Chain
  <2>5. e' \in 0 .. i'
    BY <2>1, <2>2
  <2> QED BY <2>1, <2>2, <2>3, <2>4, <2>5 DEF CutInvariant
<1>4. CASE Cut!AddRange
  <2>1. pc = "ranges" /\ e > 0 /\ UNCHANGED <<calls, pc, text, i, path>>
    BY <1>4 DEF Cut!AddRange
  <2>2. /\ i = Len(text) /\ i \in Nat /\ e \in 1 .. i /\ PathTo(i) /\ Chain(ranges, e, Len(text))
        /\ text \in Seq(Nat) /\ calls \in Nat
    BY <2>1 DEF CutInvariant
  <2>3. PICK info, n : info = path[e] /\ n = e
    OBVIOUS
  <2>4. Step(info, n) /\ n \in Nat
    BY <2>2, <2>3 DEF PathTo
  <2>5. \/ info.merge # -1 /\ ranges # <<>> /\ ranges' = [ranges EXCEPT ![1].s = info.merge] /\ e' = info.merge
        \/ ranges' = <<[s |-> info.p, e |-> n]>> \o ranges /\ e' = info.p
    BY <1>4, <2>3 DEF Cut!AddRange, Cut!None, Cut!FromMerge
  <2>6. Chain(ranges', e', Len(text)) /\ e' \in 0 .. i
    <3>1. CASE info.merge # -1 /\ ranges # <<>> /\ ranges' = [ranges EXCEPT ![1].s = info.merge] /\ e' = info.merge
      <4>1. PICK m : m = info.merge
        OBVIOUS
      <4>2. m \in Nat /\ m < n /\ m \in 0 .. i
        <5>1. m \in 0 .. n - 1
          BY <2>4, <3>1, <4>1 DEF Step
        <5> QED BY <2>2, <2>3, <5>1
      <4>3. Chain(ranges, n, Len(text))
        BY <2>2, <2>3
      <4> QED BY <2>4, <3>1, <4>1, <4>2, <4>3, ChainWidens
    <3>2. CASE ranges' = <<[s |-> info.p, e |-> n]>> \o ranges /\ e' = info.p
      <4>1. PICK m : m = info.p
        OBVIOUS
      <4>2. m \in Nat /\ m < n /\ m \in 0 .. i
        <5>1. m \in 0 .. n - 1
          BY <2>4, <4>1 DEF Step
        <5> QED BY <2>2, <2>3, <5>1
      <4>3. Chain(ranges, n, Len(text))
        BY <2>2, <2>3
      <4>4. PICK range : range = [s |-> m, e |-> n]
        OBVIOUS
      <4>5. Chain(<<range>> \o ranges, m, Len(text))
        BY <2>4, <4>2, <4>3, <4>4, ChainGrows
      <4> QED BY <3>2, <4>1, <4>2, <4>4, <4>5
    <3> QED BY <2>5, <3>1, <3>2
  <2>7. PathTo(i)'
    BY <2>1, <2>2 DEF PathTo
  <2> QED BY <2>1, <2>2, <2>6, <2>7 DEF CutInvariant
<1>5. CASE Cut!Return
  <2>1. pc = "ranges" /\ e = 0 /\ pc' = "idle" /\ UNCHANGED <<calls, text, e, ranges>>
    BY <1>5 DEF Cut!Return
  <2> QED BY <2>1 DEF CutInvariant
<1>6. CASE UNCHANGED cutVars
  BY <1>6 DEF CutInvariant, cutVars, PathTo, AcceptorsOf
<1>7. CASE Cut!Finished
  BY <1>6, <1>7 DEF Cut!Finished, Cut!vars, cutVars
<1> QED BY <1>1, <1>2, <1>3, <1>4, <1>5, <1>6, <1>7 DEF Cut!Next

\* The invariant holds at first.
LEMMA CutStart == ASSUME Cut!Init PROVE CutInvariant
BY DEF Cut!Init, CutInvariant

\* It says that the ranges cover the text.
LEMMA CutCovers == ASSUME CutInvariant PROVE Cut!RangesCoverText
<1>1. SUFFICES ASSUME pc = "idle", calls > 0
               PROVE  /\ text # <<>> => ranges # <<>> /\ ranges[1].s = 0 /\ ranges[Len(ranges)].e = Len(text)
                      /\ \A k \in DOMAIN ranges :
                           ranges[k].s < ranges[k].e /\ (k > 1 => ranges[k].s = ranges[k - 1].e)
  BY DEF Cut!RangesCoverText, Cut!Last
<1>2. Chain(ranges, 0, Len(text)) /\ text \in Seq(Nat)
  BY <1>1 DEF CutInvariant
<1>3. DOMAIN ranges = 1 .. Len(ranges)
  BY <1>2 DEF Chain
<1>4. text # <<>> => Len(text) # 0
  BY <1>2
<1> QED BY <1>2, <1>3, <1>4 DEF Chain

-----------------------------------------------------------------------------
(* The dictionary of the Thai segmenter.                                    *)

\* The k-th character of a word, and -1 where there is none: words are in
\* order if the first characters that differ are.
CharAt(w, k) == IF k <= Len(w) THEN w[k] ELSE -1
InOrder(a, b) ==
  \E k \in Nat \ {0} : /\ CharAt(a, k) < CharAt(b, k)
                       /\ \A j \in 1 .. k - 1 : CharAt(a, j) = CharAt(b, j)

\* A place after the end of a word holds less than any character.
LEMMA CharType ==
  ASSUME NEW w \in Seq(Nat), NEW k \in Nat \ {0}
  PROVE  /\ CharAt(w, k) \in Int
         /\ k <= Len(w) => CharAt(w, k) = w[k] /\ CharAt(w, k) >= 0
         /\ ~(k <= Len(w)) => CharAt(w, k) = -1
<1>1. Len(w) \in Nat /\ (k <= Len(w) => w[k] \in Nat)
  BY ElementOfSeq
<1> QED BY <1>1 DEF CharAt

\* Words with the same characters are the same.
LEMMA SameWord ==
  ASSUME NEW a \in Seq(Nat), NEW b \in Seq(Nat),
         \A k \in Nat \ {0} : CharAt(a, k) = CharAt(b, k)
  PROVE  a = b
<1>1. Len(a) \in Nat /\ Len(b) \in Nat
  OBVIOUS
<1>2. ASSUME NEW k \in Nat \ {0} PROVE k <= Len(a) <=> k <= Len(b)
  BY <1>1, CharType
<1>3. Len(a) = Len(b)
  <2>1. ~(Len(a) < Len(b))
    BY <1>1, <1>2
  <2>2. ~(Len(b) < Len(a))
    BY <1>1, <1>2
  <2> QED BY <1>1, <2>1, <2>2
<1>4. ASSUME NEW k \in 1 .. Len(a) PROVE a[k] = b[k]
  BY <1>1, <1>3, CharType
<1> QED BY <1>3, <1>4, SeqEqual

\* What a prefix is, by characters.
LEMMA PrefixChars ==
  ASSUME NEW s \in Seq(Nat), NEW w \in Seq(Nat)
  PROVE  Cut!IsPrefix(s, w) <=> \A j \in 1 .. Len(s) : CharAt(w, j) = s[j]
<1>1. PICK n \in Nat, m \in Nat : n = Len(s) /\ m = Len(w)
  OBVIOUS
<1>2. \A j \in 1 .. n : s[j] \in Nat
  BY <1>1
<1>3. SubSeq(s, 1, n) = s
  BY <1>1
<1>4. CASE n <= m
  <2>1. PICK v : v = SubSeq(w, 1, n)
    OBVIOUS
  <2>2. v \in Seq(Nat) /\ Len(v) = n /\ \A j \in 1 .. n : v[j] = w[j]
    BY <1>1, <1>4, <2>1
  <2>3. s = v <=> \A j \in 1 .. n : s[j] = v[j]
    <3>1. ASSUME \A j \in 1 .. n : s[j] = v[j] PROVE s = v
      BY <1>1, <2>2, <3>1, SeqEqual
    <3> QED BY <3>1
  <2>4. \A j \in 1 .. n : CharAt(w, j) = w[j]
    BY <1>1, <1>4 DEF CharAt
  <2>5. Cut!IsPrefix(s, w) <=> s = v
    BY <1>1, <1>3, <1>4, <2>1 DEF Cut!IsPrefix
  <2>6. (\A j \in 1 .. n : s[j] = v[j]) <=> \A j \in 1 .. n : CharAt(w, j) = s[j]
    BY <2>2, <2>4
  <2> QED BY <1>1, <2>3, <2>5, <2>6
<1>5. CASE ~(n <= m)
  <2>1. ~Cut!IsPrefix(s, w)
    BY <1>1, <1>5 DEF Cut!IsPrefix
  <2>2. n \in 1 .. n /\ CharAt(w, n) = -1 /\ s[n] # -1
    BY <1>1, <1>2, <1>5 DEF CharAt
  <2> QED BY <1>1, <2>1, <2>2
<1> QED BY <1>4, <1>5

\* The order of the model and that by characters are the same.
LEMMA BeforeInOrder ==
  ASSUME NEW a \in Seq(Nat), NEW b \in Seq(Nat)
  PROVE  Cut!Before(a, b) <=> InOrder(a, b)
<1>1. PICK n \in Nat, m \in Nat : n = Len(a) /\ m = Len(b)
  OBVIOUS
<1>2. ASSUME NEW k \in 1 .. n PROVE CharAt(a, k) = a[k] /\ a[k] \in Nat
  BY <1>1 DEF CharAt
<1>3. ASSUME NEW k \in 1 .. m PROVE CharAt(b, k) = b[k] /\ b[k] \in Nat
  BY <1>1 DEF CharAt
<1>4. ASSUME Cut!IsStrictPrefix(a, b) PROVE InOrder(a, b)
  <2>1. Cut!IsPrefix(a, b) /\ a # b
    BY <1>4 DEF Cut!IsStrictPrefix
  <2>2. \A j \in 1 .. n : CharAt(b, j) = a[j]
    BY <1>1, <2>1, PrefixChars
  <2>3. n <= m
    BY <1>1, <2>1 DEF Cut!IsPrefix
  <2>4. n # m
    <3>1. ASSUME n = m PROVE a = b
      <4>1. \A j \in 1 .. n : a[j] = b[j]
        BY <1>3, <2>2, <3>1
      <4> QED BY <1>1, <3>1, <4>1, SeqEqual
    <3> QED BY <2>1, <3>1
  <2>5. PICK k \in Nat \ {0} : k = n + 1
    BY <1>1
  <2>6. CharAt(a, k) = -1
    BY <1>1, <2>5 DEF CharAt
  <2>7. CharAt(b, k) \in Nat
    BY <1>1, <1>3, <2>3, <2>4, <2>5
  <2>8. \A j \in 1 .. k - 1 : CharAt(a, j) = CharAt(b, j)
    BY <1>1, <1>2, <2>2, <2>5
  <2> QED BY <2>6, <2>7, <2>8 DEF InOrder
<1>5. ASSUME NEW k \in 1 .. Len(a), k <= Len(b), a[k] < b[k], \A j \in 1 .. k - 1 : a[j] = b[j]
      PROVE  InOrder(a, b)
  <2>1. k \in Nat \ {0} /\ CharAt(a, k) < CharAt(b, k)
    BY <1>1, <1>2, <1>3, <1>5
  <2>2. ASSUME NEW j \in 1 .. k - 1 PROVE CharAt(a, j) = CharAt(b, j)
    <3>1. j \in 1 .. n /\ j \in 1 .. m
      BY <1>1, <1>5
    <3> QED BY <1>2, <1>3, <1>5, <3>1
  <2> QED BY <2>1, <2>2 DEF InOrder
<1>6. ASSUME InOrder(a, b) PROVE Cut!Before(a, b)
  <2>1. PICK k \in Nat \ {0} : /\ CharAt(a, k) < CharAt(b, k)
                               /\ \A j \in 1 .. k - 1 : CharAt(a, j) = CharAt(b, j)
    BY <1>6 DEF InOrder
  <2>2. k <= m
    <3>1. CharAt(a, k) \in Int /\ CharAt(a, k) >= -1
      <4>1. /\ CharAt(a, k) \in Int
            /\ k <= Len(a) => CharAt(a, k) >= 0
            /\ ~(k <= Len(a)) => CharAt(a, k) = -1
        BY CharType
      <4> QED BY <4>1
    <3>2. ~(k <= m) => CharAt(b, k) = -1
      BY <1>1, CharType
    <3> QED BY <1>1, <2>1, <3>1, <3>2
  <2>3. CASE k <= n
    <3>1. k \in 1 .. Len(a) /\ k <= Len(b) /\ a[k] < b[k]
      BY <1>1, <1>2, <1>3, <2>1, <2>2, <2>3
    <3>2. ASSUME NEW j \in 1 .. k - 1 PROVE a[j] = b[j]
      <4>1. j \in 1 .. n /\ j \in 1 .. m
        BY <2>2, <2>3
      <4> QED BY <1>2, <1>3, <2>1, <4>1
    <3> QED BY <3>1, <3>2 DEF Cut!Before
  <2>4. CASE ~(k <= n)
    <3>1. \A j \in 1 .. n : CharAt(b, j) = a[j]
      BY <1>1, <1>2, <2>1, <2>4
    <3>2. Cut!IsPrefix(a, b)
      BY <1>1, <3>1, PrefixChars
    <3>3. a # b
      BY <1>1, <2>2, <2>4
    <3> QED BY <3>2, <3>3 DEF Cut!Before, Cut!IsStrictPrefix
  <2> QED BY <2>3, <2>4
<1> QED BY <1>4, <1>5, <1>6 DEF Cut!Before

\* It is transitive and total.
LEMMA OrderTransitive ==
  ASSUME NEW a \in Seq(Nat), NEW b \in Seq(Nat), NEW c \in Seq(Nat), InOrder(a, b), InOrder(b, c)
  PROVE  InOrder(a, c)
<1>1. PICK k \in Nat \ {0} : /\ CharAt(a, k) < CharAt(b, k)
                             /\ \A j \in 1 .. k - 1 : CharAt(a, j) = CharAt(b, j)
  BY DEF InOrder
<1>2. PICK l \in Nat \ {0} : /\ CharAt(b, l) < CharAt(c, l)
                             /\ \A j \in 1 .. l - 1 : CharAt(b, j) = CharAt(c, j)
  BY DEF InOrder
<1>3. ASSUME NEW j \in Nat \ {0}
      PROVE  CharAt(a, j) \in Int /\ CharAt(b, j) \in Int /\ CharAt(c, j) \in Int
  BY CharType
<1>4. CASE k < l
  <2>1. CharAt(a, k) < CharAt(c, k)
    BY <1>1, <1>2, <1>3, <1>4
  <2>2. \A j \in 1 .. k - 1 : CharAt(a, j) = CharAt(c, j)
    BY <1>1, <1>2, <1>4
  <2> QED BY <2>1, <2>2 DEF InOrder
<1>5. CASE ~(k < l)
  <2>1. CharAt(a, l) < CharAt(c, l)
    <3>1. CASE k = l
      BY <1>1, <1>2, <1>3, <3>1
    <3>2. CASE k # l
      <4>1. l \in 1 .. k - 1
        BY <1>5, <3>2
      <4>2. CharAt(a, l) = CharAt(b, l)
        BY <1>1, <4>1
      <4> QED BY <1>2, <4>2
    <3> QED BY <3>1, <3>2
  <2>2. \A j \in 1 .. l - 1 : CharAt(a, j) = CharAt(c, j)
    BY <1>1, <1>2, <1>5
  <2> QED BY <2>1, <2>2 DEF InOrder
<1> QED BY <1>4, <1>5

\* Of two words one comes first.
LEMMA OrderTotal ==
  ASSUME NEW a \in Seq(Nat), NEW b \in Seq(Nat), a # b
  PROVE  InOrder(a, b) \/ InOrder(b, a)
<1>1. PICK D : D = {k \in Nat \ {0} : CharAt(a, k) # CharAt(b, k)}
  OBVIOUS
<1>2. D \in SUBSET Nat /\ D # {}
  BY <1>1, SameWord
<1>3. PICK k \in D : \A j \in D : k <= j
  BY <1>2, NatLeast
<1>4. k \in Nat \ {0} /\ CharAt(a, k) # CharAt(b, k)
  BY <1>1
<1>5. \A j \in 1 .. k - 1 : CharAt(a, j) = CharAt(b, j)
  BY <1>1, <1>3, <1>4
<1>6. CharAt(a, k) < CharAt(b, k) \/ CharAt(b, k) < CharAt(a, k)
  BY <1>4, CharType
<1> QED BY <1>4, <1>5, <1>6 DEF InOrder

\* A finite set of words can be sorted, as any set that all its proper subsets
\* lack one word of can.
LEMMA SetsSort ==
  ASSUME NEW S \in SUBSET Seq(Nat), IsFiniteSet(S)
  PROVE  \E s \in [1 .. Cardinality(S) -> S] :
           \A j, k \in DOMAIN s : j < k => InOrder(s[j], s[k])
<1>1. PICK Bad : Bad = {T \in SUBSET S :
                          ~(\E s \in [1 .. Cardinality(T) -> T] :
                              \A j, k \in DOMAIN s : j < k => InOrder(s[j], s[k]))}
  OBVIOUS
<1>2. SUFFICES ASSUME Bad # {} PROVE FALSE
  BY <1>1
<1>3. Bad \in SUBSET SUBSET S
  BY <1>1
<1>4. PICK T \in Bad : \A U \in SUBSET T : U # T => U \notin Bad
  BY <1>2, <1>3, LeastSubset
<1>5. T \in SUBSET S /\ IsFiniteSet(T)
  BY <1>3, FS_Subset
<1>6. T # {}
  <2>1. ASSUME T = {} PROVE FALSE
    <3>1. Cardinality(T) = 0
      BY <2>1, FS_EmptySet
    <3>2. PICK s : s = [k \in 1 .. 0 |-> k]
      OBVIOUS
    <3>3. s \in [1 .. Cardinality(T) -> T] /\ \A j, k \in DOMAIN s : j < k => InOrder(s[j], s[k])
      BY <3>1, <3>2
    <3> QED BY <1>1, <3>3
  <2> QED BY <2>1
<1>7. PICK x \in T : TRUE
  BY <1>6
<1>8. PICK U : U = T \ {x}
  OBVIOUS
<1>9. PICK n \in Nat : n = Cardinality(U) /\ Cardinality(T) = n + 1
  <2>1. IsFiniteSet(U) /\ Cardinality(U) = Cardinality(T) - 1
    BY <1>5, <1>7, <1>8, FS_RemoveElement
  <2>2. Cardinality(U) \in Nat /\ Cardinality(T) \in Nat
    BY <1>5, <2>1, FS_CardinalityType
  <2> QED BY <2>1, <2>2
<1>10. PICK s \in [1 .. n -> U] : \A j, k \in 1 .. n : j < k => InOrder(s[j], s[k])
  <2>1. U \in SUBSET T /\ U # T /\ U \in SUBSET S
    BY <1>5, <1>7, <1>8
  <2>2. U \notin Bad
    BY <1>4, <2>1
  <2>3. PICK s \in [1 .. Cardinality(U) -> U] : \A j, k \in DOMAIN s : j < k => InOrder(s[j], s[k])
    BY <1>1, <2>1, <2>2
  <2> QED BY <1>9, <2>3
<1>11. PICK D : D = {j \in 1 .. n + 1 : j = n + 1 \/ InOrder(x, s[j])}
  OBVIOUS
<1>12. D \in SUBSET Nat /\ D # {}
  <2>1. n + 1 \in D
    BY <1>11
  <2> QED BY <1>11, <2>1
<1>13. PICK p \in D : \A j \in D : p <= j
  BY <1>12, NatLeast
<1>14. p \in 1 .. n + 1 /\ (p = n + 1 \/ InOrder(x, s[p]))
  BY <1>11
<1>15. \A j \in 1 .. n : s[j] \in Seq(Nat) /\ s[j] # x /\ s[j] \in T
  BY <1>5, <1>8, <1>10
<1>16. x \in Seq(Nat)
  BY <1>5, <1>7
<1>17. ASSUME NEW j \in 1 .. n, j < p PROVE InOrder(s[j], x)
  <2>1. j \notin D
    BY <1>13, <1>14, <1>17
  <2>2. ~InOrder(x, s[j])
    BY <1>11, <2>1
  <2> QED BY <1>15, <1>16, <2>2, OrderTotal
<1>18. ASSUME NEW k \in 1 .. n, p <= k PROVE InOrder(x, s[k])
  <2>1. p \in 1 .. n /\ InOrder(x, s[p])
    BY <1>14, <1>18
  <2>2. CASE k = p
    BY <2>1, <2>2
  <2>3. CASE k # p
    <3>1. InOrder(s[p], s[k])
      BY <1>10, <1>18, <2>1, <2>3
    <3> QED BY <1>15, <1>16, <2>1, <3>1, OrderTransitive
  <2> QED BY <2>2, <2>3
<1>19. PICK t : t = [k \in 1 .. n + 1 |-> IF k < p THEN s[k] ELSE IF k = p THEN x ELSE s[k - 1]]
  OBVIOUS
<1>20. ASSUME NEW k \in 1 .. n + 1
       PROVE  /\ k < p => t[k] = s[k] /\ k \in 1 .. n
              /\ k = p => t[k] = x
              /\ k > p => t[k] = s[k - 1] /\ k - 1 \in 1 .. n /\ p <= k - 1
  BY <1>14, <1>19
<1>21. t \in [1 .. n + 1 -> T]
  <2>1. ASSUME NEW k \in 1 .. n + 1 PROVE t[k] \in T
    <3>1. CASE k < p
      <4>1. t[k] = s[k] /\ k \in 1 .. n
        BY <1>20, <3>1
      <4> QED BY <1>15, <4>1
    <3>2. CASE k = p
      <4>1. t[k] = x
        BY <1>20, <3>2
      <4> QED BY <1>7, <4>1
    <3>3. CASE k > p
      <4>1. PICK l \in 1 .. n : t[k] = s[l]
        BY <1>20, <3>3
      <4> QED BY <1>15, <4>1
    <3> QED BY <1>14, <3>1, <3>2, <3>3
  <2> QED BY <1>19, <2>1
<1>22. ASSUME NEW j \in 1 .. n + 1, NEW k \in 1 .. n + 1, j < k
       PROVE  InOrder(t[j], t[k])
  <2>1. CASE k < p
    BY <1>10, <1>14, <1>20, <1>22, <2>1
  <2>2. CASE k = p
    BY <1>14, <1>17, <1>20, <1>22, <2>2
  <2>3. CASE k > p /\ j = p
    BY <1>14, <1>18, <1>20, <2>3
  <2>4. CASE k > p /\ j < p
    <3>1. t[j] = s[j] /\ j \in 1 .. n /\ t[k] = s[k - 1] /\ k - 1 \in 1 .. n /\ j < k - 1
      BY <1>14, <1>20, <2>4
    <3> QED BY <1>10, <3>1
  <2>5. CASE k > p /\ j > p
    <3>1. t[j] = s[j - 1] /\ j - 1 \in 1 .. n /\ t[k] = s[k - 1] /\ k - 1 \in 1 .. n /\ j - 1 < k - 1
      BY <1>14, <1>20, <1>22, <2>5
    <3> QED BY <1>10, <3>1
  <2> QED BY <1>14, <2>1, <2>2, <2>3, <2>4, <2>5
<1>23. T \notin Bad
  <2>1. DOMAIN t = 1 .. n + 1 /\ t \in [1 .. Cardinality(T) -> T]
    BY <1>9, <1>21
  <2>2. \A j, k \in DOMAIN t : j < k => InOrder(t[j], t[k])
    BY <1>22, <2>1
  <2> QED BY <1>1, <2>1, <2>2
<1> QED BY <1>4, <1>23

\* The dictionary is sorted and has no word twice.
Sorted(words) ==
  /\ words \in Seq(Seq(Nat))
  /\ \A j, k \in DOMAIN words : j < k => InOrder(words[j], words[k])

\* Whatever words the files have and the caller adds.
LEMMA DictionarySorted ==
  ASSUME SiteAssumption, NEW words \in WordLists
  PROVE  Sorted(Cut!Dictionary(words))
<1>1. PICK W : W = Seq(Nat)
  OBVIOUS
<1>2. words \in Seq(W) /\ FileWords \in Seq(W)
  BY <1>1 DEF SiteAssumption
<1>3. PICK T, kept, all : /\ kept = Cut!Those(FileWords, T) /\ all = kept \o words
                          /\ Cut!Dictionary(words) = Cut!SortUniq(all)
  <2>1. \E T : Cut!Dictionary(words) = Cut!SortUniq(Cut!Those(FileWords, T) \o words)
    BY Zenon DEF Cut!Dictionary
  <2> QED BY <2>1
<1>4. kept \in Seq(W)
  <2>1. kept \in Seq(W \cap T)
    BY <1>2, <1>3, ThoseElements
  <2> QED BY <2>1, SeqMonotonic
<1>5. all \in Seq(W)
  BY <1>2, <1>3, <1>4, ConcatProperties
<1>6. PICK S : S = Cut!Range(all)
  OBVIOUS
<1>7. S \in SUBSET W /\ IsFiniteSet(S)
  <2>1. PICK n \in Nat : n = Len(all) /\ DOMAIN all = 1 .. n
    BY <1>5
  <2>2. S = {all[k] : k \in 1 .. n}
    BY <1>6, <2>1 DEF Cut!Range
  <2>3. \A k \in 1 .. n : all[k] \in W
    BY <1>5, <2>1
  <2>4. IsFiniteSet(1 .. n)
    BY FS_Interval
  <2>5. PICK f : f = [k \in 1 .. n |-> all[k]]
    OBVIOUS
  <2>6. f \in Surjection(1 .. n, S)
    BY <2>2, <2>5 DEF Surjection
  <2>7. IsFiniteSet(S)
    BY <2>4, <2>6, FS_Surjection
  <2> QED BY <2>2, <2>3, <2>7
<1>8. PICK N \in Nat : N = Cardinality(S) /\ N = Cut!Cardinality(S)
  <2>1. Cardinality(S) = Cut!Cardinality(S)
    BY DEF Cardinality, Cut!Cardinality
  <2> QED BY <1>7, <2>1, FS_CardinalityType
<1>9. PICK sorted : sorted = Cut!Dictionary(words)
  OBVIOUS
<1>10. sorted = CHOOSE s \in [1 .. N -> S] : \A j, k \in DOMAIN s : j < k => Cut!Before(s[j], s[k])
  BY <1>3, <1>6, <1>8, <1>9 DEF Cut!SortUniq
<1>11. PICK s \in [1 .. N -> S] : \A j, k \in DOMAIN s : j < k => InOrder(s[j], s[k])
  BY <1>1, <1>7, <1>8, SetsSort
<1>12. ASSUME NEW f \in [1 .. N -> S], NEW j \in 1 .. N, NEW k \in 1 .. N
       PROVE  Cut!Before(f[j], f[k]) <=> InOrder(f[j], f[k])
  <2>1. f[j] \in Seq(Nat) /\ f[k] \in Seq(Nat)
    BY <1>1, <1>7
  <2> QED BY <2>1, BeforeInOrder
<1>13. \A j, k \in DOMAIN s : j < k => Cut!Before(s[j], s[k])
  BY <1>11, <1>12
<1>14. sorted \in [1 .. N -> S] /\ \A j, k \in DOMAIN sorted : j < k => Cut!Before(sorted[j], sorted[k])
  BY <1>10, <1>13
<1>15. \A j, k \in DOMAIN sorted : j < k => InOrder(sorted[j], sorted[k])
  BY <1>12, <1>14
<1>16. sorted \in Seq(W)
  BY <1>7, <1>14
<1> QED BY <1>1, <1>9, <1>15, <1>16 DEF Sorted

-----------------------------------------------------------------------------
\* The characters after a prefix that words share are in the order of the
\* words.
LEMMA ColumnsInOrder ==
  ASSUME Sorted(dict), NEW s \in Seq(Nat), NEW d \in DOMAIN dict, NEW h \in DOMAIN dict, d < h,
         Cut!IsPrefix(s, dict[d]), Cut!IsPrefix(s, dict[h])
  PROVE  CharAt(dict[d], Len(s) + 1) <= CharAt(dict[h], Len(s) + 1)
<1>1. PICK n \in Nat : n = Len(s)
  OBVIOUS
<1>2. PICK a \in Seq(Nat), b \in Seq(Nat) : a = dict[d] /\ b = dict[h]
  BY DEF Sorted
<1>3. PICK k \in Nat \ {0} : /\ CharAt(a, k) < CharAt(b, k)
                             /\ \A j \in 1 .. k - 1 : CharAt(a, j) = CharAt(b, j)
  BY <1>2 DEF Sorted, InOrder
<1>4. \A j \in 1 .. n : CharAt(a, j) = s[j] /\ CharAt(b, j) = s[j] /\ s[j] \in Nat
  BY <1>1, <1>2, PrefixChars
<1>5. PICK m \in Nat \ {0} : m = n + 1
  OBVIOUS
<1>6. CharAt(a, m) \in Int /\ CharAt(b, m) \in Int
  BY CharType
<1>7. k \notin 1 .. n
  BY <1>3, <1>4
<1>8. CASE k = m
  BY <1>1, <1>2, <1>3, <1>5, <1>6, <1>8
<1>9. CASE k # m
  <2>1. m \in 1 .. k - 1
    BY <1>5, <1>7, <1>9
  <2> QED BY <1>1, <1>2, <1>3, <1>5, <1>6, <2>1
<1> QED BY <1>8, <1>9

\* The state of a search, in words whose characters at the offset are in
\* order: what is looked for is between l and r, if no better answer is known.
Wanted(k, ch, offset) == CharAt(dict[k], offset + 1) = ch
Seeking(s, left, right, ch, offset, pos) ==
  /\ s = [l |-> s.l, r |-> s.r, ans |-> s.ans]
  /\ s.l \in left .. right + 1 /\ s.r \in left - 1 .. right /\ s.ans \in Nat
  /\ s.ans # 0 =>
       /\ s.ans \in left .. right /\ Wanted(s.ans, ch, offset)
       /\ IF pos = "LEFT" THEN s.r < s.ans ELSE s.ans < s.l
  /\ \A k \in left .. right : Wanted(k, ch, offset) =>
       \/ k \in s.l .. s.r
       \/ s.ans # 0 /\ IF pos = "LEFT" THEN s.ans <= k ELSE k <= s.ans

\* What the state of a search is made of.
LEMMA StillSeeking ==
  ASSUME NEW left \in Nat, NEW right \in Nat, NEW ch, NEW offset, NEW pos,
         NEW l \in left .. right + 1, NEW r \in left - 1 .. right, NEW ans \in Nat,
         ans # 0 => /\ ans \in left .. right /\ Wanted(ans, ch, offset)
                    /\ IF pos = "LEFT" THEN r < ans ELSE ans < l,
         \A k \in left .. right : Wanted(k, ch, offset) =>
           k \in l .. r \/ (ans # 0 /\ IF pos = "LEFT" THEN ans <= k ELSE k <= ans),
         NEW t, t = [l |-> l, r |-> r, ans |-> ans]
  PROVE  Seeking(t, left, right, ch, offset, pos)
<1>1. t.l = l /\ t.r = r /\ t.ans = ans /\ t = [l |-> t.l, r |-> t.r, ans |-> t.ans]
  OBVIOUS
<1> QED BY <1>1 DEF Seeking

\* The middle of a range is in it.
LEMMA Halfway ==
  ASSUME NEW l \in Nat, NEW r \in Nat, l <= r
  PROVE  (l + r) \div 2 \in l .. r
OBVIOUS

\* A round of the search leaves that so, and the range gets shorter.
LEMMA SeekRounds ==
  ASSUME Sorted(dict), NEW left \in Nat \ {0}, NEW right \in 0 .. Len(dict), left <= right + 1,
         NEW ch \in Nat, NEW offset \in Nat, NEW pos,
         \A j, k \in left .. right : j < k =>
           CharAt(dict[j], offset + 1) <= CharAt(dict[k], offset + 1),
         NEW s, Seeking(s, left, right, ch, offset, pos),
         NEW t, t = Cut!SeekRound(s, ch, offset, pos)
  PROVE  /\ Seeking(t, left, right, ch, offset, pos)
         /\ s.l > s.r => t = s
         /\ s.l <= s.r => t.r - t.l < s.r - s.l
<1>1. PICK l \in Nat, r \in Nat, ans \in Nat : l = s.l /\ r = s.r /\ ans = s.ans
  BY DEF Seeking
<1>2. /\ s = [l |-> l, r |-> r, ans |-> ans] /\ l \in left .. right + 1 /\ r \in left - 1 .. right
      /\ ans # 0 => /\ ans \in left .. right /\ Wanted(ans, ch, offset)
                    /\ IF pos = "LEFT" THEN r < ans ELSE ans < l
      /\ \A k \in left .. right : Wanted(k, ch, offset) =>
           k \in l .. r \/ (ans # 0 /\ IF pos = "LEFT" THEN ans <= k ELSE k <= ans)
  BY <1>1 DEF Seeking
<1>3. CASE l > r
  <2>1. t = s
    BY <1>1, <1>3 DEF Cut!SeekRound
  <2> QED BY <1>1, <1>3, <2>1
<1>4. CASE l <= r
  <2>1. PICK m \in l .. r : m = (l + r) \div 2
    BY <1>4, Halfway
  <2>2. m \in left .. right /\ m \in DOMAIN dict /\ dict[m] \in Seq(Nat) /\ m # 0
    <3>1. m \in left .. right /\ m # 0
      BY <1>2, <2>1
    <3>2. dict \in Seq(Seq(Nat))
      BY DEF Sorted
    <3>3. PICK n \in Nat : n = Len(dict)
      BY <3>2
    <3>4. m \in 1 .. n
      BY <3>1, <3>3
    <3>5. DOMAIN dict = 1 .. n
      BY <3>2, <3>3
    <3>6. dict[m] \in Seq(Nat)
      BY <3>2, <3>3, <3>4, ElementOfSeq
    <3> QED BY <3>1, <3>4, <3>5, <3>6
  <2>3. PICK c : c = CharAt(dict[m], offset + 1)
    OBVIOUS
  <2>4. c \in Int /\ (Wanted(m, ch, offset) <=> c = ch)
    <3>1. offset + 1 \in Nat \ {0}
      OBVIOUS
    <3> QED BY <2>2, <2>3, <3>1, CharType DEF Wanted
  <2>5. PICK item : item = dict[m]
    OBVIOUS
  <2>6. t = IF Len(item) <= offset THEN [s EXCEPT !.l = m + 1]
            ELSE IF item[offset + 1] < ch THEN [s EXCEPT !.l = m + 1]
            ELSE IF item[offset + 1] > ch THEN [s EXCEPT !.r = m - 1]
            ELSE IF pos = "LEFT" THEN [s EXCEPT !.r = m - 1, !.ans = m]
            ELSE [s EXCEPT !.l = m + 1, !.ans = m]
    <3>1. ~(s.l > s.r) /\ (s.l + s.r) \div 2 = m
      BY <1>1, <1>4, <2>1
    <3> QED BY ONLY <2>5, <3>1, t = Cut!SeekRound(s, ch, offset, pos) DEF Cut!SeekRound
  <2>7. /\ Len(item) <= offset => c = -1
        /\ ~(Len(item) <= offset) => c = item[offset + 1]
    <3>1. Len(item) \in Nat
      BY <2>2, <2>5
    <3> QED BY <2>3, <2>5, <3>1 DEF CharAt
  <2>8. /\ c < ch => t = [l |-> m + 1, r |-> r, ans |-> ans]
        /\ c > ch => t = [l |-> l, r |-> m - 1, ans |-> ans]
        /\ c = ch /\ pos = "LEFT" => t = [l |-> l, r |-> m - 1, ans |-> m]
        /\ c = ch /\ pos # "LEFT" => t = [l |-> m + 1, r |-> r, ans |-> m]
    <3>1. /\ c < ch => t = [s EXCEPT !.l = m + 1]
          /\ c > ch => t = [s EXCEPT !.r = m - 1]
          /\ c = ch /\ pos = "LEFT" => t = [s EXCEPT !.r = m - 1, !.ans = m]
          /\ c = ch /\ pos # "LEFT" => t = [s EXCEPT !.l = m + 1, !.ans = m]
      BY <2>4, <2>6, <2>7
    <3>2. s = [l |-> l, r |-> r, ans |-> ans]
      BY <1>2
    <3>3. PICK next, last : next = m + 1 /\ last = m - 1
      OBVIOUS
    <3>4. c < ch => t = [l |-> next, r |-> r, ans |-> ans]
      BY <3>1, <3>2, <3>3
    <3>5. c > ch => t = [l |-> l, r |-> last, ans |-> ans]
      BY <3>1, <3>2, <3>3
    <3>6. c = ch /\ pos = "LEFT" => t = [l |-> l, r |-> last, ans |-> m]
      BY <3>1, <3>2, <3>3
    <3>7. c = ch /\ pos # "LEFT" => t = [l |-> next, r |-> r, ans |-> m]
      BY <3>1, <3>2, <3>3
    <3> QED BY ONLY <3>3, <3>4, <3>5, <3>6, <3>7
  <2>9. ASSUME NEW k \in left .. right, Wanted(k, ch, offset)
        PROVE  (c < ch => k > m) /\ (c > ch => k < m)
    <3>1. k < m => ch <= c
      BY <2>2, <2>3, <2>9 DEF Wanted
    <3>2. m < k => c <= ch
      BY <2>2, <2>3, <2>9 DEF Wanted
    <3>3. k = m => c = ch
      BY <2>4, <2>9
    <3> QED BY <2>4, <3>1, <3>2, <3>3
  <2>10. CASE c < ch
    <3>1. PICK b \in Nat : b = m + 1 /\ t = [l |-> b, r |-> r, ans |-> ans]
      BY <2>8, <2>10
    <3>2. b \in left .. right + 1 /\ (pos # "LEFT" /\ ans # 0 => ans < b)
      BY <1>2, <2>1, <2>2, <3>1
    <3>3. ASSUME NEW k \in left .. right, Wanted(k, ch, offset)
          PROVE  k \in b .. r \/ (ans # 0 /\ IF pos = "LEFT" THEN ans <= k ELSE k <= ans)
      BY <1>2, <2>9, <2>10, <3>1, <3>3
    <3>4. Seeking(t, left, right, ch, offset, pos)
      BY ONLY <1>2, <3>1, <3>2, <3>3, StillSeeking, left \in Nat \ {0}, right \in 0 .. Len(dict)
    <3>5. t.r - t.l < r - l
      BY <2>1, <3>1
    <3> QED BY <1>1, <1>4, <3>4, <3>5
  <2>11. CASE c > ch
    <3>1. PICK b \in Nat : b = m - 1 /\ t = [l |-> l, r |-> b, ans |-> ans]
      BY <2>2, <2>8, <2>11
    <3>2. b \in left - 1 .. right /\ (pos = "LEFT" /\ ans # 0 => b < ans)
      BY <1>2, <2>1, <2>2, <3>1
    <3>3. ASSUME NEW k \in left .. right, Wanted(k, ch, offset)
          PROVE  k \in l .. b \/ (ans # 0 /\ IF pos = "LEFT" THEN ans <= k ELSE k <= ans)
      BY <1>2, <2>9, <2>11, <3>1, <3>3
    <3>4. Seeking(t, left, right, ch, offset, pos)
      BY ONLY <1>2, <3>1, <3>2, <3>3, StillSeeking, left \in Nat \ {0}, right \in 0 .. Len(dict)
    <3>5. t.r - t.l < r - l
      BY <2>1, <3>1
    <3> QED BY <1>1, <1>4, <3>4, <3>5
  <2>12. CASE c = ch /\ pos = "LEFT"
    <3>1. PICK b \in Nat : b = m - 1 /\ t = [l |-> l, r |-> b, ans |-> m]
      BY <2>2, <2>8, <2>12
    <3>2. b \in left - 1 .. right /\ b < m
      BY <1>2, <2>1, <2>2, <3>1
    <3>3. ASSUME NEW k \in left .. right, Wanted(k, ch, offset)
          PROVE  k \in l .. b \/ (m # 0 /\ IF pos = "LEFT" THEN m <= k ELSE k <= m)
      BY <1>2, <2>1, <2>2, <2>12, <3>1, <3>3
    <3>4. m \in left .. right /\ Wanted(m, ch, offset) /\ pos = "LEFT" /\ m \in Nat
      BY <2>2, <2>4, <2>12
    <3>5. Seeking(t, left, right, ch, offset, pos)
      BY ONLY <1>2, <3>1, <3>2, <3>3, <3>4, StillSeeking, left \in Nat \ {0}, right \in 0 .. Len(dict)
    <3>6. t.r - t.l < r - l
      BY <2>1, <3>1
    <3> QED BY <1>1, <1>4, <3>5, <3>6
  <2>13. CASE c = ch /\ pos # "LEFT"
    <3>1. PICK b \in Nat : b = m + 1 /\ t = [l |-> b, r |-> r, ans |-> m]
      BY <2>2, <2>8, <2>13
    <3>2. b \in left .. right + 1 /\ m < b
      BY <1>2, <2>1, <2>2, <3>1
    <3>3. ASSUME NEW k \in left .. right, Wanted(k, ch, offset)
          PROVE  k \in b .. r \/ (m # 0 /\ IF pos = "LEFT" THEN m <= k ELSE k <= m)
      BY <1>2, <2>1, <2>2, <2>13, <3>1, <3>3
    <3>4. m \in left .. right /\ Wanted(m, ch, offset) /\ pos # "LEFT" /\ m \in Nat
      BY <2>2, <2>4, <2>13
    <3>5. Seeking(t, left, right, ch, offset, pos)
      BY ONLY <1>2, <3>1, <3>2, <3>3, <3>4, StillSeeking, left \in Nat \ {0}, right \in 0 .. Len(dict)
    <3>6. t.r - t.l < r - l
      BY <2>1, <3>1
    <3> QED BY <1>1, <1>4, <3>5, <3>6
  <2> QED BY <2>4, <2>10, <2>11, <2>12, <2>13
<1> QED BY <1>1, <1>3, <1>4

\* What DictSeek's recursive function satisfies.
Seeks(f, left, right, ch, offset, pos, n) ==
  f = [k \in 0 .. n |-> IF k = 0 THEN [l |-> left, r |-> right, ans |-> 0]
                        ELSE Cut!SeekRound(f[k - 1], ch, offset, pos)]

\* There is one.
LEMMA SeeksExist ==
  ASSUME NEW left, NEW right, NEW ch, NEW offset, NEW pos, NEW n \in Nat
  PROVE  \E f : Seeks(f, left, right, ch, offset, pos, n)
<1>1. PICK D : D = {k \in 0 .. n : \A f : ~Seeks(f, left, right, ch, offset, pos, k)}
  OBVIOUS
<1>2. SUFFICES ASSUME D # {} PROVE FALSE
  <2>1. n \in 0 .. n
    OBVIOUS
  <2> QED BY <1>1, <2>1
<1>3. D \in SUBSET Nat
  BY <1>1
<1>4. PICK m \in D : \A j \in D : m <= j
  BY <1>2, <1>3, NatLeast
<1>5. m \in 0 .. n /\ \A f : ~Seeks(f, left, right, ch, offset, pos, m)
  BY <1>1
<1>6. PICK s : s = [l |-> left, r |-> right, ans |-> 0]
  OBVIOUS
<1>7. CASE m = 0
  <2>1. PICK f : f = [k \in 0 .. 0 |-> s]
    OBVIOUS
  <2>2. f = [k \in 0 .. 0 |-> IF k = 0 THEN s ELSE Cut!SeekRound(f[k - 1], ch, offset, pos)]
    BY <2>1
  <2>3. Seeks(f, left, right, ch, offset, pos, 0)
    BY <1>6, <2>2 DEF Seeks
  <2> QED BY <1>5, <1>7, <2>3
<1>8. CASE m # 0
  <2>1. PICK i0 : i0 = m - 1
    OBVIOUS
  <2>2. i0 \in 0 .. n /\ i0 \notin D /\ i0 \in Nat /\ m = i0 + 1
    BY <1>4, <1>5, <1>8, <2>1
  <2>3. PICK f : Seeks(f, left, right, ch, offset, pos, i0)
    BY <1>1, <2>2
  <2>4. PICK x : x = Cut!SeekRound(f[i0], ch, offset, pos)
    OBVIOUS
  <2>5. PICK g : g = [k \in 0 .. m |-> IF k = m THEN x ELSE f[k]]
    OBVIOUS
  <2>6. ASSUME NEW k \in 0 .. m
        PROVE  g[k] = IF k = 0 THEN s ELSE Cut!SeekRound(g[k - 1], ch, offset, pos)
    <3>1. CASE k = m
      <4>1. g[k] = x /\ g[k - 1] = f[i0] /\ k # 0
        BY <1>8, <2>2, <2>5, <3>1
      <4> QED BY <2>4, <4>1
    <3>2. CASE k # m
      <4>1. k \in 0 .. i0 /\ g[k] = f[k] /\ (k # 0 => g[k - 1] = f[k - 1])
        BY <1>8, <2>2, <2>5, <3>2
      <4>2. f[k] = IF k = 0 THEN s ELSE Cut!SeekRound(f[k - 1], ch, offset, pos)
        BY ONLY <1>6, <2>3, <4>1 DEF Seeks
      <4> QED BY <4>1, <4>2
    <3> QED BY <3>1, <3>2
  <2>7. g = [k \in 0 .. m |-> g[k]]
    BY <2>5
  <2>8. g = [k \in 0 .. m |-> IF k = 0 THEN s ELSE Cut!SeekRound(g[k - 1], ch, offset, pos)]
    BY ONLY <2>6, <2>7
  <2>9. Seeks(g, left, right, ch, offset, pos, m)
    BY <1>6, <2>8 DEF Seeks
  <2> QED BY <1>5, <2>9
<1> QED BY <1>7, <1>8

\* In words whose characters at the offset are in order dictSeek finds the
\* first or the last that has the character, if there is one.
LEMMA SeekFinds ==
  ASSUME Sorted(dict), NEW left \in Nat \ {0}, NEW right \in 0 .. Len(dict), left <= right + 1,
         NEW ch \in Nat, NEW offset \in Nat, NEW pos,
         \A j, k \in left .. right : j < k =>
           CharAt(dict[j], offset + 1) <= CharAt(dict[k], offset + 1),
         NEW x, x = Cut!DictSeek(left, right, ch, offset, pos)
  PROVE  /\ x = 0 => \A k \in left .. right : ~Wanted(k, ch, offset)
         /\ x # 0 => /\ x \in left .. right /\ Wanted(x, ch, offset)
                     /\ \A k \in left .. right : Wanted(k, ch, offset) =>
                          IF pos = "LEFT" THEN x <= k ELSE k <= x
<1>1. PICK n \in Nat : n = Len(dict)
  BY DEF Sorted
<1>2. \E f : Seeks(f, left, right, ch, offset, pos, n)
  BY SeeksExist
<1>3. PICK g : g = CHOOSE f : Seeks(f, left, right, ch, offset, pos, n)
  OBVIOUS
<1>4. Seeks(g, left, right, ch, offset, pos, n)
  BY ONLY <1>2, <1>3
<1>5. x = g[n].ans
  BY ONLY <1>1, <1>3, x = Cut!DictSeek(left, right, ch, offset, pos) DEF Cut!DictSeek, Seeks
<1>6. PICK D : D = {k \in 0 .. n : ~(/\ Seeking(g[k], left, right, ch, offset, pos)
                                     /\ g[k].l > g[k].r \/ g[k].r - g[k].l <= right - left - k)}
  OBVIOUS
<1>7. D = {}
  <2>1. SUFFICES ASSUME D # {} PROVE FALSE
    OBVIOUS
  <2>2. D \in SUBSET Nat
    BY <1>6
  <2>3. PICK m \in D : \A j \in D : m <= j
    BY <2>1, <2>2, NatLeast
  <2>4. m \in 0 .. n
    BY <1>6
  <2>5. g[m] = IF m = 0 THEN [l |-> left, r |-> right, ans |-> 0]
               ELSE Cut!SeekRound(g[m - 1], ch, offset, pos)
    BY ONLY <1>4, <2>4 DEF Seeks
  <2>6. CASE m = 0
    <3>1. g[m] = [l |-> left, r |-> right, ans |-> 0]
      BY <2>5, <2>6
    <3>2. Seeking(g[m], left, right, ch, offset, pos)
      BY <3>1 DEF Seeking
    <3>3. g[m].r - g[m].l <= right - left - m
      BY <2>6, <3>1
    <3> QED BY <1>6, <3>2, <3>3
  <2>7. CASE m # 0
    <3>1. PICK j \in 0 .. n : j = m - 1 /\ j \notin D
      BY <2>3, <2>4, <2>7
    <3>2. PICK s : s = g[j]
      OBVIOUS
    <3>3. Seeking(s, left, right, ch, offset, pos) /\ (s.l > s.r \/ s.r - s.l <= right - left - j)
      BY <1>6, <3>1, <3>2
    <3>4. PICK t : t = g[m]
      OBVIOUS
    <3>5. t = Cut!SeekRound(s, ch, offset, pos)
      BY <2>5, <2>7, <3>1, <3>2, <3>4
    <3>6. /\ Seeking(t, left, right, ch, offset, pos)
          /\ s.l > s.r => t = s
          /\ s.l <= s.r => t.r - t.l < s.r - s.l
      BY <3>3, <3>5, SeekRounds
    <3>7. s.l \in Int /\ s.r \in Int /\ t.l \in Int /\ t.r \in Int
      BY <3>3, <3>6 DEF Seeking
    <3>8. t.l > t.r \/ t.r - t.l <= right - left - m
      <4>1. PICK sl \in Int, sr \in Int, tl \in Int, tr \in Int :
              sl = s.l /\ sr = s.r /\ tl = t.l /\ tr = t.r
        BY <3>7
      <4>2. CASE sl > sr
        BY <3>6, <4>1, <4>2
      <4>3. CASE sl <= sr
        <5>1. sr - sl <= right - left - j
          BY <3>3, <4>1, <4>3
        <5>2. tr - tl < sr - sl
          BY <3>6, <4>1, <4>3
        <5>3. tr - tl <= right - left - m
          BY <2>4, <3>1, <5>1, <5>2
        <5> QED BY <4>1, <5>3
      <4> QED BY <4>1, <4>2, <4>3
    <3> QED BY <1>6, <3>4, <3>6, <3>8
  <2> QED BY <2>6, <2>7
<1>8. PICK s : s = g[n]
  OBVIOUS
<1>9. Seeking(s, left, right, ch, offset, pos) /\ (s.l > s.r \/ s.r - s.l <= right - left - n)
  <2>1. n \in 0 .. n /\ n \notin D
    BY <1>7
  <2> QED BY <1>6, <1>8, <2>1
<1>10. s.l > s.r
  <2>1. s.l \in Int /\ s.r \in Int
    BY <1>9 DEF Seeking
  <2>2. right - left - n < 0
    BY <1>1
  <2> QED BY <1>9, <2>1, <2>2
<1>11. \A k \in left .. right : k \notin s.l .. s.r
  BY <1>9, <1>10 DEF Seeking
<1>12. x = s.ans
  BY <1>5, <1>8
<1> QED BY <1>9, <1>11, <1>12 DEF Seeking

-----------------------------------------------------------------------------
\* An acceptor of the dictionary that has read a string stands for the words
\* that start with it; but for a new one it says if one of them is the string.
Stands(a, read) ==
  /\ a.l \in Nat \ {0} /\ a.r \in 0 .. Len(dict) /\ a.l <= a.r + 1
  /\ a.l .. a.r = {d \in DOMAIN dict : Cut!IsPrefix(read, dict[d])}
Finds(a, read) == Stands(a, read) /\ (a.isFinal <=> read \in Cut!Range(dict))

\* Words that start with a string and one more character.
LEMMA OneCharMore ==
  ASSUME NEW read \in Seq(Nat), NEW ch \in Nat, NEW next, next = Append(read, ch), NEW w \in Seq(Nat)
  PROVE  /\ next \in Seq(Nat) /\ Len(next) = Len(read) + 1
         /\ Cut!IsPrefix(next, w) <=> Cut!IsPrefix(read, w) /\ CharAt(w, Len(read) + 1) = ch
<1>0. PICK n \in Nat : n = Len(read)
  OBVIOUS
<1>1. PICK m \in Nat : n = Len(read) /\ m = n + 1
  BY <1>0
<1>2. next \in Seq(Nat) /\ Len(next) = m /\ next[m] = ch /\ \A j \in 1 .. n : next[j] = read[j]
  BY <1>1, AppendProperties
<1>3. Cut!IsPrefix(next, w) <=> \A j \in 1 .. m : CharAt(w, j) = next[j]
  BY <1>2, PrefixChars
<1>4. Cut!IsPrefix(read, w) <=> \A j \in 1 .. n : CharAt(w, j) = read[j]
  BY <1>1, PrefixChars
<1>5. \A j : j \in 1 .. m <=> j \in 1 .. n \/ j = m
  BY <1>1
<1>6. Cut!IsPrefix(next, w) <=> Cut!IsPrefix(read, w) /\ CharAt(w, m) = ch
  BY ONLY <1>2, <1>3, <1>4, <1>5
<1> QED BY <1>1, <1>2, <1>6

\* The first of the words that start with a string is as long as the string
\* if and only if the string is a word.
LEMMA FirstIsTheString ==
  ASSUME Sorted(dict), NEW s \in Seq(Nat), NEW left \in DOMAIN dict, Cut!IsPrefix(s, dict[left]),
         \A d \in DOMAIN dict : Cut!IsPrefix(s, dict[d]) => left <= d
  PROVE  Len(dict[left]) = Len(s) <=> s \in Cut!Range(dict)
<1>1. PICK n \in Nat : n = Len(s)
  OBVIOUS
<1>2. dict \in Seq(Seq(Nat)) /\ DOMAIN dict = 1 .. Len(dict) /\ DOMAIN dict \subseteq Nat
  BY DEF Sorted
<1>3. PICK a \in Seq(Nat) : a = dict[left]
  BY <1>2
<1>4. \A j \in 1 .. n : CharAt(a, j) = s[j]
  BY <1>1, <1>3, PrefixChars
<1>5. ASSUME Len(a) = n PROVE s \in Cut!Range(dict)
  <2>1. ASSUME NEW j \in 1 .. n PROVE a[j] = s[j]
    <3>1. j \in Nat \ {0} /\ j <= Len(a)
      BY <1>5
    <3>2. CharAt(a, j) = a[j]
      BY <3>1, CharType
    <3> QED BY <1>4, <3>2
  <2>2. a = s
    BY <1>1, <1>5, <2>1, SeqEqual
  <2> QED BY <1>3, <2>2 DEF Cut!Range
<1>6. ASSUME s \in Cut!Range(dict) PROVE Len(a) = n
  <2>1. PICK d \in DOMAIN dict : s = dict[d]
    BY <1>6 DEF Cut!Range
  <2>2. ASSUME NEW j \in 1 .. n PROVE CharAt(s, j) = s[j]
    BY <1>1, CharType
  <2>3. Cut!IsPrefix(s, dict[d])
    BY <1>1, <2>1, <2>2, PrefixChars
  <2>4. left <= d /\ left \in Nat /\ d \in Nat
    BY <1>2, <2>3
  <2>5. CASE left = d
    BY <1>1, <1>3, <2>1, <2>5
  <2>6. CASE left < d
    <3>1. PICK k \in Nat \ {0} : CharAt(a, k) < CharAt(s, k)
      BY <1>3, <2>1, <2>6 DEF Sorted, InOrder
    <3>2. CharAt(a, k) \in Int /\ CharAt(a, k) >= -1 /\ CharAt(s, k) \in Int
      <4>1. CharAt(a, k) >= 0 \/ CharAt(a, k) = -1
        BY ONLY <1>3, a \in Seq(Nat), k \in Nat \ {0}, CharType
      <4>2. CharAt(a, k) \in Int /\ CharAt(s, k) \in Int
        BY CharType
      <4> QED BY <4>1, <4>2
    <3>3. CASE k \in 1 .. n
      <4>1. CharAt(a, k) = CharAt(s, k)
        BY <1>4, <2>2, <3>3
      <4> QED BY <3>1, <3>2, <4>1
    <3>4. CASE k \notin 1 .. n
      <4>1. CharAt(s, k) = -1
        BY <1>1, <3>4, CharType
      <4> QED BY <3>1, <3>2, <4>1
    <3> QED BY <3>3, <3>4
  <2> QED BY <2>4, <2>5, <2>6
<1> QED BY <1>1, <1>3, <1>5, <1>6

\* A transit by dictSeek finds the words that also have the next character.
LEMMA DictTransits ==
  ASSUME Sorted(dict), NEW a, IsAcceptor(a), a.type = "DICT", NEW read \in Seq(Nat), Len(read) = a.strOffset,
         Stands(a, read), NEW ch \in Nat, Cut!Accepts(a, ch), NEW next, next = Append(read, ch)
  PROVE  Finds(Cut!After(a, ch), next)
<1>1. PICK lo \in Nat \ {0}, hi \in 0 .. Len(dict), off \in Nat : lo = a.l /\ hi = a.r /\ off = a.strOffset
  BY DEF Stands, IsAcceptor
<1>2. lo <= hi + 1 /\ lo .. hi = {d \in DOMAIN dict : Cut!IsPrefix(read, dict[d])}
  BY <1>1 DEF Stands
<1>3. dict \in Seq(Seq(Nat)) /\ DOMAIN dict = 1 .. Len(dict) /\ DOMAIN dict \subseteq Nat
  BY DEF Sorted
<1>4. \A j, k \in lo .. hi : j < k => CharAt(dict[j], off + 1) <= CharAt(dict[k], off + 1)
  <2>1. ASSUME NEW j \in lo .. hi, NEW k \in lo .. hi, j < k
        PROVE  CharAt(dict[j], Len(read) + 1) <= CharAt(dict[k], Len(read) + 1)
    BY <1>2, <2>1, ColumnsInOrder
  <2> QED BY <1>1, <2>1
<1>5. PICK left : left = Cut!DictSeek(lo, hi, ch, off, "LEFT")
  OBVIOUS
<1>6. left # 0
  BY <1>1, <1>5 DEF Cut!Accepts
<1>7. /\ left \in lo .. hi /\ Wanted(left, ch, off)
      /\ \A k \in lo .. hi : Wanted(k, ch, off) => left <= k
  <2>1. PICK pos : pos = "LEFT"
    OBVIOUS
  <2> QED BY <1>2, <1>4, <1>5, <1>6, <2>1, SeekFinds
<1>8. left \in Nat \ {0} /\ left <= hi /\ left <= hi + 1 /\ left .. hi \subseteq lo .. hi /\ left \in left .. hi
  BY <1>7
<1>9. PICK right : right = Cut!DictSeek(left, hi, ch, off, "RIGHT")
  OBVIOUS
<1>10. /\ right \in left .. hi /\ Wanted(right, ch, off)
       /\ \A k \in left .. hi : Wanted(k, ch, off) => k <= right
  <2>1. PICK pos : pos = "RIGHT"
    OBVIOUS
  <2>2. \A j, k \in left .. hi : j < k => CharAt(dict[j], off + 1) <= CharAt(dict[k], off + 1)
    BY <1>4, <1>8
  <2>3. PICK first \in Nat \ {0} : first = left
    BY <1>8
  <2>4. /\ first <= hi + 1 /\ right = Cut!DictSeek(first, hi, ch, off, pos)
        /\ \A j, k \in first .. hi : j < k => CharAt(dict[j], off + 1) <= CharAt(dict[k], off + 1)
    BY <1>8, <1>9, <2>1, <2>2, <2>3
  <2>5. right # 0
    <3>1. right = 0 => \A k \in first .. hi : ~Wanted(k, ch, off)
      BY <2>4, SeekFinds
    <3> QED BY <1>7, <1>8, <2>3, <3>1
  <2>6. /\ right \in first .. hi /\ Wanted(right, ch, off)
        /\ \A k \in first .. hi : Wanted(k, ch, off) =>
             IF pos = "LEFT" THEN right <= k ELSE k <= right
    BY <2>4, <2>5, SeekFinds
  <2> QED BY <2>1, <2>3, <2>6
<1>11. PICK b : b = Cut!After(a, ch)
  OBVIOUS
<1>12. PICK final : final = (Len(dict[left]) = off + 1)
  OBVIOUS
<1>13. b = [a EXCEPT !.l = left, !.r = right, !.strOffset = off + 1, !.isFinal = final]
  <2>1. b = Cut!DictTransit(a, ch)
    BY <1>11 DEF Cut!After
  <2> QED BY <1>1, <1>5, <1>9, <1>12, <2>1 DEF Cut!DictTransit
<1>14. b.l = left /\ b.r = right /\ b.isFinal = final
  BY <1>13 DEF IsAcceptor
<1>15. PICK m \in Nat : m = off + 1
  OBVIOUS
<1>16. ASSUME NEW d \in DOMAIN dict
       PROVE  Cut!IsPrefix(next, dict[d]) <=> Cut!IsPrefix(read, dict[d]) /\ Wanted(d, ch, off)
  <2>1. dict[d] \in Seq(Nat)
    BY <1>3
  <2>2. PICK w : w = dict[d]
    OBVIOUS
  <2>3. Cut!IsPrefix(next, w) <=> Cut!IsPrefix(read, w) /\ CharAt(w, Len(read) + 1) = ch
    BY <2>1, <2>2, OneCharMore
  <2> QED BY <1>1, <2>2, <2>3 DEF Wanted
<1>17. next \in Seq(Nat) /\ Len(next) = m
  BY <1>1, <1>15, OneCharMore, AppendProperties
<1>18. ASSUME NEW d \in left .. right PROVE d \in DOMAIN dict /\ Cut!IsPrefix(next, dict[d])
  <2>1. d \in lo .. hi /\ left \in lo .. hi /\ right \in lo .. hi /\ left <= d /\ d <= right
    BY <1>7, <1>8, <1>10
  <2>2. d \in DOMAIN dict /\ Cut!IsPrefix(read, dict[d])
    BY <1>2, <2>1
  <2>3. CharAt(dict[left], off + 1) = ch /\ CharAt(dict[right], off + 1) = ch
    BY <1>7, <1>10 DEF Wanted
  <2>4. PICK c : c = CharAt(dict[d], off + 1)
    OBVIOUS
  <2>5. c \in Int
    <3>1. dict[d] \in Seq(Nat) /\ off + 1 \in Nat \ {0}
      BY <1>3, <2>2
    <3> QED BY <2>4, <3>1, CharType
  <2>6. left < d => ch <= c
    BY <1>4, <2>1, <2>3, <2>4
  <2>7. d < right => c <= ch
    BY <1>4, <2>1, <2>3, <2>4
  <2>8. left = d \/ d = right => c = ch
    BY <2>3, <2>4
  <2>9. c = ch
    BY <2>1, <2>5, <2>6, <2>7, <2>8
  <2> QED BY <1>16, <2>2, <2>4, <2>9 DEF Wanted
<1>19. ASSUME NEW d \in DOMAIN dict, Cut!IsPrefix(next, dict[d]) PROVE d \in left .. right
  <2>1. d \in lo .. hi /\ Wanted(d, ch, off)
    BY <1>2, <1>16, <1>19
  <2>2. left <= d
    BY <1>7, <2>1
  <2>3. d \in left .. hi
    BY <1>7, <2>1, <2>2
  <2>4. d <= right
    BY <1>10, <2>1, <2>3
  <2> QED BY <1>7, <1>10, <2>1, <2>2, <2>4
<1>20. left .. right = {d \in DOMAIN dict : Cut!IsPrefix(next, dict[d])}
  BY <1>18, <1>19
<1>21. right \in 0 .. Len(dict) /\ left <= right + 1
  BY <1>8, <1>10
<1>22. final <=> next \in Cut!Range(dict)
  <2>1. left \in DOMAIN dict /\ Cut!IsPrefix(next, dict[left])
    <3>1. left \in left .. right
      BY <1>8, <1>10
    <3> QED BY <1>18, <3>1
  <2>2. \A d \in DOMAIN dict : Cut!IsPrefix(next, dict[d]) => left <= d
    BY <1>19
  <2>3. Len(dict[left]) = Len(next) <=> next \in Cut!Range(dict)
    BY <1>17, <2>1, <2>2, FirstIsTheString
  <2> QED BY <1>12, <1>15, <1>17, <2>3
<1> QED BY <1>8, <1>11, <1>14, <1>20, <1>21, <1>22 DEF Finds, Stands

\* A new acceptor stands for all words.
LEMMA NewStands ==
  ASSUME Sorted(dict), NEW a, IsNew(a)
  PROVE  Stands(a, <<>>)
<1>1. dict \in Seq(Seq(Nat)) /\ DOMAIN dict = 1 .. Len(dict) /\ Len(dict) \in Nat
  BY DEF Sorted
<1>2. PICK s : s = <<>>
  OBVIOUS
<1>3. ASSUME NEW d \in DOMAIN dict PROVE Cut!IsPrefix(s, dict[d])
  <2>1. dict[d] \in Seq(Nat) /\ s \in Seq(Nat) /\ 1 .. Len(s) = {}
    BY <1>1, <1>2
  <2> QED BY <2>1, PrefixChars
<1>4. a.l = 1 /\ a.r = Len(dict)
  BY DEF IsNew
<1>5. a.l .. a.r = {d \in DOMAIN dict : Cut!IsPrefix(s, dict[d])}
  BY <1>1, <1>3, <1>4
<1> QED BY <1>1, <1>2, <1>4, <1>5 DEF Stands

\* What an acceptor of k characters has read of a text, and then reads.
LEMMA ReadOn ==
  ASSUME NEW s \in Seq(Nat), NEW n \in Nat, n < Len(s), NEW k \in 0 .. n,
         NEW read, read = SubSeq(s, n - k + 1, n),
         NEW next, next = Append(read, s[n + 1])
  PROVE  /\ read \in Seq(Nat) /\ Len(read) = k /\ (k = 0 => read = <<>>)
         /\ next = SubSeq(s, (n + 1) - (k + 1) + 1, n + 1)
<1>0. PICK length \in Nat : length = Len(s)
  OBVIOUS
<1>1. PICK from \in Nat, m \in Nat : from = n - k + 1 /\ m = n + 1 /\ length = Len(s)
  BY <1>0
<1>2. from >= 1 /\ from <= m /\ m <= length /\ from = m - (k + 1) + 1 /\ n = from + k - 1
  BY <1>1
<1>3. s[m] \in Nat
  BY <1>1, <1>2, ElementOfSeq
<1>4. read \in Seq(Nat) /\ Len(read) = k /\ \A j \in 1 .. k : read[j] = s[from + j - 1]
  BY <1>1, <1>2, SubSeqProperties
<1>5. k = 0 => read = <<>>
  BY <1>4
<1>6. /\ next \in Seq(Nat) /\ Len(next) = k + 1 /\ next[k + 1] = s[m]
      /\ \A j \in 1 .. k : next[j] = read[j]
  BY <1>1, <1>3, <1>4, AppendProperties
<1>7. PICK whole : whole = SubSeq(s, from, m)
  OBVIOUS
<1>8. whole \in Seq(Nat) /\ Len(whole) = k + 1 /\ \A j \in 1 .. k + 1 : whole[j] = s[from + j - 1]
  BY <1>1, <1>2, <1>7, SubSeqProperties
<1>9. ASSUME NEW j \in 1 .. k + 1 PROVE next[j] = whole[j]
  <2>1. CASE j \in 1 .. k
    BY <1>4, <1>6, <1>8, <2>1
  <2>2. CASE j = k + 1
    <3>1. from + j - 1 = m
      BY <1>2, <2>2
    <3> QED BY <1>6, <1>8, <2>2, <3>1
  <2>3. j \in 1 .. k \/ j = k + 1
    BY ONLY j \in 1 .. k + 1, k \in 0 .. n, n \in Nat
  <2> QED BY ONLY <2>1, <2>2, <2>3
<1>10. next = whole
  BY <1>6, <1>8, <1>9, SeqEqual
<1> QED BY <1>1, <1>2, <1>4, <1>5, <1>7, <1>10

\* What an acceptor knows after n characters of the text; every acceptor
\* knows this between two characters.
Knows(a, n) ==
  /\ IsAcceptor(a) /\ a.strOffset \in 0 .. n
  /\ a.type = "DICT" => Finds(a, SubSeq(text, n - a.strOffset + 1, n))
WordsInvariant ==
  /\ Sorted(dict) /\ text \in Seq(Nat) /\ i \in 0 .. Len(text)
  /\ \E S : current \in Seq(S) /\ \A a \in S : Knows(a, i)

\* An acceptor that accepts the next character knows this after it.
LEMMA KnowsOn ==
  ASSUME Sorted(dict), text \in Seq(Nat), NEW n \in Nat, n < Len(text),
         NEW a, Knows(a, n) \/ IsNew(a), Cut!Accepts(a, text[n + 1]), NEW b, b = Cut!After(a, text[n + 1])
  PROVE  Knows(b, n + 1)
<1>1. IsAcceptor(a) /\ a.strOffset \in 0 .. n
  BY DEF Knows, IsNew
<1>2. PICK k \in 0 .. n : k = a.strOffset
  BY <1>1
<1>3. IsAcceptor(b) /\ b.strOffset = k + 1 /\ b.type = a.type
  BY <1>1, <1>2, AfterAcceptor
<1>4. ASSUME a.type = "DICT" PROVE Finds(b, SubSeq(text, (n + 1) - (k + 1) + 1, n + 1))
  <2>1. PICK ch : ch = text[n + 1]
    OBVIOUS
  <2>2. ch \in Nat
    <3>1. PICK m \in Nat : m = n + 1
      OBVIOUS
    <3>2. m \in 1 .. Len(text)
      BY <3>1
    <3> QED BY <2>1, <3>1, <3>2, ElementOfSeq
  <2>3. PICK read, next : read = SubSeq(text, n - k + 1, n) /\ next = Append(read, ch)
    OBVIOUS
  <2>4. /\ read \in Seq(Nat) /\ Len(read) = k /\ (k = 0 => read = <<>>)
        /\ next = SubSeq(text, (n + 1) - (k + 1) + 1, n + 1)
    BY <2>1, <2>3, ReadOn
  <2>5. Stands(a, read)
    <3>1. CASE Knows(a, n)
      BY <1>2, <1>4, <2>3, <3>1 DEF Knows, Finds
    <3>2. CASE IsNew(a)
      <4>1. read = <<>>
        BY <1>2, <2>4, <3>2 DEF IsNew
      <4> QED BY <3>2, <4>1, NewStands
    <3> QED BY <3>1, <3>2
  <2>6. Cut!Accepts(a, ch) /\ b = Cut!After(a, ch)
    BY <2>1
  <2>7. Finds(b, next)
    BY <1>1, <1>2, <1>4, <2>2, <2>3, <2>4, <2>5, <2>6, DictTransits
  <2> QED BY <2>4, <2>7
<1>5. b.strOffset \in 0 .. n + 1
  BY <1>2, <1>3
<1> QED BY <1>3, <1>4, <1>5 DEF Knows

\* Every step of the segmenter keeps the invariant of its acceptors.
LEMMA WordsStep ==
  ASSUME SiteAssumption, WordsInvariant, Cut!Next \/ UNCHANGED cutVars
  PROVE  WordsInvariant'
<1>1. CASE Cut!Cut
  <2>1. text' \in FirstTexts \cup Texts /\ i' = 0 /\ current' = <<>> /\ dict' = dict
    BY <1>1 DEF Cut!Cut
  <2>2. text' \in Seq(Nat) /\ i' \in 0 .. Len(text')
    BY <2>1 DEF SiteAssumption
  <2>3. current' \in Seq({})
    BY <2>1
  <2>4. Sorted(dict')
    BY <2>1 DEF WordsInvariant
  <2> QED BY <2>2, <2>3, <2>4 DEF WordsInvariant
<1>2. CASE Cut!ReadCharacter
  <2>1. PICK n \in Nat : n = i
    BY DEF WordsInvariant
  <2>2. n < Len(text) /\ i' = n + 1 /\ UNCHANGED <<dict, text>>
    BY <1>2, <2>1 DEF Cut!ReadCharacter
  <2>3. PICK ch, next : ch = text[n + 1] /\ next = Cut!Transit(ch)
    OBVIOUS
  <2>4. current' = next
    BY <1>2, <2>1, <2>3 DEF Cut!ReadCharacter
  <2>5. PICK S : current \in Seq(S) /\ \A a \in S : Knows(a, n)
    BY <2>1 DEF WordsInvariant
  <2>6. PICK C : Cut!Created \in Seq(C) /\ \A a \in C : IsNew(a)
    BY CreatedAcceptors
  <2>7. PICK U : U = S \cup C
    OBVIOUS
  <2>8. PICK cur, created, all : cur = current /\ created = Cut!Created /\ all = cur \o created
    OBVIOUS
  <2>9. cur \in Seq(U) /\ created \in Seq(U)
    BY <2>5, <2>6, <2>7, <2>8, SeqMonotonic
  <2>10. all \in Seq(U)
    BY <2>8, <2>9, ConcatProperties
  <2>11. PICK T : T = {a \in Cut!Range(all) : Cut!Accepts(a, ch)}
    OBVIOUS
  <2>12. PICK accepting : accepting = Cut!Those(all, T)
    OBVIOUS
  <2>13. next = [k \in DOMAIN accepting |-> Cut!After(accepting[k], ch)]
    BY <2>3, <2>8, <2>11, <2>12 DEF Cut!Transit
  <2>14. accepting \in Seq(U \cap T)
    BY <2>10, <2>12, ThoseElements
  <2>15. PICK length \in Nat : length = Len(accepting)
    BY <2>14
  <2>16. DOMAIN accepting = 1 .. length /\ \A k \in 1 .. length : accepting[k] \in U \cap T
    BY <2>14, <2>15
  <2>17. PICK V : V = {Cut!After(a, ch) : a \in U \cap T}
    OBVIOUS
  <2>18. next \in [1 .. length -> V]
    BY <2>13, <2>16, <2>17
  <2>19. next \in Seq(V)
    BY ONLY <2>18, length \in Nat
  <2>20. PICK m \in Nat : m = n + 1
    OBVIOUS
  <2>21. ASSUME NEW b \in V PROVE Knows(b, m)
    <3>1. PICK a \in U \cap T : b = Cut!After(a, ch)
      BY <2>17
    <3>2. (Knows(a, n) \/ IsNew(a)) /\ Cut!Accepts(a, ch)
      BY <2>5, <2>6, <2>7, <2>11, <3>1
    <3>3. Sorted(dict) /\ text \in Seq(Nat)
      BY DEF WordsInvariant
    <3> QED BY <2>2, <2>3, <2>20, <3>1, <3>2, <3>3, KnowsOn
  <2>22. ASSUME NEW b \in V PROVE Knows(b, m)'
    <3>1. Knows(b, m)
      BY <2>21
    <3> QED BY <2>2, <3>1 DEF Knows, Finds, Stands
  <2>23. i' = m /\ i' \in 0 .. Len(text')
    BY <2>2, <2>20 DEF WordsInvariant
  <2>24. current' \in Seq(V) /\ \A a \in V : Knows(a, i)'
    BY <2>4, <2>19, <2>22, <2>23
  <2>25. Sorted(dict') /\ text' \in Seq(Nat)
    BY <2>2 DEF WordsInvariant
  <2> QED BY <2>23, <2>24, <2>25 DEF WordsInvariant
<1>3. CASE UNCHANGED <<dict, text, i, current>>
  BY <1>3 DEF WordsInvariant, Knows, Finds, Stands
<1>4. CASE Cut!BuildRanges \/ Cut!AddRange \/ Cut!Return \/ Cut!Finished \/ UNCHANGED cutVars
  <2>1. UNCHANGED <<dict, text, i, current>>
    BY <1>4 DEF Cut!BuildRanges, Cut!AddRange, Cut!Return, Cut!Finished, Cut!vars, cutVars
  <2> QED BY <1>3, <2>1
<1> QED BY <1>1, <1>2, <1>4 DEF Cut!Next

\* It holds at first.
LEMMA WordsStart == ASSUME SiteAssumption, Cut!Init PROVE WordsInvariant
<1>1. Sorted(dict)
  BY DictionarySorted DEF Cut!Init
<1>2. text = <<>> /\ i = 0 /\ current = <<>>
  BY DEF Cut!Init
<1>3. current \in Seq({}) /\ text \in Seq(Nat) /\ i \in 0 .. Len(text)
  BY <1>2
<1> QED BY <1>1, <1>3 DEF WordsInvariant

\* It says that the acceptors have found the words.
LEMMA WordsFound == ASSUME WordsInvariant PROVE Cut!AcceptorsFindWords
<1>1. PICK S : current \in Seq(S) /\ \A a \in S : Knows(a, i)
  BY DEF WordsInvariant
<1>2. ASSUME NEW k \in DOMAIN current, NEW a, a = current[k], NEW read,
             read = SubSeq(text, i - a.strOffset + 1, i), a.type = "DICT"
      PROVE  /\ a.l .. a.r = {d \in DOMAIN dict : Cut!IsPrefix(read, dict[d])}
             /\ a.isFinal <=> read \in Cut!Range(dict)
  <2>1. a \in S
    BY <1>1, <1>2
  <2>2. Finds(a, read)
    BY <1>1, <1>2, <2>1 DEF Knows
  <2> QED BY <2>2 DEF Finds, Stands
<1> QED BY <1>2 DEF Cut!AcceptorsFindWords

-----------------------------------------------------------------------------
(* The theorems.                                                            *)

StateInvariant == CutInvariant /\ WordsInvariant /\ TinyInvariant /\ TicksInvariant /\ EmitterInvariant

\* The invariants of the parts hold together.
LEMMA StateInvariantHolds == StateSpec => []StateInvariant
<1>1. StateInit => StateInvariant
  BY CutStart, WordsStart, TinyStart, TicksStart, EmitterStart, SiteAssumption DEF StateInit, StateInvariant
<1>2. StateInvariant /\ [StateNext]_stateVars => StateInvariant'
  <2> SUFFICES ASSUME StateInvariant, [StateNext]_stateVars PROVE StateInvariant'
    OBVIOUS
  <2>1. /\ Cut!Next \/ UNCHANGED cutVars
        /\ Tiny!Next \/ UNCHANGED tinyVars
        /\ Ticks!Next \/ UNCHANGED tickVars
        /\ Emitter!Next \/ UNCHANGED eventVars
    BY DEF StateNext, OfTicks, stateVars
  <2>2. CutInvariant'
    BY <2>1, CutStep, SiteAssumption DEF StateInvariant
  <2>3. WordsInvariant'
    BY <2>1, WordsStep, SiteAssumption DEF StateInvariant
  <2>4. TinyInvariant'
    BY <2>1, TinyStep DEF StateInvariant
  <2>5. TicksInvariant'
    BY <2>1, TicksStep DEF StateInvariant
  <2>6. EmitterInvariant'
    BY <2>1, EmitterStep DEF StateInvariant
  <2> QED BY <2>2, <2>3, <2>4, <2>5, <2>6 DEF StateInvariant
<1> QED BY <1>1, <1>2, PTL DEF StateSpec

\* The ranges of wordcut.js are not empty, follow each other and cover the
\* text; the words of tinyseg.js are not empty and make up the input.  For
\* every dictionary, text and table.
THEOREM SegmentersLoseNothing == StateSpec => []SegmentersKeepText
<1>1. StateInvariant => SegmentersKeepText
  BY CutCovers, TinyJoins DEF StateInvariant, SegmentersKeepText
<1> QED BY <1>1, StateInvariantHolds, PTL

\* An acceptor of the dictionary of wordcut.js stands for exactly the words
\* that start with what it has read, and is final if that is a word: the binary
\* searches by character, in a dictionary sorted by whole words, miss none.
\* For every dictionary and text.
THEOREM AcceptorsAgree == StateSpec => []Cut!AcceptorsFindWords
<1>1. StateInvariant => Cut!AcceptorsFindWords
  BY WordsFound DEF StateInvariant
<1> QED BY <1>1, StateInvariantHolds, PTL

\* process.nextTick runs its items once each and in order, whichever throw;
\* a wrapper of once calls its function once, however emits are nested.
THEOREM CallbacksAreInOrder == StateSpec => []CallbacksInOrder
<1>1. StateInvariant => CallbacksInOrder
  BY TicksInOrder, EmitterOnce DEF StateInvariant, CallbacksInOrder
<1> QED BY <1>1, StateInvariantHolds, PTL
=============================================================================
