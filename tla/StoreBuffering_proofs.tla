----------------------- MODULE StoreBuffering_proofs ------------------------
(***************************************************************************)
(* The harness keeps its trials apart, and seq_cst forbids the both-zero   *)
(* outcome, for any number of warm-up and of measured trials.              *)
(*                                                                         *)
(* The invariant says where the three threads can be together (Phases,     *)
(* InStep, Arrivals), what is left in each store buffer and what of it is  *)
(* in memory (MainStores, WorkerStores), what main finds after the end     *)
(* barrier (Results), and what it has counted (Counts).  Its heart is      *)
(* SeqCst: a worker that has loaded behind its fence has its store in      *)
(* memory, so of two workers the second to load finds the first's.         *)
(***************************************************************************)
EXTENDS StoreBuffering, ProofLemmas

Own(w) == IF w = 0 THEN "x" ELSE "y"
Other(w) == IF w = 0 THEN "y" ELSE "x"
Res(w) == IF w = 0 THEN "r0" ELSE "r1"

-----------------------------------------------------------------------------
(* The inductive invariant.                                                 *)

Data ==
  /\ mode \in Modes
  /\ memory \in [Locations -> {-1, 0, 1}]
  /\ buffer = [t \in Threads |-> buffer[t]]
  /\ v \in [Workers -> {0, 1}]
  /\ counts \in [Outcomes -> Nat]
  /\ failed = FALSE

\* The workers are inside a trial exactly while main waits for its end.
Phases ==
  /\ pc \in [Threads -> Pcs]
  /\ pc[Main] \in {"reset", "start", "end", "count", "done"}
  /\ \A w \in Workers :
       /\ pc[Main] = "end" => pc[w] \in InTrial \cup {"end"}
       /\ pc[Main] # "end" => pc[w] \in {"next", "start", "done"}
       /\ pc[Main] = "done" => pc[w] = "done"

\* A worker is in main's trial, or one behind or ahead of it between two
\* trials.
Round == IF pc[Main] = "count" THEN trial[Main] + 1 ELSE trial[Main]
InStep ==
  /\ trial \in [Threads -> -1 .. Trials]
  /\ trial[Main] \in 0 .. Trials
  /\ pc[Main] \in {"start", "end", "count"} => trial[Main] < Trials
  /\ pc[Main] = "done" => trial[Main] = Trials
  /\ \A w \in Workers :
       /\ pc[w] = "next" => trial[w] = Round - 1
       /\ pc[w] # "next" => trial[w] = Round
       /\ pc[w] = "start" => Round < Trials
       /\ pc[w] = "done" => Round = Trials

\* Who waits at a barrier is in front of it, and has no store pending.
Arrivals ==
  /\ arrived \in [Barriers -> SUBSET Threads]
  /\ \A b \in Barriers : \A t \in arrived[b] : pc[t] = b /\ Drained(t)

\* The resets of x and y reach memory before main passes the start barrier.
ResetX == memory["x"] = 0
ResetXY == memory["x"] = 0 /\ memory["y"] = 0
MainStores ==
  /\ pc[Main] # "start" => Drained(Main)
  /\ pc[Main] = "start" =>
       \/ buffer[Main] = << <<"x", 0>>, <<"y", 0>>, <<"r0", -1>>, <<"r1", -1>> >>
       \/ ResetX /\ buffer[Main] = << <<"y", 0>>, <<"r0", -1>>, <<"r1", -1>> >>
       \/ ResetXY /\ buffer[Main] = << <<"r0", -1>>, <<"r1", -1>> >>
       \/ ResetXY /\ buffer[Main] = << <<"r1", -1>> >>
       \/ ResetXY /\ Drained(Main)

\* A worker's store, then its result, reach memory.
WorkerStores ==
  \A w \in Workers :
    /\ pc[w] \in {"next", "start", "done", "store"} => Drained(w)
    /\ pc[w] = "store" => memory[Own(w)] = 0
    /\ pc[w] \in {"load", "result"} =>
         \/ memory[Own(w)] = 0 /\ buffer[w] = << <<Own(w), 1>> >>
         \/ memory[Own(w)] = 1 /\ Drained(w)
    /\ pc[w] = "end" =>
         \/ memory[Own(w)] = 0 /\ buffer[w] = << <<Own(w), 1>>, <<Res(w), v[w]>> >>
         \/ memory[Own(w)] = 1 /\ buffer[w] = << <<Res(w), v[w]>> >>
         \/ memory[Own(w)] = 1 /\ memory[Res(w)] = v[w] /\ Drained(w)

\* Main counts the two results of the trial.
Results == pc[Main] = "count" => \A w \in Workers : memory[Res(w)] = v[w]

\* With the fences, the later of the two loads finds a store.
HasLoaded(w) == pc[w] \in {"result", "end"}
SeqCst ==
  mode = "seqcst" =>
    /\ \A w \in Workers : HasLoaded(w) => memory[Own(w)] = 1
    /\ (\A w \in Workers : HasLoaded(w)) \/ pc[Main] = "count" => v[0] = 1 \/ v[1] = 1
    /\ counts[<<0, 0>>] = 0

\* Main has counted the measured trials it has been through.
MeasuredTrials == IF trial[Main] > Warmup THEN trial[Main] - Warmup ELSE 0
Counts == SumFunction(counts) = MeasuredTrials

HarnessInvariant ==
  /\ Data /\ Phases /\ InStep /\ Arrivals /\ MainStores /\ WorkerStores
  /\ Results /\ SeqCst /\ Counts

-----------------------------------------------------------------------------
(* Threads and buffers.                                                     *)

\* The three threads, and that the two workers use locations of their own.
LEMMA TheThreads ==
  /\ Threads = {0, 1, 2} /\ Workers = {0, 1} /\ Main = 2
  /\ \A w \in Workers : w \in Threads /\ w # Main
  /\ \A w \in Workers : {Own(w), Other(w), Res(w)} \subseteq Locations
  /\ \A w \in Workers : Own(w) # Other(w) /\ Own(w) # Res(w)
  /\ \A w, u \in Workers : u # w => /\ Own(u) = Other(w) /\ Own(u) # Own(w) /\ Own(u) # Res(w)
                                    /\ Res(u) # Res(w) /\ Res(u) # Own(w)
BY DEF Threads, Workers, Main, Own, Other, Res, Locations

\* The two numbers of trials.
LEMMA TheTrials ==
  Iterations \in Nat /\ Warmup \in Nat /\ Trials \in Nat /\ Trials = Warmup + Iterations
  /\ WorkerTrials = Trials
BY TrialsAssumption DEF Trials, WorkerTrials

\* A sequence of length two is the pair of its elements.
LEMMA TwoLong ==
  ASSUME NEW S, NEW s \in Seq(S), Len(s) = 2 PROVE s = <<s[1], s[2]>>
<1>1. PICK a, b : a = s[1] /\ b = s[2]
  OBVIOUS
<1>2. <<a, b>> \in [1 .. 2 -> {a, b}] /\ <<a, b>>[1] = a /\ <<a, b>>[2] = b
  OBVIOUS
<1>3. \A k \in 1 .. 2 : s[k] = <<a, b>>[k]
  <2>1. \A k \in 1 .. 2 : k = 1 \/ k = 2
    OBVIOUS
  <2> QED BY <1>1, <1>2, <2>1
<1>4. [k \in 1 .. 2 |-> s[k]] = [k \in 1 .. 2 |-> <<a, b>>[k]]
  BY <1>3, Zenon
<1>5. s = [k \in 1 .. 2 |-> s[k]] /\ <<a, b>> = [k \in 1 .. 2 |-> <<a, b>>[k]]
  BY <1>2
<1> QED BY <1>1, <1>4, <1>5, Zenon

\* There are four outcomes.
LEMMA FiniteOutcomes == IsFiniteSet(Outcomes)
<1>1. IsFiniteSet({0, 1})
  <2>1. PICK a \in Int, b \in Int : a = 0 /\ b = 1
    OBVIOUS
  <2>2. IsFiniteSet(a .. b)
    BY FS_Interval
  <2>3. a .. b = {0, 1}
    BY <2>1
  <2> QED BY <2>2, <2>3
<1> QED BY <1>1, FS_Product DEF Outcomes

\* The buffers that occur have at most four stores.
LEMMA ShortBuffers ==
  /\ \A a : Append(<<>>, a) = <<a>> /\ Head(<<a>>) = a /\ Tail(<<a>>) = <<>> /\ <<a>> # <<>>
  /\ \A a, b : /\ Append(<<a>>, b) = <<a, b>> /\ Head(<<a, b>>) = a
               /\ Tail(<<a, b>>) = <<b>> /\ <<a, b>> # <<>>
  /\ \A a, b, c : Head(<<a, b, c>>) = a /\ Tail(<<a, b, c>>) = <<b, c>> /\ <<a, b, c>> # <<>>
  /\ \A a, b, c, d : /\ Head(<<a, b, c, d>>) = a /\ Tail(<<a, b, c, d>>) = <<b, c, d>>
                     /\ <<a, b, c, d>> # <<>> /\ <<>> \o <<a, b, c, d>> = <<a, b, c, d>>
<1>1. \A a : Append(<<>>, a) = <<a>> /\ Head(<<a>>) = a /\ Tail(<<a>>) = <<>> /\ <<a>> # <<>>
  OBVIOUS
<1>2. \A a, b : /\ Append(<<a>>, b) = <<a, b>> /\ Head(<<a, b>>) = a
                /\ Tail(<<a, b>>) = <<b>> /\ <<a, b>> # <<>>
  <2> TAKE a, b
  <2>1. Head(<<a, b>>) = a /\ <<a, b>> # <<>>
    OBVIOUS
  <2>2. Tail(<<a, b>>) = <<b>>
    OBVIOUS
  <2>3. Append(<<a>>, b) = <<a, b>>
    <3>0. <<a>> \in Seq({a, b}) /\ Len(<<a>>) = 1
      OBVIOUS
    <3>1. PICK s \in Seq({a, b}) : s = <<a>> /\ Len(s) = 1
      BY <3>0
    <3>2. Append(s, b) \in Seq({a, b}) /\ Len(Append(s, b)) = 2
      BY <3>1
    <3>3. Append(s, b)[1] = a /\ Append(s, b)[2] = b
      BY <3>1
    <3>4. \A S : \A t \in Seq(S) : Len(t) = 2 => t = <<t[1], t[2]>>
      BY TwoLong
    <3> QED BY <3>1, <3>2, <3>3, <3>4
  <2> QED BY <2>1, <2>2, <2>3
<1>3. \A a, b, c : Head(<<a, b, c>>) = a /\ Tail(<<a, b, c>>) = <<b, c>> /\ <<a, b, c>> # <<>>
  <2> TAKE a, b, c
  <2>1. Head(<<a, b, c>>) = a /\ <<a, b, c>> # <<>>
    OBVIOUS
  <2>2. Tail(<<a, b, c>>) = <<b, c>>
    OBVIOUS
  <2> QED BY <2>1, <2>2
<1>4. \A a, b, c, d : /\ Head(<<a, b, c, d>>) = a /\ Tail(<<a, b, c, d>>) = <<b, c, d>>
                      /\ <<a, b, c, d>> # <<>> /\ <<>> \o <<a, b, c, d>> = <<a, b, c, d>>
  <2> TAKE a, b, c, d
  <2>1. Head(<<a, b, c, d>>) = a /\ <<a, b, c, d>> # <<>>
    OBVIOUS
  <2>2. Tail(<<a, b, c, d>>) = <<b, c, d>>
    OBVIOUS
  <2>3. \A S : \A s \in Seq(S) : <<>> \o s = s
    OBVIOUS
  <2>4. <<a, b, c, d>> \in Seq({a, b, c, d})
    OBVIOUS
  <2>5. <<>> \o <<a, b, c, d>> = <<a, b, c, d>>
    BY <2>3, <2>4
  <2> QED BY <2>1, <2>2, <2>5
<1> QED BY <1>1, <1>2, <1>3, <1>4

\* What such a buffer holds.
Holds(b, S) == Len(b) <= 4 /\ \A k \in DOMAIN b : b[k] \in S
\* Pairs, triples and quadruples of stores are such.
LEMMA ShortHolds ==
  ASSUME NEW S
  PROVE  /\ Holds(<<>>, S) /\ \A z \in S : Holds(<<z>>, S)
         /\ \A y, z \in S : Holds(<<y, z>>, S)
         /\ \A x, y, z \in S : Holds(<<x, y, z>>, S)
         /\ \A w, x, y, z \in S : Holds(<<w, x, y, z>>, S)
<1>1. Holds(<<>>, S) /\ \A z \in S : Holds(<<z>>, S)
  BY DEF Holds
<1>2. \A y, z \in S : Holds(<<y, z>>, S)
  BY DEF Holds
<1>3. \A x, y, z \in S : Holds(<<x, y, z>>, S)
  BY DEF Holds
<1>4. \A w, x, y, z \in S : Holds(<<w, x, y, z>>, S)
  BY DEF Holds
<1> QED BY <1>1, <1>2, <1>3, <1>4

\* A load sees memory unless its own thread's store to that location waits.
LEMMA LoadsMemory ==
  ASSUME NEW t, NEW loc, NEW other, NEW val, other # loc,
         buffer[t] = <<>> \/ buffer[t] = << <<other, val>> >>
  PROVE  Load(t, loc) = memory[loc]
<1> DEFINE mine == {k \in DOMAIN buffer[t] : buffer[t][k][1] = loc}
<1>1. mine = {}
  <2>1. CASE buffer[t] = <<>>
    BY <2>1
  <2>2. CASE buffer[t] = << <<other, val>> >>
    BY <2>2
  <2> QED BY <2>1, <2>2
<1> QED BY <1>1 DEF Load

\* What a worker's load returns is in memory: the other worker's store, or not
\* yet.
LEMMA LoadOfOther ==
  ASSUME HarnessInvariant, NEW w \in Workers, pc[w] = "load"
  PROVE  Load(w, Other(w)) = memory[Other(w)] /\ memory[Other(w)] \in {0, 1}
<1> USE TheThreads DEF HarnessInvariant
<1>1. PICK u \in Workers : u # w
  OBVIOUS
<1>2. pc[Main] = "end" /\ pc[u] \in {"store", "load", "result", "end"}
  BY DEF Phases, InTrial
<1>3. memory[Own(u)] \in {0, 1}
  BY <1>2 DEF WorkerStores
<1>4. Drained(w) \/ buffer[w] = << <<Own(w), 1>> >>
  BY DEF WorkerStores
<1>5. Load(w, Other(w)) = memory[Other(w)]
  <2>1. PICK own, other, one : own = Own(w) /\ other = Other(w) /\ own # other /\ one = 1
    OBVIOUS
  <2>2. buffer[w] = <<>> \/ buffer[w] = << <<own, one>> >>
    BY <1>4, <2>1 DEF Drained
  <2>3. Load(w, other) = memory[other]
    BY ONLY <2>1, <2>2, LoadsMemory, Zenon
  <2> QED BY <2>1, <2>3
<1> QED BY <1>1, <1>3, <1>5

\* The last thread to arrive at a barrier finds the others there.
LEMMA Waits ==
  ASSUME HarnessInvariant, NEW t \in Threads, NEW b \in Barriers, NEW after,
         BarrierWait(t, b, after)
  PROVE  \/ /\ pc' = pc /\ arrived' = [arrived EXCEPT ![b] = @ \cup {t}]
            /\ pc[t] = b /\ Drained(t)
         \/ /\ arrived' = [arrived EXCEPT ![b] = {}]
            /\ \A u \in Threads : pc[u] = b /\ Drained(u)
            /\ pc' = [u \in Threads |-> after[u]]
<1>1. pc[t] = b /\ Drained(t) /\ arrived[b] \subseteq Threads
      /\ \A u \in arrived[b] : pc[u] = b /\ Drained(u)
  BY DEF BarrierWait, HarnessInvariant, Arrivals
<1>2. CASE LastToArrive(b, t)
  <2>1. arrived[b] \cup {t} = Threads
    BY <1>2 DEF LastToArrive
  <2> QED BY <1>1, <1>2, <2>1 DEF BarrierWait
<1>3. CASE ~LastToArrive(b, t)
  BY <1>1, <1>3 DEF BarrierWait
<1> QED BY <1>2, <1>3

-----------------------------------------------------------------------------
(* The workers' steps.                                                      *)

\* A thread that goes on is the only one that does.
LEMMA GotoPc ==
  ASSUME HarnessInvariant, NEW t \in Threads, NEW to \in Pcs, Goto(t, to)
  PROVE  /\ pc' \in [Threads -> Pcs] /\ pc'[t] = to
         /\ \A u \in Threads : u # t => pc'[u] = pc[u]
BY DEF HarnessInvariant, Phases, Goto

\* A worker takes up main's next trial, or is done.
LEMMA NextTrialStep ==
  ASSUME HarnessInvariant, NEW w \in Workers, NextTrial(w) PROVE HarnessInvariant'
<1> USE TheThreads, TheTrials DEF HarnessInvariant
<1>1. PICK to \in {"start", "done"} :
        /\ Goto(w, to) /\ (to = "start" <=> trial[w] + 1 < Trials)
        /\ trial' = [trial EXCEPT ![w] = @ + 1] /\ pc[w] = "next"
        /\ UNCHANGED <<mode, memory, buffer, v, arrived, counts, failed>>
  BY DEF NextTrial
<1>2. /\ pc' \in [Threads -> Pcs] /\ pc'[w] = to
      /\ \A u \in Threads : u # w => pc'[u] = pc[u]
  <2>1. to \in Pcs /\ w \in Threads
    BY DEF Pcs, Barriers
  <2> QED BY <1>1, <2>1, GotoPc
<1>3. Data'
  BY <1>1 DEF Data
<1>4. Phases'
  BY <1>1, <1>2 DEF Phases, InTrial
<1>5. InStep'
  <2>1. Round' = Round /\ trial[w] + 1 = Round /\ Round <= Trials
    BY <1>1, <1>2 DEF Round, InStep, Phases
  <2>2. trial'[w] = Round /\ \A u \in Threads : u # w => trial'[u] = trial[u]
    BY <1>1, <2>1 DEF InStep
  <2>3. trial' \in [Threads -> -1 .. Trials]
    BY <1>1, <2>1 DEF InStep
  <2>4. Round \in Nat /\ (to = "start" => Round < Trials) /\ (to = "done" => Round = Trials)
    BY <1>1, <2>1 DEF InStep, Round
  <2>5. /\ trial'[Main] \in 0 .. Trials
        /\ pc'[Main] \in {"start", "end", "count"} => trial'[Main] < Trials
        /\ pc'[Main] = "done" => trial'[Main] = Trials
    BY <1>2, <2>2 DEF InStep
  <2>6. /\ pc'[w] # "next" /\ trial'[w] = Round
        /\ pc'[w] = "start" => Round < Trials
        /\ pc'[w] = "done" => Round = Trials
    BY <1>2, <2>2, <2>4
  <2> QED BY <1>2, <2>1, <2>2, <2>3, <2>5, <2>6 DEF InStep
<1>6. Arrivals'
  BY <1>1, <1>2 DEF Arrivals, Barriers, Drained
<1>7. MainStores' /\ Results'
  BY <1>1, <1>2 DEF MainStores, Results, Drained, ResetX, ResetXY
<1>8. WorkerStores'
  BY <1>1, <1>2 DEF WorkerStores, Drained
<1>9. SeqCst' /\ Counts'
  BY <1>1, <1>2 DEF SeqCst, Counts, HasLoaded, MeasuredTrials
<1> QED BY <1>3, <1>4, <1>5, <1>6, <1>7, <1>8, <1>9

\* The store of a worker goes to its buffer.
LEMMA StoreOwnStep ==
  ASSUME HarnessInvariant, NEW w \in Workers, StoreOwn(w) PROVE HarnessInvariant'
<1> USE TheThreads, TheTrials DEF HarnessInvariant
<1>1. /\ Goto(w, "load") /\ pc[w] = "store"
      /\ buffer' = [buffer EXCEPT ![w] = Append(@, <<Own(w), 1>>)]
      /\ UNCHANGED <<mode, memory, trial, v, arrived, counts, failed>>
  BY DEF StoreOwn, Store, Own
<1>2. /\ pc' \in [Threads -> Pcs] /\ pc'[w] = "load"
      /\ \A u \in Threads : u # w => pc'[u] = pc[u]
  BY <1>1, GotoPc DEF Pcs, Barriers
<1>3. /\ buffer' = [t \in Threads |-> buffer'[t]] /\ buffer'[w] = << <<Own(w), 1>> >>
      /\ \A u \in Threads : u # w => buffer'[u] = buffer[u]
  <2>1. buffer[w] = <<>>
    BY <1>1 DEF WorkerStores, Drained
  <2>2. /\ buffer' = [t \in Threads |-> buffer'[t]] /\ buffer'[w] = Append(<<>>, <<Own(w), 1>>)
        /\ \A u \in Threads : u # w => buffer'[u] = buffer[u]
    BY <1>1, <2>1 DEF Data
  <2> QED BY <2>2, ShortBuffers
<1>4. Data'
  BY <1>1, <1>3 DEF Data
<1>5. Phases' /\ InStep'
  BY <1>1, <1>2 DEF Phases, InTrial, InStep, Round
<1>6. Arrivals'
  BY <1>1, <1>2, <1>3 DEF Arrivals, Barriers, Drained
<1>7. MainStores' /\ Results'
  BY <1>1, <1>2, <1>3 DEF MainStores, Results, Drained, ResetX, ResetXY
<1>8. WorkerStores'
  BY <1>1, <1>2, <1>3 DEF WorkerStores, Drained
<1>9. SeqCst' /\ Counts'
  BY <1>1, <1>2 DEF SeqCst, Counts, HasLoaded, MeasuredTrials
<1> QED BY <1>4, <1>5, <1>6, <1>7, <1>8, <1>9

\* The load of a worker: behind a fence its store is in memory, and so is that
\* of a worker that has loaded before.
LEMMA LoadOtherStep ==
  ASSUME HarnessInvariant, NEW w \in Workers, LoadOther(w) PROVE HarnessInvariant'
<1> USE TheThreads, TheTrials DEF HarnessInvariant
<1>1. /\ Goto(w, "result") /\ pc[w] = "load"
      /\ mode = "seqcst" => Drained(w)
      /\ v' = [v EXCEPT ![w] = Load(w, Other(w))]
      /\ UNCHANGED <<mode, memory, buffer, trial, arrived, counts, failed>>
  BY DEF LoadOther, Other, Fenced
<1>2. /\ pc' \in [Threads -> Pcs] /\ pc'[w] = "result"
      /\ \A u \in Threads : u # w => pc'[u] = pc[u]
  BY <1>1, GotoPc DEF Pcs, Barriers
<1>3. v'[w] = memory[Other(w)] /\ v'[w] \in {0, 1} /\ \A u \in Workers : u # w => v'[u] = v[u]
  BY <1>1, LoadOfOther DEF Data
<1>4. Data'
  BY <1>1, <1>3, LoadOfOther DEF Data
<1>5. Phases' /\ InStep'
  BY <1>1, <1>2 DEF Phases, InTrial, InStep, Round
<1>6. Arrivals'
  BY <1>1, <1>2, <1>3 DEF Arrivals, Barriers, Drained
<1>7. MainStores' /\ Results'
  BY <1>1, <1>2, <1>3 DEF MainStores, Results, Drained, ResetX, ResetXY, Phases
<1>8. WorkerStores'
  BY <1>1, <1>2, <1>3 DEF WorkerStores, Drained
<1>9. Counts'
  BY <1>1 DEF Counts, MeasuredTrials
<1>10. SeqCst'
  <2> SUFFICES ASSUME mode = "seqcst" PROVE SeqCst'
    BY <1>1 DEF SeqCst
  <2>1. memory[Own(w)] = 1
    BY <1>1, ShortBuffers DEF WorkerStores, Drained
  <2>2. \A u \in Workers : u # w /\ HasLoaded(u) => v'[w] = 1
    BY <1>3 DEF SeqCst
  <2>3. pc'[Main] # "count"
    BY <1>1, <1>2 DEF Phases
  <2>4. (\A u \in Workers : HasLoaded(u)') => v'[w] = 1
    BY <1>2, <2>2 DEF HasLoaded
  <2> QED BY <1>1, <1>2, <2>1, <2>3, <2>4 DEF SeqCst, HasLoaded
<1> QED BY <1>4, <1>5, <1>6, <1>7, <1>8, <1>9, <1>10

\* The store of the result goes behind that of the worker, if it still waits.
LEMMA StoreResultStep ==
  ASSUME HarnessInvariant, NEW w \in Workers, StoreResult(w) PROVE HarnessInvariant'
<1> USE TheThreads, TheTrials DEF HarnessInvariant
<1>1. /\ Goto(w, "end") /\ pc[w] = "result"
      /\ buffer' = [buffer EXCEPT ![w] = Append(@, <<Res(w), v[w]>>)]
      /\ UNCHANGED <<mode, memory, trial, v, arrived, counts, failed>>
  BY DEF StoreResult, Store, Res
<1>2. /\ pc' \in [Threads -> Pcs] /\ pc'[w] = "end"
      /\ \A u \in Threads : u # w => pc'[u] = pc[u]
  BY <1>1, GotoPc DEF Pcs, Barriers
<1>3. /\ buffer' = [t \in Threads |-> buffer'[t]] /\ buffer'[w] = Append(buffer[w], <<Res(w), v[w]>>)
      /\ \A u \in Threads : u # w => buffer'[u] = buffer[u]
  BY <1>1 DEF Data
<1>4. \/ memory[Own(w)] = 0 /\ buffer'[w] = << <<Own(w), 1>>, <<Res(w), v[w]>> >>
      \/ memory[Own(w)] = 1 /\ buffer'[w] = << <<Res(w), v[w]>> >>
  <2>1. \/ memory[Own(w)] = 0 /\ buffer[w] = << <<Own(w), 1>> >>
        \/ memory[Own(w)] = 1 /\ buffer[w] = <<>>
    BY <1>1 DEF WorkerStores, Drained
  <2>2. PICK a, b : a = <<Own(w), 1>> /\ b = <<Res(w), v[w]>>
    OBVIOUS
  <2>3. Append(<<>>, b) = <<b>> /\ Append(<<a>>, b) = <<a, b>>
    BY ShortBuffers
  <2> QED BY <1>3, <2>1, <2>2, <2>3
<1>5. Data'
  BY <1>1, <1>3 DEF Data
<1>6. Phases' /\ InStep'
  BY <1>1, <1>2 DEF Phases, InTrial, InStep, Round
<1>7. Arrivals'
  BY <1>1, <1>2, <1>3 DEF Arrivals, Barriers, Drained
<1>8. MainStores' /\ Results'
  BY <1>1, <1>2, <1>3 DEF MainStores, Results, Drained, ResetX, ResetXY
<1>9. WorkerStores'
  BY <1>1, <1>2, <1>3, <1>4 DEF WorkerStores, Drained
<1>10. SeqCst' /\ Counts'
  BY <1>1, <1>2 DEF SeqCst, Counts, HasLoaded, MeasuredTrials
<1> QED BY <1>5, <1>6, <1>7, <1>8, <1>9, <1>10

-----------------------------------------------------------------------------
(* The barriers.                                                            *)

\* To arrive at a barrier changes nothing else.
LEMMA ArriveStep ==
  ASSUME HarnessInvariant, NEW t \in Threads, NEW b \in Barriers,
         arrived' = [arrived EXCEPT ![b] = @ \cup {t}], pc[t] = b, Drained(t),
         UNCHANGED <<mode, memory, buffer, pc, trial, v, counts, failed>>
  PROVE  HarnessInvariant'
<1> USE DEF HarnessInvariant
<1>1. Data' /\ Phases' /\ InStep'
  BY DEF Data, Phases, InStep, Round
<1>2. Arrivals'
  BY DEF Arrivals, Drained
<1>3. MainStores' /\ WorkerStores' /\ Results'
  BY DEF MainStores, WorkerStores, Results, Drained, ResetX, ResetXY
<1>4. SeqCst' /\ Counts'
  BY DEF SeqCst, Counts, HasLoaded, MeasuredTrials
<1> QED BY <1>1, <1>2, <1>3, <1>4

\* The start barrier opens on a trial whose locations are reset.
LEMMA StartBarrierStep ==
  ASSUME HarnessInvariant, NEW t \in Threads, StartBarrier(t) PROVE HarnessInvariant'
<1> USE TheThreads, TheTrials DEF HarnessInvariant
<1> DEFINE after == [u \in Threads |-> IF u = Main THEN "end" ELSE "store"]
<1>1. /\ BarrierWait(t, "start", after) /\ "start" \in Barriers
      /\ UNCHANGED <<mode, memory, buffer, trial, v, counts, failed>>
  BY DEF StartBarrier, BarrierWait, Barriers
<1>2. CASE /\ pc' = pc /\ arrived' = [arrived EXCEPT !["start"] = @ \cup {t}]
           /\ pc[t] = "start" /\ Drained(t)
  BY <1>1, <1>2, ArriveStep
<1>3. CASE /\ arrived' = [arrived EXCEPT !["start"] = {}]
           /\ \A u \in Threads : pc[u] = "start" /\ Drained(u)
           /\ pc' = [u \in Threads |-> after[u]]
  <2>1. /\ pc[Main] = "start" /\ pc'[Main] = "end" /\ Drained(Main)
        /\ \A w \in Workers : pc[w] = "start" /\ Drained(w) /\ pc'[w] = "store"
        /\ pc' \in [Threads -> Pcs]
    BY <1>3 DEF Pcs, Barriers
  <2>2. Data' /\ Phases'
    BY <1>1, <2>1 DEF Data, Phases, InTrial
  <2>3. InStep'
    BY <1>1, <2>1 DEF InStep, Round
  <2>4. Arrivals'
    BY <1>1, <1>3 DEF Arrivals, Barriers, Drained
  <2>5. MainStores' /\ Results'
    BY <1>1, <2>1 DEF MainStores, Results, Drained
  <2>6. ResetXY
    BY <2>1, ShortBuffers DEF MainStores, Drained
  <2>7. WorkerStores'
    BY <1>1, <2>1, <2>6 DEF WorkerStores, Drained, ResetXY, Own
  <2>8. SeqCst' /\ Counts'
    BY <1>1, <2>1 DEF SeqCst, Counts, HasLoaded, MeasuredTrials
  <2> QED BY <2>2, <2>3, <2>4, <2>5, <2>7, <2>8
<1> HIDE DEF after
<1> QED BY <1>1, <1>2, <1>3, Waits

\* The end barrier opens when both results are in memory.
LEMMA EndBarrierStep ==
  ASSUME HarnessInvariant, NEW t \in Threads, EndBarrier(t) PROVE HarnessInvariant'
<1> USE TheThreads, TheTrials DEF HarnessInvariant
<1> DEFINE after == [u \in Threads |-> IF u = Main THEN "count" ELSE "next"]
<1>1. /\ BarrierWait(t, "end", after) /\ "end" \in Barriers
      /\ UNCHANGED <<mode, memory, buffer, trial, v, counts, failed>>
  BY DEF EndBarrier, BarrierWait, Barriers
<1>2. CASE /\ pc' = pc /\ arrived' = [arrived EXCEPT !["end"] = @ \cup {t}]
           /\ pc[t] = "end" /\ Drained(t)
  BY <1>1, <1>2, ArriveStep
<1>3. CASE /\ arrived' = [arrived EXCEPT !["end"] = {}]
           /\ \A u \in Threads : pc[u] = "end" /\ Drained(u)
           /\ pc' = [u \in Threads |-> after[u]]
  <2>1. /\ pc[Main] = "end" /\ pc'[Main] = "count" /\ Drained(Main)
        /\ \A w \in Workers : pc[w] = "end" /\ Drained(w) /\ pc'[w] = "next"
        /\ pc' \in [Threads -> Pcs]
    BY <1>3 DEF Pcs, Barriers
  <2>2. Data' /\ Phases'
    BY <1>1, <2>1 DEF Data, Phases, InTrial
  <2>3. InStep'
    BY <1>1, <2>1 DEF InStep, Round
  <2>4. Arrivals'
    BY <1>1, <1>3 DEF Arrivals, Barriers, Drained
  <2>5. MainStores' /\ WorkerStores'
    BY <1>1, <2>1 DEF MainStores, WorkerStores, Drained
  <2>6. \A w \in Workers : memory[Res(w)] = v[w]
    <3> TAKE w \in Workers
    <3>1. PICK a, b : a = <<Own(w), 1>> /\ b = <<Res(w), v[w]>>
      OBVIOUS
    <3>2. <<a, b>> # <<>> /\ <<b>> # <<>>
      BY ShortBuffers
    <3> QED BY <2>1, <3>1, <3>2 DEF WorkerStores, Drained
  <2>7. Results'
    BY <1>1, <2>6 DEF Results
  <2>8. SeqCst' /\ Counts'
    BY <1>1, <2>1 DEF SeqCst, Counts, HasLoaded, MeasuredTrials
  <2> QED BY <2>2, <2>3, <2>4, <2>5, <2>7, <2>8
<1> HIDE DEF after
<1> QED BY <1>1, <1>2, <1>3, Waits

-----------------------------------------------------------------------------
(* The steps of main.                                                       *)

\* Main's four resets go to its buffer.
LEMMA ResetStep == ASSUME HarnessInvariant, Reset PROVE HarnessInvariant'
<1> USE TheThreads, TheTrials DEF HarnessInvariant
<1> DEFINE resets == << <<"x", 0>>, <<"y", 0>>, <<"r0", -1>>, <<"r1", -1>> >>
<1>1. /\ Goto(Main, "start") /\ pc[Main] = "reset" /\ trial[Main] < Trials
      /\ buffer' = [buffer EXCEPT ![Main] = @ \o resets]
      /\ UNCHANGED <<mode, memory, trial, v, arrived, counts, failed>>
  BY DEF Reset
<1>2. /\ pc' \in [Threads -> Pcs] /\ pc'[Main] = "start"
      /\ \A w \in Workers : pc'[w] = pc[w]
  BY <1>1, GotoPc DEF Pcs, Barriers
<1>3. /\ buffer' = [t \in Threads |-> buffer'[t]] /\ buffer'[Main] = resets
      /\ \A w \in Workers : buffer'[w] = buffer[w]
  <2>1. buffer[Main] = <<>> /\ <<>> \o resets = resets
    BY <1>1, ShortBuffers DEF MainStores, Drained
  <2> HIDE DEF resets
  <2> QED BY <1>1, <2>1 DEF Data
<1>4. Data'
  BY <1>1, <1>3 DEF Data
<1>5. Phases' /\ InStep'
  BY <1>1, <1>2 DEF Phases, InTrial, InStep, Round
<1>6. Arrivals'
  BY <1>1, <1>2, <1>3 DEF Arrivals, Barriers, Drained
<1>7. MainStores' /\ Results'
  BY <1>1, <1>2, <1>3 DEF MainStores, Results
<1>8. WorkerStores'
  BY <1>1, <1>2, <1>3 DEF WorkerStores, Drained
<1>9. SeqCst' /\ Counts'
  BY <1>1, <1>2 DEF SeqCst, Counts, HasLoaded, MeasuredTrials
<1> QED BY <1>4, <1>5, <1>6, <1>7, <1>8, <1>9

\* Main reads the two results.
LEMMA OutcomeMeans ==
  ASSUME HarnessInvariant, pc[Main] = "count"
  PROVE  Outcome = <<v[0], v[1]>> /\ Outcome \in Outcomes
<1> USE TheThreads DEF HarnessInvariant
<1>1. buffer[Main] = <<>> /\ memory["r0"] = v[0] /\ memory["r1"] = v[1]
  BY DEF MainStores, Results, Drained, Res
<1>2. Load(Main, "r0") = memory["r0"] /\ Load(Main, "r1") = memory["r1"]
  <2>1. DOMAIN buffer[Main] = {}
    BY <1>1
  <2> QED BY <2>1 DEF Load
<1> QED BY <1>1, <1>2 DEF Outcome, Outcomes, Data

\* Main counts a measured trial once, and never in seq_cst the outcome <<0, 0>>.
LEMMA CountStep == ASSUME HarnessInvariant, Count PROVE HarnessInvariant'
<1> USE TheThreads, TheTrials DEF HarnessInvariant
<1>1. PICK o \in Outcomes : o = Outcome /\ o = <<v[0], v[1]>>
  BY OutcomeMeans DEF Count
<1>2. /\ Goto(Main, "reset") /\ pc[Main] = "count" /\ failed' = failed
      /\ trial' = [trial EXCEPT ![Main] = @ + 1] /\ trial[Main] < Trials
      /\ UNCHANGED <<mode, memory, buffer, v, arrived>>
      /\ counts' = [p \in Outcomes |-> IF trial[Main] >= Warmup /\ p = o
                                       THEN counts[p] + 1 ELSE counts[p]]
  <2>1. pc[Main] = "count" /\ failed = FALSE
    BY DEF Count, Data
  <2>2. trial[Main] < Trials
    BY <2>1 DEF InStep
  <2>3. Goto(Main, "reset") /\ failed' = FALSE
    BY <1>1 DEF Count
  <2>4. counts' = [p \in Outcomes |-> IF trial[Main] >= Warmup /\ p = o
                                     THEN counts[p] + 1 ELSE counts[p]]
    BY <1>1 DEF Count, Measured
  <2> QED BY <2>1, <2>2, <2>3, <2>4 DEF Count
<1>3. /\ pc' \in [Threads -> Pcs] /\ pc'[Main] = "reset"
      /\ \A w \in Workers : pc'[w] = pc[w]
  BY <1>2, GotoPc DEF Pcs, Barriers
<1>4. Data'
  BY <1>2 DEF Data
<1>5. Phases'
  BY <1>2, <1>3 DEF Phases, InTrial
<1>6. InStep'
  <2>1. /\ trial'[Main] = trial[Main] + 1 /\ \A w \in Workers : trial'[w] = trial[w]
        /\ trial' \in [Threads -> -1 .. Trials] /\ trial'[Main] \in 0 .. Trials
    BY <1>2 DEF InStep
  <2>2. Round' = Round
    BY <1>2, <1>3, <2>1 DEF Round
  <2> QED BY <1>3, <2>1, <2>2 DEF InStep
<1>7. Arrivals'
  BY <1>2, <1>3 DEF Arrivals, Barriers, Drained
<1>8. MainStores' /\ Results' /\ WorkerStores'
  BY <1>2, <1>3 DEF MainStores, Results, WorkerStores, Drained
<1>9. SeqCst'
  <2> SUFFICES ASSUME mode = "seqcst" PROVE SeqCst'
    BY <1>2 DEF SeqCst
  <2>1. o # <<0, 0>> /\ <<0, 0>> \in Outcomes
    BY <1>1, <1>2 DEF SeqCst, Outcomes
  <2>2. counts'[<<0, 0>>] = 0
    BY <1>2, <2>1 DEF SeqCst
  <2>3. \A w \in Workers : ~HasLoaded(w)'
    BY <1>2, <1>3 DEF HasLoaded, Phases
  <2> QED BY <1>2, <1>3, <2>2, <2>3 DEF SeqCst
<1>10. Counts'
  <2>2. PICK f, g : f = counts /\ g = counts'
    OBVIOUS
  <2>3. /\ \A p \in Outcomes : f[p] \in Nat /\ g[p] \in Nat
        /\ DOMAIN f = Outcomes /\ DOMAIN g = Outcomes
    BY <1>4, <2>2 DEF Data
  <2>4. CASE trial[Main] >= Warmup
    <3>1. g[o] \in Nat /\ g[o] - f[o] = 1 /\ \A p \in Outcomes : p # o => g[p] = f[p]
      BY <1>2, <2>2, <2>3, <2>4
    <3>2. SumFunctionOnSet(g, Outcomes) = SumFunctionOnSet(f, Outcomes) + (g[o] - f[o])
      BY <2>3, <3>1, FiniteOutcomes, SumUpdate
    <3>3. MeasuredTrials' = MeasuredTrials + 1
      BY <1>2, <2>4 DEF MeasuredTrials, InStep
    <3> QED BY <2>2, <2>3, <3>1, <3>2, <3>3 DEF Counts, SumFunction
  <2>5. CASE ~(trial[Main] >= Warmup)
    <3>1. counts' = counts
      BY <1>2, <2>5 DEF Data
    <3>2. MeasuredTrials' = MeasuredTrials
      BY <1>2, <2>5 DEF MeasuredTrials, InStep
    <3> QED BY <3>1, <3>2 DEF Counts
  <2> QED BY <2>4, <2>5
<1> QED BY <1>4, <1>5, <1>6, <1>7, <1>8, <1>9, <1>10

\* Main joins both workers.
LEMMA JoinStep == ASSUME HarnessInvariant, Join PROVE HarnessInvariant'
<1> USE TheThreads, TheTrials DEF HarnessInvariant
<1>1. /\ Goto(Main, "done") /\ pc[Main] = "reset" /\ trial[Main] = Trials
      /\ \A w \in Workers : pc[w] = "done"
      /\ UNCHANGED <<mode, memory, buffer, trial, v, arrived, counts, failed>>
  BY DEF Join
<1>2. /\ pc' \in [Threads -> Pcs] /\ pc'[Main] = "done"
      /\ \A w \in Workers : pc'[w] = pc[w]
  BY <1>1, GotoPc DEF Pcs, Barriers
<1>3. Data' /\ Phases' /\ InStep'
  BY <1>1, <1>2 DEF Data, Phases, InTrial, InStep, Round
<1>4. Arrivals'
  BY <1>1, <1>2 DEF Arrivals, Barriers, Drained
<1>5. MainStores' /\ Results' /\ WorkerStores'
  BY <1>1, <1>2 DEF MainStores, Results, WorkerStores, Drained
<1>6. SeqCst' /\ Counts'
  BY <1>1, <1>2 DEF SeqCst, Counts, HasLoaded, MeasuredTrials
<1> QED BY <1>3, <1>4, <1>5, <1>6

-----------------------------------------------------------------------------
(* The store buffers.                                                       *)

\* Only main's resets wait in its buffer, and only in front of the start
\* barrier.
LEMMA FlushMainStep == ASSUME HarnessInvariant, Flush(Main) PROVE HarnessInvariant'
<1> USE TheThreads, TheTrials DEF HarnessInvariant
<1>1. /\ buffer[Main] # <<>>
      /\ memory' = [memory EXCEPT ![Head(buffer[Main])[1]] = Head(buffer[Main])[2]]
      /\ buffer' = [buffer EXCEPT ![Main] = Tail(@)]
      /\ UNCHANGED <<mode, pc, trial, v, arrived, counts, failed>>
  BY DEF Flush, Drained
<1>2. pc[Main] = "start" /\ \A w \in Workers : pc[w] \in {"next", "start", "done"}
  BY <1>1 DEF MainStores, Drained, Phases
<1>3. PICK x, y, r0, r1 :
        x = <<"x", 0>> /\ y = <<"y", 0>> /\ r0 = <<"r0", -1>> /\ r1 = <<"r1", -1>>
  OBVIOUS
<1>4. \/ /\ buffer[Main] = <<x, y, r0, r1>>
         /\ memory' = [memory EXCEPT !["x"] = 0] /\ Tail(buffer[Main]) = <<y, r0, r1>>
      \/ /\ buffer[Main] = <<y, r0, r1>> /\ ResetX
         /\ memory' = [memory EXCEPT !["y"] = 0] /\ Tail(buffer[Main]) = <<r0, r1>>
      \/ /\ buffer[Main] = <<r0, r1>> /\ ResetXY
         /\ memory' = [memory EXCEPT !["r0"] = -1] /\ Tail(buffer[Main]) = <<r1>>
      \/ /\ buffer[Main] = <<r1>> /\ ResetXY
         /\ memory' = [memory EXCEPT !["r1"] = -1] /\ Tail(buffer[Main]) = <<>>
  <2>1. \/ buffer[Main] = <<x, y, r0, r1>>
        \/ buffer[Main] = <<y, r0, r1>> /\ ResetX
        \/ buffer[Main] = <<r0, r1>> /\ ResetXY
        \/ buffer[Main] = <<r1>> /\ ResetXY
    BY <1>1, <1>2, <1>3 DEF MainStores, Drained
  <2>2. x[1] = "x" /\ x[2] = 0 /\ y[1] = "y" /\ y[2] = 0
        /\ r0[1] = "r0" /\ r0[2] = -1 /\ r1[1] = "r1" /\ r1[2] = -1
    BY <1>3
  <2>3. CASE buffer[Main] = <<x, y, r0, r1>>
    <3>1. Head(buffer[Main]) = x /\ Tail(buffer[Main]) = <<y, r0, r1>>
      BY <2>3, ShortBuffers
    <3> QED BY <1>1, <2>2, <2>3, <3>1
  <2>4. CASE buffer[Main] = <<y, r0, r1>> /\ ResetX
    <3>1. Head(buffer[Main]) = y /\ Tail(buffer[Main]) = <<r0, r1>>
      BY <2>4, ShortBuffers
    <3> QED BY <1>1, <2>2, <2>4, <3>1
  <2>5. CASE buffer[Main] = <<r0, r1>> /\ ResetXY
    <3>1. Head(buffer[Main]) = r0 /\ Tail(buffer[Main]) = <<r1>>
      BY <2>5, ShortBuffers
    <3> QED BY <1>1, <2>2, <2>5, <3>1
  <2>6. CASE buffer[Main] = <<r1>> /\ ResetXY
    <3>1. Head(buffer[Main]) = r1 /\ Tail(buffer[Main]) = <<>>
      BY <2>6, ShortBuffers
    <3> QED BY <1>1, <2>2, <2>6, <3>1
  <2> QED BY <2>1, <2>3, <2>4, <2>5, <2>6
<1>5. /\ buffer' = [t \in Threads |-> buffer'[t]] /\ buffer'[Main] = Tail(buffer[Main])
      /\ \A w \in Workers : buffer'[w] = buffer[w]
  BY <1>1 DEF Data
<1>6. Data'
  <2>1. memory' \in [Locations -> {-1, 0, 1}]
    BY <1>4 DEF Data, Locations
  <2> QED BY <1>1, <1>5, <2>1 DEF Data
<1>7. Phases' /\ InStep'
  BY <1>1 DEF Phases, InTrial, InStep, Round
<1>8. Arrivals'
  BY <1>1, <1>5 DEF Arrivals, Barriers, Drained
<1>9. MainStores'
  <2>1. \/ ResetX' /\ buffer'[Main] = <<y, r0, r1>>
        \/ ResetXY' /\ buffer'[Main] = <<r0, r1>>
        \/ ResetXY' /\ buffer'[Main] = <<r1>>
        \/ ResetXY' /\ buffer'[Main] = <<>>
    BY <1>4, <1>5 DEF ResetX, ResetXY, Data, Locations
  <2> QED BY <1>1, <1>2, <1>3, <2>1 DEF MainStores, Drained
<1>10. WorkerStores' /\ Results'
  BY <1>1, <1>2, <1>5 DEF WorkerStores, Results, Drained
<1>11. SeqCst' /\ Counts'
  BY <1>1, <1>2 DEF SeqCst, Counts, HasLoaded, MeasuredTrials
<1> QED BY <1>6, <1>7, <1>8, <1>9, <1>10, <1>11

\* A worker's oldest store reaches memory, before it waits at the end barrier.
LEMMA FlushWorkerStep ==
  ASSUME HarnessInvariant, NEW w \in Workers, Flush(w) PROVE HarnessInvariant'
<1> USE TheThreads, TheTrials DEF HarnessInvariant
<1>1. /\ buffer[w] # <<>>
      /\ memory' = [memory EXCEPT ![Head(buffer[w])[1]] = Head(buffer[w])[2]]
      /\ buffer' = [buffer EXCEPT ![w] = Tail(@)]
      /\ UNCHANGED <<mode, pc, trial, v, arrived, counts, failed>>
  BY DEF Flush, Drained
<1>2. pc[w] \in {"load", "result", "end"} /\ pc[Main] = "end"
  BY <1>1 DEF WorkerStores, Drained, Phases, InTrial
<1>3. PICK own, res : own = <<Own(w), 1>> /\ res = <<Res(w), v[w]>>
  OBVIOUS
<1>4. \/ /\ pc[w] \in {"load", "result"} /\ memory[Own(w)] = 0
         /\ memory' = [memory EXCEPT ![Own(w)] = 1] /\ Tail(buffer[w]) = <<>>
      \/ /\ pc[w] = "end" /\ memory[Own(w)] = 0
         /\ memory' = [memory EXCEPT ![Own(w)] = 1] /\ Tail(buffer[w]) = <<res>>
      \/ /\ pc[w] = "end" /\ memory[Own(w)] = 1
         /\ memory' = [memory EXCEPT ![Res(w)] = v[w]] /\ Tail(buffer[w]) = <<>>
  <2>1. \/ pc[w] \in {"load", "result"} /\ memory[Own(w)] = 0 /\ buffer[w] = <<own>>
        \/ pc[w] = "end" /\ memory[Own(w)] = 0 /\ buffer[w] = <<own, res>>
        \/ pc[w] = "end" /\ memory[Own(w)] = 1 /\ buffer[w] = <<res>>
    BY <1>1, <1>2, <1>3 DEF WorkerStores, Drained
  <2>2. own[1] = Own(w) /\ own[2] = 1 /\ res[1] = Res(w) /\ res[2] = v[w]
    BY <1>3
  <2>3. /\ Head(<<own>>) = own /\ Tail(<<own>>) = <<>>
        /\ Head(<<own, res>>) = own /\ Tail(<<own, res>>) = <<res>>
        /\ Head(<<res>>) = res /\ Tail(<<res>>) = <<>>
    BY ShortBuffers
  <2> QED BY <1>1, <2>1, <2>2, <2>3
<1>5. /\ buffer' = [t \in Threads |-> buffer'[t]] /\ buffer'[w] = Tail(buffer[w])
      /\ \A u \in Threads : u # w => buffer'[u] = buffer[u]
  BY <1>1 DEF Data
<1>6. Data'
  <2>1. memory' \in [Locations -> {-1, 0, 1}]
    BY <1>4 DEF Data
  <2> QED BY <1>1, <1>5, <2>1 DEF Data
<1>7. Phases' /\ InStep'
  BY <1>1 DEF Phases, InTrial, InStep, Round
<1>8. Arrivals'
  BY <1>1, <1>5 DEF Arrivals, Barriers, Drained
<1>9. MainStores' /\ Results'
  BY <1>1, <1>2, <1>5 DEF MainStores, Results, Drained
<1>10. WorkerStores'
  <2>1. /\ pc[w] \in {"load", "result"} => memory'[Own(w)] = 1 /\ buffer'[w] = <<>>
        /\ pc[w] = "end" => \/ memory'[Own(w)] = 1 /\ buffer'[w] = <<res>>
                            \/ /\ memory'[Own(w)] = 1 /\ memory'[Res(w)] = v[w]
                               /\ buffer'[w] = <<>>
    BY <1>4, <1>5 DEF Data
  <2>2. \A u \in Workers : u # w => memory'[Own(u)] = memory[Own(u)] /\ memory'[Res(u)] = memory[Res(u)]
    BY <1>4 DEF Data
  <2> QED BY <1>1, <1>2, <1>3, <1>5, <2>1, <2>2 DEF WorkerStores, Drained
<1>11. SeqCst' /\ Counts'
  <2>1. \A u \in Workers : memory[Own(u)] = 1 => memory'[Own(u)] = 1
    BY <1>4 DEF Data
  <2> QED BY <1>1, <2>1 DEF SeqCst, Counts, HasLoaded, MeasuredTrials
<1> QED BY <1>6, <1>7, <1>8, <1>9, <1>10, <1>11

-----------------------------------------------------------------------------
(* The theorems.                                                            *)

\* The invariant holds at the start,
LEMMA HarnessInit == Init => HarnessInvariant
<1> SUFFICES ASSUME Init PROVE HarnessInvariant
  OBVIOUS
<1> USE TheThreads, TheTrials DEF Init
<1>1. Data
  BY DEF Data, Locations, Modes
<1>2. Phases /\ InStep
  BY DEF Phases, Pcs, Barriers, InStep, Round
<1>3. Arrivals /\ MainStores /\ WorkerStores /\ Results
  BY DEF Arrivals, MainStores, WorkerStores, Results, Drained
<1>4. SeqCst
  BY DEF SeqCst, HasLoaded, Outcomes
<1>5. Counts
  <2>1. \A o \in Outcomes : counts[o] = 0
    OBVIOUS
  <2>2. SumFunctionOnSet(counts, Outcomes) = Cardinality(Outcomes) * 0
    BY <2>1, FiniteOutcomes, SumConst
  <2>3. Cardinality(Outcomes) * 0 = 0
    BY FiniteOutcomes, FS_CardinalityType
  <2>4. DOMAIN counts = Outcomes /\ MeasuredTrials = 0
    BY DEF MeasuredTrials
  <2> QED BY <2>2, <2>3, <2>4 DEF Counts, SumFunction
<1> QED BY <1>1, <1>2, <1>3, <1>4, <1>5 DEF HarnessInvariant

\* and every step preserves it.
THEOREM HarnessHolds == Spec => []HarnessInvariant
<1>1. HarnessInvariant /\ [Next]_vars => HarnessInvariant'
  <2> SUFFICES ASSUME HarnessInvariant, [Next]_vars PROVE HarnessInvariant'
    OBVIOUS
  <2>1. ASSUME NEW w \in Workers, WorkerStep(w) PROVE HarnessInvariant'
    <3>1. w \in Threads
      BY DEF Threads
    <3> QED BY <2>1, <3>1, NextTrialStep, StartBarrierStep, StoreOwnStep, LoadOtherStep,
               StoreResultStep, EndBarrierStep DEF WorkerStep
  <2>2. ASSUME MainStep PROVE HarnessInvariant'
    <3>1. Main \in Threads
      BY DEF Threads
    <3> QED BY <2>2, <3>1, ResetStep, StartBarrierStep, EndBarrierStep, CountStep, JoinStep
            DEF MainStep
  <2>3. ASSUME NEW t \in Threads, Flush(t) PROVE HarnessInvariant'
    BY <2>3, FlushMainStep, FlushWorkerStep DEF Threads
  <2>4. ASSUME UNCHANGED vars PROVE HarnessInvariant'
    <3> USE <2>4 DEF vars, HarnessInvariant
    <3>1. Data' /\ Phases' /\ InStep' /\ Arrivals'
      BY DEF Data, Phases, InStep, Round, Arrivals, Drained
    <3>2. MainStores' /\ WorkerStores' /\ Results'
      BY DEF MainStores, WorkerStores, Results, Drained, ResetX, ResetXY
    <3>3. SeqCst' /\ Counts'
      BY DEF SeqCst, Counts, HasLoaded, MeasuredTrials
    <3> QED BY <3>1, <3>2, <3>3
  <2> QED BY <2>1, <2>2, <2>3, <2>4 DEF Next, Terminated
<1> QED BY <1>1, HarnessInit, PTL DEF Spec

\* The two fences of seq_cst forbid the outcome in which both workers miss the
\* other's store, in every trial.
THEOREM BothZeroForbidden == Spec => []SeqCstForbidsBothZero
<1>1. HarnessInvariant => SeqCstForbidsBothZero
  <2> SUFFICES ASSUME HarnessInvariant, mode = "seqcst"
               PROVE  counts[<<0, 0>>] = 0 /\ ~(pc[Main] = "count" /\ Outcome = <<0, 0>>)
    BY DEF SeqCstForbidsBothZero
  <2>1. counts[<<0, 0>>] = 0 /\ (pc[Main] = "count" => v[0] = 1 \/ v[1] = 1)
    BY DEF HarnessInvariant, SeqCst
  <2>2. pc[Main] = "count" => Outcome = <<v[0], v[1]>>
    BY OutcomeMeans
  <2> QED BY <2>1, <2>2
<1> QED BY <1>1, HarnessHolds, PTL

\* The barriers keep the trials apart: main counts the two results of its own
\* trial, never an unexpected one.
THEOREM TrialsAreIsolated == Spec => []TrialsIsolated
<1>1. HarnessInvariant => TrialsIsolated
  <2> SUFFICES ASSUME HarnessInvariant PROVE TrialsIsolated
    OBVIOUS
  <2> USE TheThreads DEF HarnessInvariant
  <2>1. ASSUME NEW w \in Workers, pc[w] \in InTrial \cup {"end"}
        PROVE  trial[w] = trial[Main] /\ Drained(Main)
    <3>1. pc[Main] = "end"
      BY <2>1 DEF Phases, InTrial
    <3> QED BY <2>1, <3>1 DEF InStep, Round, MainStores, InTrial
  <2>2. (\A w \in Workers : pc[w] = "store") => memory["x"] = 0 /\ memory["y"] = 0
    BY DEF WorkerStores, Own
  <2>3. pc[Main] = "count" => Outcome = <<v[0], v[1]>> /\ Outcome \in Outcomes
    BY OutcomeMeans
  <2> QED BY <2>1, <2>2, <2>3 DEF TrialsIsolated, Data
<1> QED BY <1>1, HarnessHolds, PTL

\* When main prints, the counts add up to the measured trials: none has been
\* lost or counted twice, and no warm-up trial is among them.
THEOREM EveryTrialCounted == Spec => [](Printed => CountedOnce)
<1>1. HarnessInvariant => (Printed => CountedOnce)
  BY TheTrials DEF HarnessInvariant, InStep, Counts, MeasuredTrials, Printed, CountedOnce
<1> QED BY <1>1, HarnessHolds, PTL

\* The type invariant.
THEOREM HarnessTypes == Spec => []TypeOK
<1>1. HarnessInvariant => TypeOK
  <2> SUFFICES ASSUME HarnessInvariant PROVE TypeOK
    OBVIOUS
  <2> USE TheThreads, TheTrials DEF HarnessInvariant
  <2>1. ASSUME NEW t \in Threads
        PROVE  Holds(buffer[t], Locations \X {-1, 0, 1})
    <3>1. CASE t = Main
      <4>1. PICK x, y, r0, r1 :
              x = <<"x", 0>> /\ y = <<"y", 0>> /\ r0 = <<"r0", -1>> /\ r1 = <<"r1", -1>>
        OBVIOUS
      <4>2. \/ buffer[t] = <<x, y, r0, r1>> \/ buffer[t] = <<y, r0, r1>>
            \/ buffer[t] = <<r0, r1>> \/ buffer[t] = <<r1>> \/ buffer[t] = <<>>
        BY <3>1, <4>1 DEF MainStores, Drained
      <4>3. PICK S : S = Locations \X {-1, 0, 1}
        OBVIOUS
      <4>4. x \in S /\ y \in S /\ r0 \in S /\ r1 \in S
        BY <4>1, <4>3 DEF Locations
      <4>5. Holds(buffer[t], S)
        BY ONLY <4>2, <4>4, ShortHolds, Zenon
      <4> QED BY <4>3, <4>5
    <3>2. CASE t \in Workers
      <4>1. PICK own, res : own = <<Own(t), 1>> /\ res = <<Res(t), v[t]>>
        OBVIOUS
      <4>2. buffer[t] = <<>> \/ buffer[t] = <<own>> \/ buffer[t] = <<res>> \/ buffer[t] = <<own, res>>
        BY <3>2, <4>1 DEF WorkerStores, Drained, Phases, InTrial
      <4>3. PICK S : S = Locations \X {-1, 0, 1}
        OBVIOUS
      <4>4. own \in S /\ res \in S
        <5>1. Own(t) \in Locations /\ Res(t) \in Locations /\ v[t] \in {-1, 0, 1}
          BY <3>2 DEF Data
        <5> QED BY <4>1, <4>3, <5>1
      <4>5. Holds(buffer[t], S)
        BY ONLY <4>2, <4>4, ShortHolds, Zenon
      <4> QED BY <4>3, <4>5
    <3> QED BY <3>1, <3>2
  <2>2. counts \in [Outcomes -> 0 .. Iterations]
    <3>1. SumFunctionOnSet(counts, Outcomes) = MeasuredTrials /\ MeasuredTrials <= Iterations
      BY DEF Counts, SumFunction, Data, MeasuredTrials, InStep
    <3>2. ASSUME NEW o \in Outcomes PROVE counts[o] <= SumFunctionOnSet(counts, Outcomes)
      <4>1. \A p \in Outcomes : counts[p] \in Nat
        BY DEF Data
      <4>2. SumFunctionOnSet(counts, Outcomes)
              = counts[o] + SumFunctionOnSet(counts, Outcomes \ {o})
        BY <4>1, FiniteOutcomes, SumRemove
      <4>3. IsFiniteSet(Outcomes \ {o})
        BY FiniteOutcomes, FS_Subset
      <4>4. SumFunctionOnSet(counts, Outcomes \ {o}) \in Nat
        BY <4>1, <4>3, SumType
      <4> QED BY <4>1, <4>2, <4>4
    <3>3. MeasuredTrials \in Nat
      BY DEF MeasuredTrials, InStep
    <3> QED BY <3>1, <3>2, <3>3 DEF Data
  <2> QED BY <2>1, <2>2 DEF Holds, TypeOK, Data, Phases, InStep, Arrivals
<1> QED BY <1>1, HarnessHolds, PTL
=============================================================================
