--------------------------- MODULE StoreBuffering ----------------------------
(***************************************************************************)
(* 04-concurrency/01-memory-ordering: the store-buffering litmus test and  *)
(* the harness around it.  Two workers and the main thread meet at a start *)
(* and an end barrier in every trial; in between worker 0 stores x and     *)
(* loads y, worker 1 stores y and loads x.                                 *)
(*                                                                         *)
(* The machine is x86-TSO, the platform of the lab: a store waits in its   *)
(* thread's FIFO buffer until it reaches memory, a load sees its own       *)
(* thread's buffer first, and a fence waits for the buffer to be empty.    *)
(***************************************************************************)
EXTENDS Naturals, Integers, Sequences, FiniteSets, FiniteSetsExt

CONSTANTS
  Iterations,  \* --iters
  Warmup       \* --warmup

ASSUME TrialsAssumption == Iterations \in Nat /\ Warmup \in Nat

Workers == {0, 1}
Main == 2
Threads == Workers \cup {Main}

VARIABLES
  mode,     \* --mode
  memory,   \* what every core sees of x, y, r0 and r1
  buffer,   \* each thread's stores that have not reached memory
  pc,       \* where each thread is
  trial,    \* each thread's loop index
  v,        \* thread*_op's local v
  arrived,  \* the threads waiting at each barrier
  counts,   \* count_00, count_01, count_10 and count_11, by outcome
  failed    \* did main print "Unexpected outcome" and return?

vars == <<mode, memory, buffer, pc, trial, v, arrived, counts, failed>>

Modes == {"relaxed", "acqrel", "seqcst"}
Barriers == {"start", "end"}
Outcomes == {0, 1} \X {0, 1}
Locations == {"x", "y", "r0", "r1"}

-----------------------------------------------------------------------------
(* The machine.                                                             *)

Store(t, loc, val) == buffer' = [buffer EXCEPT ![t] = Append(@, <<loc, val>>)]

\* The value thread t loads: its own youngest pending store, or memory.
Load(t, loc) ==
  LET mine == {k \in DOMAIN buffer[t] : buffer[t][k][1] = loc}
  IN IF mine = {} THEN memory[loc] ELSE buffer[t][Max(mine)][2]

Drained(t) == buffer[t] = <<>>

\* The oldest buffered store of a thread reaches memory.
Flush(t) ==
  /\ ~Drained(t)
  /\ memory' = [memory EXCEPT ![Head(buffer[t])[1]] = Head(buffer[t])[2]]
  /\ buffer' = [buffer EXCEPT ![t] = Tail(@)]
  /\ UNCHANGED <<mode, pc, trial, v, arrived, counts, failed>>

\* A seq_cst store is a store and an mfence; relaxed and release stores are
\* plain ones, and all loads are.
NeverFenced(m) == FALSE
Fenced(m) == m = "seqcst"

-----------------------------------------------------------------------------
(* The barriers, of three parties.  pthread_barrier_wait synchronizes       *)
(* memory: what a thread stored before it is visible after it.              *)

TwoParties(b, t) == Cardinality(arrived[b] \cup {t}) = 2
LastToArrive(b, t) == arrived[b] \cup {t} = Threads

\* Thread t waits at barrier b, or is the last and lets everyone go on to
\* the pc that `after` gives them.
BarrierWait(t, b, after) ==
  /\ pc[t] = b
  /\ t \notin arrived[b]
  /\ Drained(t)
  /\ IF LastToArrive(b, t)
       THEN /\ arrived' = [arrived EXCEPT ![b] = {}]
            /\ pc' = [u \in Threads |-> IF u \in arrived[b] \cup {t} THEN after[u] ELSE pc[u]]
       ELSE /\ arrived' = [arrived EXCEPT ![b] = @ \cup {t}]
            /\ UNCHANGED pc
  /\ UNCHANGED <<mode, memory, buffer, trial, v, counts, failed>>

StartBarrier(t) ==
  BarrierWait(t, "start", [u \in Threads |-> IF u = Main THEN "end" ELSE "store"])
EndBarrier(t) ==
  BarrierWait(t, "end", [u \in Threads |-> IF u = Main THEN "count" ELSE "next"])

-----------------------------------------------------------------------------
Trials == Warmup + Iterations
TrialsNoWarmup == Iterations
WorkerTrials == Warmup + Iterations

Init ==
  /\ mode \in Modes
  /\ memory = [loc \in Locations |-> IF loc \in {"x", "y"} THEN 0 ELSE -1]
  /\ buffer = [t \in Threads |-> <<>>]
  /\ pc = [t \in Threads |-> IF t = Main THEN "reset" ELSE "next"]
  /\ trial = [t \in Threads |-> IF t = Main THEN 0 ELSE -1]
  /\ v = [w \in Workers |-> 0]
  /\ arrived = [b \in Barriers |-> {}]
  /\ counts = [o \in Outcomes |-> 0]
  /\ failed = FALSE

Goto(t, to) == pc' = [pc EXCEPT ![t] = to]

\* The head of worker_main's loop.
NextTrial(w) ==
  /\ pc[w] = "next"
  /\ trial' = [trial EXCEPT ![w] = @ + 1]
  /\ Goto(w, IF trial[w] + 1 < WorkerTrials THEN "start" ELSE "done")
  /\ UNCHANGED <<mode, memory, buffer, v, arrived, counts, failed>>

\* thread0_op and thread1_op: the store,
StoreOwn(w) ==
  /\ pc[w] = "store"
  /\ Store(w, IF w = 0 THEN "x" ELSE "y", 1)
  /\ Goto(w, "load")
  /\ UNCHANGED <<mode, memory, trial, v, arrived, counts, failed>>

\* the load, after the store's fence if it has one,
LoadOther(w) ==
  /\ pc[w] = "load"
  /\ Fenced(mode) => Drained(w)
  /\ v' = [v EXCEPT ![w] = Load(w, IF w = 0 THEN "y" ELSE "x")]
  /\ Goto(w, "result")
  /\ UNCHANGED <<mode, memory, buffer, trial, arrived, counts, failed>>

\* and the store of the result.
StoreResult(w) ==
  /\ pc[w] = "result"
  /\ Store(w, IF w = 0 THEN "r0" ELSE "r1", v[w])
  /\ Goto(w, "end")
  /\ UNCHANGED <<mode, memory, trial, v, arrived, counts, failed>>

\* main's relaxed stores that reset a trial.
Reset ==
  /\ pc[Main] = "reset"
  /\ trial[Main] < Trials
  /\ buffer' = [buffer EXCEPT ![Main] =
                  @ \o << <<"x", 0>>, <<"y", 0>>, <<"r0", -1>>, <<"r1", -1>> >>]
  /\ Goto(Main, "start")
  /\ UNCHANGED <<mode, memory, trial, v, arrived, counts, failed>>

Measured(i) == i >= Warmup

Outcome == <<Load(Main, "r0"), Load(Main, "r1")>>

\* main counts a measured outcome, or gives up on an impossible one.
Count ==
  /\ pc[Main] = "count"
  /\ LET unexpected == Measured(trial[Main]) /\ Outcome \notin Outcomes
     IN /\ failed' = unexpected
        /\ Goto(Main, IF unexpected THEN "done" ELSE "reset")
  /\ counts' = [o \in Outcomes |-> IF Measured(trial[Main]) /\ o = Outcome
                                   THEN counts[o] + 1 ELSE counts[o]]
  /\ trial' = [trial EXCEPT ![Main] = @ + 1]
  /\ UNCHANGED <<mode, memory, buffer, v, arrived>>

\* main joins both workers, and prints.
Join ==
  /\ pc[Main] = "reset"
  /\ trial[Main] = Trials
  /\ \A w \in Workers : pc[w] = "done"
  /\ Goto(Main, "done")
  /\ UNCHANGED <<mode, memory, buffer, trial, v, arrived, counts, failed>>

Terminated == pc[Main] = "done" /\ UNCHANGED vars

-----------------------------------------------------------------------------
WorkerStep(w) ==
  \/ NextTrial(w) \/ StartBarrier(w) \/ StoreOwn(w) \/ LoadOther(w)
  \/ StoreResult(w) \/ EndBarrier(w)
MainStep == Reset \/ StartBarrier(Main) \/ EndBarrier(Main) \/ Count \/ Join

Next ==
  \/ \E w \in Workers : WorkerStep(w)
  \/ MainStep
  \/ \E t \in Threads : Flush(t)
  \/ Terminated

\* Threads run, and buffered stores reach memory in the end.
Fairness ==
  /\ \A w \in Workers : WF_vars(WorkerStep(w))
  /\ WF_vars(MainStep)
  /\ \A t \in Threads : WF_vars(Flush(t))

Spec == Init /\ [][Next]_vars
FairSpec == Spec /\ Fairness

-----------------------------------------------------------------------------
(* Properties.                                                              *)

Pcs == Barriers \cup {"next", "store", "load", "result", "reset", "count", "done"}
TypeOK ==
  /\ mode \in Modes
  /\ memory \in [Locations -> {-1, 0, 1}]
  /\ \A t \in Threads :
       /\ Len(buffer[t]) <= 4
       /\ \A k \in DOMAIN buffer[t] : buffer[t][k] \in Locations \X {-1, 0, 1}
  /\ pc \in [Threads -> Pcs]
  /\ trial \in [Threads -> -1 .. Trials]
  /\ v \in [Workers -> {0, 1}]
  /\ arrived \in [Barriers -> SUBSET Threads]
  /\ counts \in [Outcomes -> 0 .. Iterations]
  /\ failed \in BOOLEAN

\* "seqcst : both-zero should be forbidden by the C11 SC model" (the head of
\* main.c): in that mode no trial, measured or not, ends with both workers
\* having missed the other's store.
SeqCstForbidsBothZero ==
  mode = "seqcst" =>
    /\ counts[<<0, 0>>] = 0
    /\ ~(pc[Main] = "count" /\ Outcome = <<0, 0>>)

\* Trials do not leak into each other: a worker is in the trial main is in,
\* it starts with x and y reset for both, and what main reads after the end
\* barrier are the two results of this trial, so "any other value indicates
\* a bug in the harness" is never printed.
InTrial == {"store", "load", "result"}
TrialsIsolated ==
  /\ \A w \in Workers : pc[w] \in InTrial \cup {"end"} =>
       trial[w] = trial[Main] /\ Drained(Main)
  /\ (\A w \in Workers : pc[w] = "store") => memory["x"] = 0 /\ memory["y"] = 0
  /\ pc[Main] = "count" => Outcome = <<v[0], v[1]>> /\ Outcome \in Outcomes
  /\ ~failed

\* Nobody waits at a barrier for ever: main prints, and has counted every
\* measured trial once and no warm-up trial.
Printed == pc[Main] = "done"
CountedOnce == SumFunction(counts) = Iterations
Termination == <>(Printed /\ CountedOnce)
=============================================================================
