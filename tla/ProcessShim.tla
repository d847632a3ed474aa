----------------------------- MODULE ProcessShim ------------------------------
(***************************************************************************)
(* wordcut.js 4337-4523: process.nextTick of the browser.  Items are kept  *)
(* in a queue and run by one timer; a second timer, which is cleared when  *)
(* the queue is empty, takes over when an item throws.                     *)
(*                                                                         *)
(* Items are numbered in the order in which they are queued.  Timers are   *)
(* called in the order in which they were set, with no other code running. *)
(***************************************************************************)
EXTENDS Naturals, SequencesExt

CONSTANT MaxItems   \* bounds the items that are queued

VARIABLES
  queue, draining, currentQueue, queueIndex, len,
  timers,
  code,    \* what runs: nothing, the loop of drainQueue, or an item in it
  items,   \* how many were queued
  ran      \* in which order they were run
vars == <<queue, draining, currentQueue, queueIndex, len, timers, code, items, ran>>

Init ==
  /\ queue = <<>> /\ currentQueue = <<>>   \* undefined, and null, are <<>>
  /\ draining = FALSE
  /\ queueIndex = 0                        \* one more than in the code
  /\ len = 0
  /\ timers = <<>>
  /\ code = "nothing"
  /\ items = 0 /\ ran = <<>>

\* process.nextTick, called by an item or by other code.
NextTick ==
  /\ code \in {"nothing", "item"}
  /\ items < MaxItems
  /\ items' = items + 1
  /\ queue' = Append(queue, items + 1)
  /\ timers' = IF Len(queue') = 1 /\ ~draining THEN Append(timers, "drainQueue") ELSE timers
  /\ UNCHANGED <<draining, currentQueue, queueIndex, len, code, ran>>

\* drainQueue up to its inner loop, with a queue q, which may be empty.
Drain(q, rest) ==
  /\ draining' = TRUE
  /\ timers' = Append(rest, "cleanUpNextTick")
  /\ len' = Len(q)
  /\ currentQueue' = q
  /\ queue' = <<>>
  /\ code' = "loop"

DrainTimer ==
  /\ code = "nothing"
  /\ timers # <<>> /\ Head(timers) = "drainQueue"
  /\ \/ /\ ~draining
        /\ Drain(queue, Tail(timers))
     \/ /\ draining
        /\ timers' = Tail(timers)
        /\ UNCHANGED <<queue, draining, currentQueue, len, code>>
  /\ UNCHANGED <<queueIndex, items, ran>>

\* cleanUpNextTick, after an item threw: the items that ran are put back in
\* front, and queueIndex still says which they are.
FromTheStart(index) == 0
AfterTheThrow(index) == index
CleanUpTimer ==
  /\ code = "nothing"
  /\ timers # <<>> /\ Head(timers) = "cleanUpNextTick"
  /\ Drain(currentQueue \o queue, Tail(timers))
  /\ queueIndex' = AfterTheThrow(queueIndex)
  /\ UNCHANGED <<items, ran>>

\* The loop: the next item of currentQueue, or the next queue, or the end.
RunItem ==
  /\ code = "loop"
  /\ queueIndex < len
  /\ queueIndex' = queueIndex + 1
  /\ ran' = Append(ran, currentQueue[queueIndex + 1])
  /\ code' = "item"
  /\ UNCHANGED <<queue, draining, currentQueue, len, timers, items>>

NextQueue ==
  /\ code = "loop"
  /\ queueIndex >= len
  /\ queueIndex' = 0
  /\ len' = Len(queue)
  /\ IF queue # <<>>
       THEN /\ currentQueue' = queue
            /\ queue' = <<>>
            /\ UNCHANGED <<draining, timers, code>>
       ELSE /\ currentQueue' = <<>>
            /\ draining' = FALSE
            /\ timers' = SelectSeq(timers, LAMBDA t : t # "cleanUpNextTick")
            /\ code' = "nothing"
            /\ UNCHANGED queue
  /\ UNCHANGED <<items, ran>>

Returns ==
  /\ code = "item"
  /\ code' = "loop"
  /\ UNCHANGED <<queue, draining, currentQueue, queueIndex, len, timers, items, ran>>

\* The exception ends drainQueue too.
Throws ==
  /\ code = "item"
  /\ code' = "nothing"
  /\ UNCHANGED <<queue, draining, currentQueue, queueIndex, len, timers, items, ran>>

AllRan == items = MaxItems /\ Len(ran) = items /\ timers = <<>> /\ code = "nothing" /\ UNCHANGED vars

Timer == DrainTimer \/ CleanUpTimer
Running == RunItem \/ NextQueue \/ Returns \/ Throws
Next == NextTick \/ Timer \/ Running \/ AllRan

\* Timers fire, and no item runs for ever.
Spec == Init /\ [][Next]_vars /\ WF_vars(Timer) /\ WF_vars(Running)

-----------------------------------------------------------------------------
(* Properties.                                                              *)

\* Items are run in the order in which they were queued, none twice and none
\* left out, whichever of them throw or queue others.
RunInOrder == ran = [k \in 1 .. Len(ran) |-> k]

\* An item that is queued is run.
EveryItemRuns == \A n \in 1 .. MaxItems : items >= n ~> Len(ran) >= n
=============================================================================
