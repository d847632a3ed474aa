------------------------------ MODULE PingPong -------------------------------
(***************************************************************************)
(* 03-os-boundary/01-context-switch: a parent and its forked child hand    *)
(* one byte back and forth over two pipes, p2c and c2p, and the parent     *)
(* times the round trips.  A pipe is here the number of bytes in it and    *)
(* the set of processes that hold each of its ends open, as fork copies    *)
(* all of them: a read blocks until there is a byte or no write end is     *)
(* left, and a write to a pipe without a read end kills its writer.        *)
(*                                                                         *)
(* The processes can fail wherever the code checks for it (pipe, fork,     *)
(* pinning to a CPU that is not there) or be killed at any point.          *)
(***************************************************************************)
EXTENDS Naturals, FiniteSets

CONSTANTS
  Warmup,     \* -w
  Iterations  \* -n

VARIABLES
  pc,      \* where each process is
  open,    \* the pipe ends each process holds open
  bytes,   \* how many bytes are in each pipe
  rounds,  \* each process's completed loop rounds
  timer,   \* has the parent taken t0, or also t1?
  timed,   \* the round trips completed between the two
  exit     \* the exit status of each process, or that it has none yet
vars == <<pc, open, bytes, rounds, timer, timed, exit>>

Procs == {"parent", "child"}
Pipes == {"p2c", "c2p"}
Ends == Pipes \X {"read", "write"}
TotalRounds == Warmup + Iterations

Alive(p) == exit[p] = "running"
Readers(pipe) == {p \in Procs : <<pipe, "read">> \in open[p]}
Writers(pipe) == {p \in Procs : <<pipe, "write">> \in open[p]}

-----------------------------------------------------------------------------
Init ==
  /\ pc = [p \in Procs |-> IF p = "parent" THEN "pipes" ELSE "not_forked"]
  /\ open = [p \in Procs |-> {}]
  /\ bytes = [pipe \in Pipes |-> 0]
  /\ rounds = [p \in Procs |-> 0]
  /\ timer = "before"
  /\ timed = 0
  /\ exit = [p \in Procs |-> "running"]

Goto(p, to) == pc' = [pc EXCEPT ![p] = to]

\* Process p ends, and the kernel closes what it has open.
End(p, status) ==
  /\ exit' = [exit EXCEPT ![p] = status]
  /\ open' = [open EXCEPT ![p] = {}]
  /\ Goto(p, "ended")

\* die, and EXIT_FAILURE from main.
Die(p) == End(p, "failure") /\ UNCHANGED <<bytes, rounds, timer, timed>>

\* A signal ends process p: at any point, or SIGPIPE.
Kill(p) ==
  /\ Alive(p)
  /\ pc[p] # "not_forked"
  /\ End(p, "killed")
  /\ UNCHANGED <<bytes, rounds, timer, timed>>

-----------------------------------------------------------------------------
(* Setting up.                                                              *)

\* The two pipe calls.
MakePipes ==
  /\ pc["parent"] = "pipes"
  /\ open' = [open EXCEPT !["parent"] = Ends]
  /\ Goto("parent", "fork")
  /\ UNCHANGED <<bytes, rounds, timer, timed, exit>>

Fork ==
  /\ pc["parent"] = "fork"
  /\ open' = [open EXCEPT !["child"] = open["parent"]]
  /\ pc' = [p \in Procs |-> "close"]
  /\ UNCHANGED <<bytes, rounds, timer, timed, exit>>

\* One of the pipe calls, or fork, fails.
SetupFails == pc["parent"] \in {"pipes", "fork"} /\ Die("parent")

\* The ends that process p does not use.
NothingUnused(p) == {}
Unused(p) == IF p = "parent" THEN {<<"p2c", "read">>, <<"c2p", "write">>}
                             ELSE {<<"p2c", "write">>, <<"c2p", "read">>}
CloseUnused(p) ==
  /\ pc[p] = "close"
  /\ open' = [open EXCEPT ![p] = @ \ Unused(p)]
  /\ Goto(p, "pin")
  /\ UNCHANGED <<bytes, rounds, timer, timed, exit>>

\* What child_loop does first in a round.
ChildReplies == "write"
ChildAwaits == "read"

Pin(p) ==
  /\ pc[p] = "pin"
  /\ Goto(p, IF p = "parent" THEN "loop" ELSE ChildAwaits)
  /\ UNCHANGED <<open, bytes, rounds, timer, timed, exit>>

\* pin_to_cpu_or_die: in split mode the child's CPU may not exist.
PinFails(p) == pc[p] = "pin" /\ Die(p)

-----------------------------------------------------------------------------
(* One byte.                                                                *)

\* write_byte_or_die
Write(p, pipe, next) ==
  /\ pc[p] = "write"
  /\ IF Readers(pipe) = {}
       THEN Kill(p)
       ELSE /\ bytes' = [bytes EXCEPT ![pipe] = @ + 1]
            /\ next
            /\ UNCHANGED <<open, timer, exit>>

\* read_byte_or_die: a byte, or the end of the file, which is fatal.
Read(p, pipe, next) ==
  /\ pc[p] = "read"
  /\ \/ /\ bytes[pipe] > 0
        /\ bytes' = [bytes EXCEPT ![pipe] = @ - 1]
        /\ next
        /\ UNCHANGED <<open, timer, exit>>
     \/ bytes[pipe] = 0 /\ Writers(pipe) = {} /\ Die(p)

\* Process p has completed a round of its loop.
RoundDone(p) == rounds' = [rounds EXCEPT ![p] = @ + 1]

-----------------------------------------------------------------------------
(* child_loop.                                                              *)

ChildRead == Read("child", "p2c", Goto("child", "write") /\ UNCHANGED <<rounds, timed>>)

ChildWrite ==
  Write("child", "c2p",
        /\ RoundDone("child")
        /\ Goto("child", IF rounds["child"] + 1 < TotalRounds THEN "read" ELSE "exit")
        /\ UNCHANGED timed)

ChildExit ==
  /\ pc["child"] = "exit"
  /\ End("child", "success")
  /\ UNCHANGED <<bytes, rounds, timer, timed>>

-----------------------------------------------------------------------------
(* main, after the fork.                                                    *)

\* The first of the two loops is over.
WarmedUp == rounds["parent"] = Warmup

\* t0 between the two loops, t1 and the two closes after the second one.
ParentLoop ==
  /\ pc["parent"] = "loop"
  /\ timer' = IF rounds["parent"] = TotalRounds THEN "stopped"
              ELSE IF WarmedUp THEN "running" ELSE timer
  /\ IF rounds["parent"] = TotalRounds
       THEN /\ open' = [open EXCEPT !["parent"] = {}]
            /\ Goto("parent", "wait")
       ELSE Goto("parent", "write") /\ UNCHANGED open
  /\ UNCHANGED <<bytes, rounds, timed, exit>>

ParentWrite == Write("parent", "p2c", Goto("parent", "read") /\ UNCHANGED <<rounds, timed>>)

ParentRead ==
  Read("parent", "c2p",
       /\ RoundDone("parent")
       /\ timed' = IF timer = "running" THEN timed + 1 ELSE timed
       /\ Goto("parent", "loop"))

\* waitpid, and what its status says of the child.
ExitedAtAll == TRUE
ExitedNormally == exit["child"] = "success"
Wait ==
  /\ pc["parent"] = "wait"
  /\ ~Alive("child")
  /\ IF ExitedNormally
       THEN End("parent", "success") /\ UNCHANGED <<bytes, rounds, timer, timed>>
       ELSE Die("parent")

-----------------------------------------------------------------------------
ParentStep == MakePipes \/ Fork \/ CloseUnused("parent") \/ Pin("parent")
              \/ ParentLoop \/ ParentWrite \/ ParentRead \/ Wait
ChildStep == CloseUnused("child") \/ Pin("child") \/ ChildRead \/ ChildWrite \/ ChildExit
Failure == SetupFails \/ \E p \in Procs : PinFails(p) \/ Kill(p)

Ended(p) == ~Alive(p) \/ pc[p] = "not_forked"
BothEnded == ~Alive("parent") /\ Ended("child")
Terminated == BothEnded /\ UNCHANGED vars

Next == ParentStep \/ ChildStep \/ Failure \/ Terminated

FairSpec == Init /\ [][Next]_vars /\ WF_vars(ParentStep) /\ WF_vars(ChildStep)
-----------------------------------------------------------------------------
(* Properties.                                                              *)

\* One byte goes round, so that a round trip is two hand-offs ("parent ->
\* child, child -> parent"): while the parent waits for its reply the byte
\* is in one pipe or in the child's hands, otherwise it is in neither pipe,
\* and the child is ahead by exactly the reply the parent has not read.
InChildsHands == pc["child"] = "write"
Lockstep ==
  Alive("parent") /\ Alive("child") =>
    /\ bytes["p2c"] + bytes["c2p"] + (IF InChildsHands THEN 1 ELSE 0)
         = (IF pc["parent"] = "read" THEN 1 ELSE 0)
    /\ rounds["child"] = rounds["parent"] + bytes["c2p"]

\* A line is printed only for a complete measurement: every round trip was
\* made, exactly the measured ones were timed, no byte is left over, and
\* the child ended by itself.  A failure anywhere leaves no line.
ReportHonest ==
  exit["parent"] = "success" =>
    /\ timer = "stopped" /\ timed = Iterations
    /\ rounds = [p \in Procs |-> TotalRounds]
    /\ bytes = [pipe \in Pipes |-> 0]
    /\ exit["child"] = "success"

\* Whichever process fails or is killed, and whenever, the other does not
\* block forever on a pipe or in waitpid.
BothEnd == <>BothEnded
=============================================================================
