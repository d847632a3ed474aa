-------------------------- MODULE OsBoundary_proofs --------------------------
(***************************************************************************)
(* What the labs of 03-os-boundary report is what they measured, for any   *)
(* number of pages, round trips and starts and any sizes of buffer and     *)
(* file: the byte of the ping-pong goes round, a success of the ping-pong  *)
(* or of copy-on-write is complete, and a file that is sampled is, too,    *)
(* and sampled alike by both modes.                                        *)
(*                                                                         *)
(* Then the two labs that count page faults: what the kernel shares,       *)
(* write-protects and copies is invisible to the processes, and the faults *)
(* they count are those of their mode.  KernelInvariant is about page      *)
(* tables and frames only.  Whatever the labs do, it holds, and no fault   *)
(* changes what a process sees (Seen): a frame that one process may write  *)
(* is mapped nowhere else, and there is always a free frame for a copy.    *)
(* CowMemory and CostMemory say how far each lab has come: which pages it  *)
(* has touched, what it saw there, and what it counted.                    *)
(***************************************************************************)
EXTENDS OsBoundary, ProofLemmas, SequenceTheorems

-----------------------------------------------------------------------------
(* The inductive invariant of context-switch.                               *)

ParentPcs == {"pipes", "fork", "close", "pin", "loop", "write", "read", "wait", "ended"}
ChildPcs == {"not_forked", "close", "pin", "read", "write", "exit", "ended"}
SwitchTypes ==
  /\ switchPc = [p \in Switch!Procs |-> switchPc[p]]
  /\ switchPc["parent"] \in ParentPcs /\ switchPc["child"] \in ChildPcs
  /\ status = [p \in Switch!Procs |-> status[p]]
  /\ \A p \in Switch!Procs : status[p] = "running" <=> switchPc[p] # "ended"
  /\ bytes \in [Switch!Pipes -> Nat]
  /\ rounds \in [Switch!Procs -> Nat]
  /\ timed \in Nat

\* One byte goes round as long as nobody has failed or been killed; a process
\* that has ended by itself leaves the balance as it was.
Fine(p) == status[p] \in {"running", "success"}
OneByte ==
  Fine("parent") /\ Fine("child") =>
    /\ bytes["p2c"] + bytes["c2p"] + (IF switchPc["child"] = "write" THEN 1 ELSE 0)
         = (IF switchPc["parent"] = "read" THEN 1 ELSE 0)
    /\ rounds["child"] = rounds["parent"] + bytes["c2p"]

\* Where a process is tells how far it has come.
ChildRounds ==
  /\ switchPc["child"] \in {"not_forked", "close", "pin"} => rounds["child"] = 0
  /\ switchPc["child"] \in {"read", "write"} => rounds["child"] < Switch!TotalRounds
  /\ switchPc["child"] = "exit" \/ status["child"] = "success" =>
       rounds["child"] = Switch!TotalRounds
  /\ switchPc["parent"] \in {"pipes", "fork"} => switchPc["child"] = "not_forked"
Measured ==
  /\ timer = "stopped" /\ timed = RoundTrips
  /\ rounds["parent"] = Switch!TotalRounds
ParentRounds ==
  /\ switchPc["parent"] \in {"pipes", "fork", "close", "pin"} =>
       timer = "before" /\ timed = 0 /\ rounds["parent"] = 0
  /\ switchPc["parent"] = "loop" =>
       \/ timer = "before" /\ timed = 0 /\ rounds["parent"] <= WarmupTrips
       \/ /\ timer = "running" /\ rounds["parent"] = WarmupTrips + timed
          /\ timed \in 1 .. RoundTrips
  /\ switchPc["parent"] \in {"write", "read"} =>
       \/ timer = "before" /\ timed = 0 /\ rounds["parent"] < WarmupTrips
       \/ timer = "running" /\ rounds["parent"] = WarmupTrips + timed /\ timed < RoundTrips
  /\ switchPc["parent"] = "wait" => Measured
  /\ status["parent"] = "success" => Measured /\ status["child"] = "success"

SwitchInvariant == SwitchTypes /\ OneByte /\ ChildRounds /\ ParentRounds

-----------------------------------------------------------------------------
(* That of copy-on-write, as far as its exit statuses go.                   *)

RowPrinted == Len(rows) = 1 /\ i["child"] = NumPages
CowInvariant ==
  /\ pc = [p \in Cow!Family |-> pc[p]] /\ exit = [p \in Cow!Family |-> exit[p]]
  /\ i \in [Cow!Family -> Nat]
  /\ pc["parent"] \in {"mmap", "warmup", "fork", "wait", "ended"}
  /\ pc["child"] \in {"not_forked", "getrusage", "touch", "munmap", "ended"}
  /\ \A p \in Cow!Family : exit[p] = "running" <=> pc[p] # "ended"
  /\ pc["child"] \in {"not_forked", "getrusage", "touch"} => rows = <<>>
  /\ pc["child"] \in {"not_forked", "getrusage"} => i["child"] = 0
  /\ i["child"] <= NumPages
  /\ pc["child"] = "munmap" \/ exit["child"] = "success" => RowPrinted
  /\ exit["parent"] = "success" => exit["child"] = "success"
  /\ pc["parent"] \in {"mmap", "warmup", "fork"} => pc["child"] = "not_forked"

-----------------------------------------------------------------------------
(* That of mmap-vs-read: any file that is ever there is the beginning of    *)
(* the pattern, and one that is being written lacks whole buffers.          *)

PatternFile ==
  /\ file \in Seq(Nat)
  /\ \A k \in 1 .. Len(file) : file[k] = (k - 1) % Buffer
Unfinished ==
  samplingPc = "write" =>
    /\ remaining \in Nat /\ Len(file) + remaining = cfg.size
    /\ Len(file) % Buffer = 0 /\ remaining % Buffer = 0
SamplingInvariant ==
  /\ samplingPc \in {"ended", "prepare", "write", "read", "mmap", "rows"}
  /\ samplingPc # "ended" => cfg \in Sampling!Options
  /\ PatternFile
  /\ Unfinished
  /\ samplingPc \in {"read", "mmap", "rows"} => Len(file) = cfg.size

\* What a mode has sampled of a file f when it has gone through its first n
\* bytes with stride s.
Multiples(s, n) == {off \in 0 .. n - 1 : off % s = 0}
FileByte(f) == [off \in 0 .. Len(f) - 1 |-> f[off + 1]]
Sampled(f, s, n) ==
  [at |-> Multiples(s, n), samples |-> Cardinality(Multiples(s, n)),
   checksum |-> SumFunctionOnSet(FileByte(f), Multiples(s, n))]

\* With chunks of whole strides every chunk but the last ends where the next
\* sample is due, so that the chunks sample what a single loop would.
AlignedWork ==
  /\ result = [way \in {"read", "mmap"} |-> result[way]]
  /\ pos \in 0 .. Len(file)
  /\ pos % cfg.stride = 0 \/ pos = Len(file)
  /\ samplingPc # "read" => pos = Len(file)
  /\ result["read"] = Sampled(file, cfg.stride, pos)
  /\ result["mmap"] = Sampled(file, cfg.stride, IF samplingPc = "rows" THEN pos ELSE 0)
WorkInvariant ==
  /\ samplingPc \in {"prepare", "write"} => pos = 0 /\ result = Sampling!Nothing
  /\ samplingPc \in {"read", "mmap", "rows"} /\ cfg.chunk % cfg.stride = 0 => AlignedWork

-----------------------------------------------------------------------------
(* context-switch.                                                          *)

\* The two processes and the two pipes.
LEMMA TheProcesses ==
  /\ Switch!Procs = {"parent", "child"} /\ Switch!Pipes = {"p2c", "c2p"}
  /\ WarmupTrips \in Nat /\ RoundTrips \in Nat \ {0}
  /\ Switch!TotalRounds \in Nat /\ Switch!TotalRounds = WarmupTrips + RoundTrips
BY OsAssumption DEF Switch!Procs, Switch!Pipes, Switch!TotalRounds

\* A process that goes on is the only one that does.
LEMMA SwitchGoto ==
  ASSUME SwitchTypes, NEW p \in Switch!Procs, NEW to, Switch!Goto(p, to)
  PROVE  /\ switchPc' = [q \in Switch!Procs |-> switchPc'[q]] /\ switchPc'[p] = to
         /\ \A q \in Switch!Procs : q # p => switchPc'[q] = switchPc[q]
BY DEF SwitchTypes, Switch!Goto

\* Who fails or is killed upsets no balance that is still kept.
LEMMA SwitchEnds ==
  ASSUME SwitchInvariant, NEW p \in Switch!Procs, NEW how \in {"failure", "killed"},
         Switch!End(p, how), status[p] = "running", switchPc[p] # "not_forked",
         UNCHANGED <<bytes, rounds, timer, timed>>
  PROVE  SwitchInvariant'
<1> USE TheProcesses DEF SwitchInvariant
<1>1. /\ switchPc' = [q \in Switch!Procs |-> switchPc'[q]] /\ switchPc'[p] = "ended"
      /\ \A q \in Switch!Procs : q # p => switchPc'[q] = switchPc[q]
  BY SwitchGoto DEF Switch!End
<1>2. /\ status' = [q \in Switch!Procs |-> status'[q]] /\ status'[p] = how
      /\ \A q \in Switch!Procs : q # p => status'[q] = status[q]
  BY DEF Switch!End, SwitchTypes
<1>3. SwitchTypes'
  BY <1>1, <1>2 DEF SwitchTypes, ParentPcs, ChildPcs
<1>4. OneByte'
  BY <1>2 DEF OneByte, Fine
<1>5. ChildRounds'
  BY <1>1, <1>2 DEF ChildRounds
<1>6. ParentRounds'
  BY <1>1, <1>2 DEF ParentRounds, Measured
<1> QED BY <1>3, <1>4, <1>5, <1>6

\* A step that leaves pipes, rounds and the timer alone.
LEMMA SwitchGoesOn ==
  ASSUME SwitchInvariant, NEW p \in Switch!Procs, NEW to, Switch!Goto(p, to),
         UNCHANGED <<bytes, rounds, timer, timed, status>>,
         \/ p = "parent" /\ switchPc[p] = "pipes" /\ to = "fork"
         \/ switchPc[p] = "close" /\ to = "pin"
         \/ p = "parent" /\ switchPc[p] = "pin" /\ to = "loop"
         \/ p = "child" /\ switchPc[p] = "pin" /\ to = "read"
  PROVE  SwitchInvariant'
<1> USE TheProcesses DEF SwitchInvariant
<1>1. /\ switchPc' = [q \in Switch!Procs |-> switchPc'[q]] /\ switchPc'[p] = to
      /\ \A q \in Switch!Procs : q # p => switchPc'[q] = switchPc[q]
  BY SwitchGoto
<1>2. SwitchTypes'
  BY <1>1 DEF SwitchTypes, ParentPcs, ChildPcs
<1>3. OneByte'
  BY <1>1 DEF OneByte, Fine, SwitchTypes
<1>4. ChildRounds'
  BY <1>1 DEF ChildRounds, SwitchTypes
<1>5. ParentRounds'
  BY <1>1 DEF ParentRounds, Measured, SwitchTypes
<1> QED BY <1>2, <1>3, <1>4, <1>5

\* The fork, after which both processes run.
LEMMA SwitchForks == ASSUME SwitchInvariant, Switch!Fork PROVE SwitchInvariant'
<1> USE TheProcesses DEF SwitchInvariant
<1>1. /\ switchPc["parent"] = "fork" /\ switchPc["child"] = "not_forked"
      /\ switchPc' = [q \in Switch!Procs |-> "close"]
      /\ UNCHANGED <<bytes, rounds, timer, timed, status>>
  BY DEF Switch!Fork, ChildRounds
<1>2. SwitchTypes'
  BY <1>1 DEF SwitchTypes, ParentPcs, ChildPcs
<1>3. OneByte'
  BY <1>1 DEF OneByte, Fine, SwitchTypes
<1>4. ChildRounds'
  BY <1>1 DEF ChildRounds, SwitchTypes
<1>5. ParentRounds'
  BY <1>1 DEF ParentRounds, Measured, SwitchTypes
<1> QED BY <1>2, <1>3, <1>4, <1>5

\* The parent's loop starts and stops the timer.
LEMMA SwitchLoops == ASSUME SwitchInvariant, Switch!ParentLoop PROVE SwitchInvariant'
<1> USE TheProcesses DEF SwitchInvariant
<1>1. PICK to : Switch!Goto("parent", to) /\ switchPc["parent"] = "loop"
                /\ to = (IF rounds["parent"] = Switch!TotalRounds THEN "wait" ELSE "write")
  BY DEF Switch!ParentLoop
<1>2. /\ timer' = (IF rounds["parent"] = Switch!TotalRounds THEN "stopped"
                   ELSE IF rounds["parent"] = WarmupTrips THEN "running" ELSE timer)
      /\ UNCHANGED <<bytes, rounds, timed, status>>
  BY DEF Switch!ParentLoop, Switch!WarmedUp
<1>3. /\ switchPc' = [q \in Switch!Procs |-> switchPc'[q]] /\ switchPc'["parent"] = to
      /\ switchPc'["child"] = switchPc["child"]
  BY <1>1, SwitchGoto
<1>4. SwitchTypes'
  BY <1>1, <1>2, <1>3 DEF SwitchTypes, ParentPcs, ChildPcs
<1>5. OneByte'
  BY <1>1, <1>2, <1>3 DEF OneByte, Fine, SwitchTypes
<1>6. ChildRounds'
  BY <1>1, <1>2, <1>3 DEF ChildRounds, SwitchTypes
<1>7. ParentRounds'
  <2>1. rounds["parent"] \in Nat /\ timed \in Nat /\ status["parent"] = "running"
    BY <1>1 DEF SwitchTypes
  <2>2. CASE rounds["parent"] = Switch!TotalRounds
    BY <1>1, <1>2, <1>3, <2>1, <2>2 DEF ParentRounds, Measured
  <2>3. CASE rounds["parent"] # Switch!TotalRounds
    BY <1>1, <1>2, <1>3, <2>1, <2>3 DEF ParentRounds, Measured
  <2> QED BY <2>2, <2>3
<1> QED BY <1>4, <1>5, <1>6, <1>7

\* The parent sends its byte, unless the child has gone.
LEMMA SwitchParentWrites == ASSUME SwitchInvariant, Switch!ParentWrite PROVE SwitchInvariant'
<1> USE TheProcesses DEF SwitchInvariant
<1>1. switchPc["parent"] = "write" /\ status["parent"] = "running"
  BY DEF Switch!ParentWrite, Switch!Write, SwitchTypes
<1>2. CASE Switch!Kill("parent")
  BY <1>1, <1>2, SwitchEnds DEF Switch!Kill
<1>3. CASE /\ bytes' = [bytes EXCEPT !["p2c"] = @ + 1] /\ Switch!Goto("parent", "read")
           /\ UNCHANGED <<rounds, timed, timer, status>>
  <2>1. /\ switchPc' = [q \in Switch!Procs |-> switchPc'[q]] /\ switchPc'["parent"] = "read"
        /\ switchPc'["child"] = switchPc["child"]
    BY <1>3, SwitchGoto
  <2>2. SwitchTypes'
    BY <1>1, <1>3, <2>1 DEF SwitchTypes, ParentPcs, ChildPcs
  <2>3. OneByte'
    BY <1>1, <1>3, <2>1 DEF OneByte, Fine, SwitchTypes
  <2>4. ChildRounds'
    BY <1>1, <1>3, <2>1 DEF ChildRounds, SwitchTypes
  <2>5. ParentRounds'
    BY <1>1, <1>3, <2>1 DEF ParentRounds, Measured, SwitchTypes
  <2> QED BY <2>2, <2>3, <2>4, <2>5
<1> QED BY <1>2, <1>3 DEF Switch!ParentWrite, Switch!Write

\* The parent receives its reply, or the end of the file.
LEMMA SwitchParentReads == ASSUME SwitchInvariant, Switch!ParentRead PROVE SwitchInvariant'
<1> USE TheProcesses DEF SwitchInvariant
<1>1. switchPc["parent"] = "read" /\ status["parent"] = "running"
  BY DEF Switch!ParentRead, Switch!Read, SwitchTypes
<1>2. CASE Switch!Die("parent")
  BY <1>1, <1>2, SwitchEnds DEF Switch!Die
<1>3. CASE /\ bytes["c2p"] > 0 /\ bytes' = [bytes EXCEPT !["c2p"] = @ - 1]
           /\ rounds' = [rounds EXCEPT !["parent"] = @ + 1]
           /\ timed' = (IF timer = "running" THEN timed + 1 ELSE timed)
           /\ Switch!Goto("parent", "loop") /\ UNCHANGED <<timer, status>>
  <2>1. /\ switchPc' = [q \in Switch!Procs |-> switchPc'[q]] /\ switchPc'["parent"] = "loop"
        /\ switchPc'["child"] = switchPc["child"]
    BY <1>3, SwitchGoto
  <2>2. /\ bytes'["c2p"] = bytes["c2p"] - 1 /\ bytes'["p2c"] = bytes["p2c"]
        /\ rounds'["parent"] = rounds["parent"] + 1 /\ rounds'["child"] = rounds["child"]
        /\ bytes' \in [Switch!Pipes -> Nat] /\ rounds' \in [Switch!Procs -> Nat] /\ timed' \in Nat
    BY <1>3 DEF SwitchTypes
  <2>3. SwitchTypes'
    BY <1>1, <1>3, <2>1, <2>2 DEF SwitchTypes, ParentPcs, ChildPcs
  <2>4. OneByte'
    <3> SUFFICES ASSUME Fine("parent"), Fine("child") PROVE OneByte'
      BY <1>3 DEF OneByte, Fine
    <3>1. /\ bytes["p2c"] \in Nat /\ bytes["c2p"] \in Nat
          /\ rounds["parent"] \in Nat /\ rounds["child"] \in Nat
      BY DEF SwitchTypes
    <3>2. /\ bytes["c2p"] = 1 /\ bytes["p2c"] = 0 /\ switchPc["child"] # "write"
          /\ rounds["child"] = rounds["parent"] + 1
      BY <1>1, <1>3, <3>1 DEF OneByte
    <3> QED BY <2>1, <2>2, <3>1, <3>2 DEF OneByte
  <2>5. ChildRounds'
    BY <1>1, <1>3, <2>1, <2>2 DEF ChildRounds, SwitchTypes
  <2>6. ParentRounds'
    BY <1>1, <1>3, <2>1, <2>2 DEF ParentRounds, Measured, SwitchTypes
  <2> QED BY <2>3, <2>4, <2>5, <2>6
<1> QED BY <1>2, <1>3 DEF Switch!ParentRead, Switch!Read, Switch!RoundDone

\* The parent's end, after the child's.
LEMMA SwitchWaits == ASSUME SwitchInvariant, Switch!Wait PROVE SwitchInvariant'
<1> USE TheProcesses DEF SwitchInvariant
<1>1. switchPc["parent"] = "wait" /\ status["parent"] = "running"
  BY DEF Switch!Wait, SwitchTypes
<1>2. CASE Switch!Die("parent")
  BY <1>1, <1>2, SwitchEnds DEF Switch!Die
<1>3. CASE /\ status["child"] = "success" /\ Switch!End("parent", "success")
           /\ UNCHANGED <<bytes, rounds, timer, timed>>
  <2>1. /\ switchPc' = [q \in Switch!Procs |-> switchPc'[q]] /\ switchPc'["parent"] = "ended"
        /\ switchPc'["child"] = switchPc["child"]
        /\ status' = [q \in Switch!Procs |-> status'[q]] /\ status'["parent"] = "success"
        /\ status'["child"] = status["child"]
    BY <1>3, SwitchGoto DEF Switch!End, SwitchTypes
  <2>2. SwitchTypes'
    BY <1>3, <2>1 DEF SwitchTypes, ParentPcs, ChildPcs
  <2>3. OneByte'
    BY <1>1, <1>3, <2>1 DEF OneByte, Fine
  <2>4. ChildRounds'
    BY <1>3, <2>1 DEF ChildRounds
  <2>5. ParentRounds'
    BY <1>1, <1>3, <2>1 DEF ParentRounds, Measured
  <2> QED BY <2>2, <2>3, <2>4, <2>5
<1> QED BY <1>2, <1>3 DEF Switch!Wait, Switch!ExitedNormally

\* The child receives the byte, or the end of the file.
LEMMA SwitchChildReads == ASSUME SwitchInvariant, Switch!ChildRead PROVE SwitchInvariant'
<1> USE TheProcesses DEF SwitchInvariant
<1>1. switchPc["child"] = "read" /\ status["child"] = "running"
  BY DEF Switch!ChildRead, Switch!Read, SwitchTypes
<1>2. CASE Switch!Die("child")
  BY <1>1, <1>2, SwitchEnds DEF Switch!Die
<1>3. CASE /\ bytes["p2c"] > 0 /\ bytes' = [bytes EXCEPT !["p2c"] = @ - 1]
           /\ Switch!Goto("child", "write") /\ UNCHANGED <<rounds, timed, timer, status>>
  <2>1. /\ switchPc' = [q \in Switch!Procs |-> switchPc'[q]] /\ switchPc'["child"] = "write"
        /\ switchPc'["parent"] = switchPc["parent"]
    BY <1>3, SwitchGoto
  <2>2. /\ bytes'["p2c"] = bytes["p2c"] - 1 /\ bytes'["c2p"] = bytes["c2p"]
        /\ bytes' \in [Switch!Pipes -> Nat]
    BY <1>3 DEF SwitchTypes
  <2>3. SwitchTypes'
    BY <1>1, <1>3, <2>1, <2>2 DEF SwitchTypes, ParentPcs, ChildPcs
  <2>4. OneByte'
    BY <1>1, <1>3, <2>1, <2>2 DEF OneByte, Fine, SwitchTypes
  <2>5. ChildRounds'
    BY <1>1, <1>3, <2>1 DEF ChildRounds, SwitchTypes
  <2>6. ParentRounds'
    BY <1>1, <1>3, <2>1 DEF ParentRounds, Measured, SwitchTypes
  <2> QED BY <2>3, <2>4, <2>5, <2>6
<1> QED BY <1>2, <1>3 DEF Switch!ChildRead, Switch!Read

\* The child sends it back, unless the parent has gone.
LEMMA SwitchChildWrites == ASSUME SwitchInvariant, Switch!ChildWrite PROVE SwitchInvariant'
<1> USE TheProcesses DEF SwitchInvariant
<1>1. switchPc["child"] = "write" /\ status["child"] = "running"
  BY DEF Switch!ChildWrite, Switch!Write, SwitchTypes
<1>2. CASE Switch!Kill("child")
  BY <1>1, <1>2, SwitchEnds DEF Switch!Kill
<1>3. ASSUME NEW to, Switch!Goto("child", to),
             to = (IF rounds["child"] + 1 < Switch!TotalRounds THEN "read" ELSE "exit"),
             bytes' = [bytes EXCEPT !["c2p"] = @ + 1],
             rounds' = [rounds EXCEPT !["child"] = @ + 1],
             UNCHANGED <<timed, timer, status>>
      PROVE  SwitchInvariant'
  <2>1. /\ switchPc' = [q \in Switch!Procs |-> switchPc'[q]] /\ switchPc'["child"] = to
        /\ switchPc'["parent"] = switchPc["parent"]
    BY <1>3, SwitchGoto
  <2>2. /\ bytes'["c2p"] = bytes["c2p"] + 1 /\ bytes'["p2c"] = bytes["p2c"]
        /\ rounds'["child"] = rounds["child"] + 1 /\ rounds'["parent"] = rounds["parent"]
        /\ bytes' \in [Switch!Pipes -> Nat] /\ rounds' \in [Switch!Procs -> Nat]
    BY <1>3 DEF SwitchTypes
  <2>3. SwitchTypes'
    BY <1>1, <1>3, <2>1, <2>2 DEF SwitchTypes, ParentPcs, ChildPcs
  <2>4. OneByte'
    <3> SUFFICES ASSUME Fine("parent"), Fine("child") PROVE OneByte'
      BY <1>3 DEF OneByte, Fine
    <3>1. /\ bytes["p2c"] \in Nat /\ bytes["c2p"] \in Nat
          /\ rounds["parent"] \in Nat /\ rounds["child"] \in Nat
      BY DEF SwitchTypes
    <3>2. /\ bytes["c2p"] = 0 /\ bytes["p2c"] = 0 /\ switchPc["parent"] = "read"
          /\ rounds["child"] = rounds["parent"]
      BY <1>1, <3>1 DEF OneByte
    <3>3. switchPc'["child"] # "write"
      BY <1>3, <2>1
    <3> QED BY <2>1, <2>2, <3>1, <3>2, <3>3 DEF OneByte
  <2>5. ChildRounds'
    BY <1>1, <1>3, <2>1, <2>2 DEF ChildRounds, SwitchTypes
  <2>6. ParentRounds'
    BY <1>1, <1>3, <2>1, <2>2 DEF ParentRounds, Measured, SwitchTypes
  <2> QED BY <2>3, <2>4, <2>5, <2>6
<1> QED BY <1>2, <1>3 DEF Switch!ChildWrite, Switch!Write, Switch!RoundDone

\* The child's end.
LEMMA SwitchChildExits == ASSUME SwitchInvariant, Switch!ChildExit PROVE SwitchInvariant'
<1> USE TheProcesses DEF SwitchInvariant
<1>1. /\ switchPc["child"] = "exit" /\ Switch!End("child", "success")
      /\ UNCHANGED <<bytes, rounds, timer, timed>>
  BY DEF Switch!ChildExit
<1>2. /\ switchPc' = [q \in Switch!Procs |-> switchPc'[q]] /\ switchPc'["child"] = "ended"
      /\ switchPc'["parent"] = switchPc["parent"]
      /\ status' = [q \in Switch!Procs |-> status'[q]] /\ status'["child"] = "success"
      /\ status'["parent"] = status["parent"]
  BY <1>1, SwitchGoto DEF Switch!End, SwitchTypes
<1>3. SwitchTypes'
  BY <1>1, <1>2 DEF SwitchTypes, ParentPcs, ChildPcs
<1>4. OneByte'
  BY <1>1, <1>2 DEF OneByte, Fine, SwitchTypes
<1>5. ChildRounds'
  BY <1>1, <1>2 DEF ChildRounds
<1>6. ParentRounds'
  BY <1>1, <1>2 DEF ParentRounds, Measured
<1> QED BY <1>3, <1>4, <1>5, <1>6

\* All of context_switch.c.
LEMMA SwitchStep ==
  ASSUME SwitchInvariant, Switch!Next \/ UNCHANGED switchVars PROVE SwitchInvariant'
<1> USE TheProcesses
<1>1. CASE UNCHANGED switchVars
  BY <1>1 DEF switchVars, SwitchInvariant, SwitchTypes, OneByte, ChildRounds, ParentRounds,
              Measured, Fine
<1>2. CASE Switch!ParentStep
  <2>1. Switch!MakePipes => SwitchInvariant'
    BY SwitchGoesOn DEF Switch!MakePipes
  <2>2. Switch!CloseUnused("parent") => SwitchInvariant'
    BY SwitchGoesOn DEF Switch!CloseUnused
  <2>3. Switch!Pin("parent") => SwitchInvariant'
    BY SwitchGoesOn DEF Switch!Pin
  <2> QED BY <1>2, <2>1, <2>2, <2>3, SwitchForks, SwitchLoops, SwitchParentWrites,
             SwitchParentReads, SwitchWaits DEF Switch!ParentStep
<1>3. CASE Switch!ChildStep
  <2>1. Switch!CloseUnused("child") => SwitchInvariant'
    BY SwitchGoesOn DEF Switch!CloseUnused
  <2>2. Switch!Pin("child") => SwitchInvariant'
    BY SwitchGoesOn DEF Switch!Pin, Switch!ChildAwaits
  <2> QED BY <1>3, <2>1, <2>2, SwitchChildReads, SwitchChildWrites, SwitchChildExits
          DEF Switch!ChildStep
<1>4. CASE Switch!Failure
  <2>1. ASSUME NEW p \in Switch!Procs, Switch!Kill(p) PROVE SwitchInvariant'
    BY <2>1, SwitchEnds DEF Switch!Kill, Switch!Alive
  <2>2. ASSUME NEW p \in Switch!Procs, Switch!Die(p), switchPc[p] \in {"pipes", "fork", "pin"}
        PROVE  SwitchInvariant'
    <3>1. status[p] = "running" /\ switchPc[p] # "not_forked"
      BY <2>2 DEF SwitchInvariant, SwitchTypes
    <3> QED BY <2>2, <3>1, SwitchEnds DEF Switch!Die
  <2> QED BY <1>4, <2>1, <2>2 DEF Switch!Failure, Switch!SetupFails, Switch!PinFails
<1>5. CASE Switch!Terminated
  BY <1>1, <1>5 DEF Switch!Terminated, Switch!vars, switchVars
<1> QED BY <1>1, <1>2, <1>3, <1>4, <1>5 DEF Switch!Next

\* The start.
LEMMA SwitchInit == Switch!Init => SwitchInvariant
<1> SUFFICES ASSUME Switch!Init PROVE SwitchInvariant
  OBVIOUS
<1> USE TheProcesses DEF Switch!Init
<1>1. SwitchTypes /\ OneByte
  BY DEF SwitchTypes, ParentPcs, ChildPcs, OneByte
<1>2. ChildRounds /\ ParentRounds
  BY DEF ChildRounds, ParentRounds
<1> QED BY <1>1, <1>2 DEF SwitchInvariant

-----------------------------------------------------------------------------
(* copy-on-write.                                                           *)

\* The end of a process.
LEMMA CowEnds ==
  ASSUME CowInvariant, NEW p \in Cow!Family, NEW how, Cow!End(p, how), how # "running",
         exit[p] = "running", pc[p] # "not_forked",
         how = "success" => IF p = "child" THEN RowPrinted ELSE exit["child"] = "success"
  PROVE  CowInvariant'
<1>1. /\ pc' = [q \in Cow!Family |-> pc'[q]] /\ pc'[p] = "ended"
      /\ \A q \in Cow!Family : q # p => pc'[q] = pc[q]
      /\ exit' = [q \in Cow!Family |-> exit'[q]] /\ exit'[p] = how
      /\ \A q \in Cow!Family : q # p => exit'[q] = exit[q]
      /\ UNCHANGED <<i, rows>>
  BY DEF Cow!End, Cow!Goto, CowInvariant
<1> QED BY <1>1 DEF CowInvariant, RowPrinted, Cow!Family

\* All of cow.c.
LEMMA CowStep == ASSUME CowInvariant, Cow!Next \/ UNCHANGED cowVars PROVE CowInvariant'
<1> USE OsAssumption DEF Cow!Family
<1>1. CASE UNCHANGED cowVars
  BY <1>1 DEF cowVars, CowInvariant, RowPrinted
<1>2. ASSUME NEW p \in Cow!Family, NEW to, Cow!Goto(p, to), UNCHANGED <<i, rows, exit>>,
             \/ p = "parent" /\ pc[p] = "mmap" /\ to \in {"warmup", "fork"}
             \/ p = "parent" /\ pc[p] = "warmup" /\ to = "fork"
             \/ p = "child" /\ pc[p] = "getrusage" /\ to = "touch"
      PROVE  CowInvariant'
  <2>1. /\ pc' = [q \in Cow!Family |-> pc'[q]] /\ pc'[p] = to
        /\ \A q \in Cow!Family : q # p => pc'[q] = pc[q]
    BY <1>2 DEF Cow!Goto, CowInvariant
  <2> QED BY <1>2, <2>1 DEF CowInvariant, RowPrinted
<1>3. CASE Cow!Parent
  <2>1. Cow!MapBuffer => CowInvariant'
    BY <1>2 DEF Cow!MapBuffer
  <2>2. Cow!SetupFails => CowInvariant'
    BY CowEnds DEF Cow!SetupFails, CowInvariant
  <2>3. Cow!WarmupPage => CowInvariant'
    BY DEF Cow!WarmupPage, Cow!cow, CowInvariant, RowPrinted
  <2>4. Cow!WarmupDone => CowInvariant'
    BY <1>2 DEF Cow!WarmupDone
  <2>5. Cow!Fork => CowInvariant'
    BY DEF Cow!Fork, CowInvariant, RowPrinted
  <2>6. Cow!Reap => CowInvariant'
    BY CowEnds DEF Cow!Reap, Cow!Status, CowInvariant
  <2> QED BY <1>3, <2>1, <2>2, <2>3, <2>4, <2>5, <2>6 DEF Cow!Parent
<1>4. CASE Cow!Child
  <2>1. Cow!MeasureBefore => CowInvariant'
    BY <1>2 DEF Cow!MeasureBefore
  <2>2. ASSUME Cow!Touch PROVE CowInvariant'
    <3>1. pc["child"] = "touch" /\ i["child"] \in 0 .. NumPages - 1 /\ UNCHANGED <<pc, rows, exit>>
      BY <2>2 DEF Cow!Touch, Cow!cow, Cow!Pages
    <3>2. i' = i \/ i' = [i EXCEPT !["child"] = @ + 1]
      BY <2>2 DEF Cow!Touch, Cow!cow
    <3> QED BY <3>1, <3>2 DEF CowInvariant, RowPrinted
  <2>3. ASSUME Cow!PrintRow PROVE CowInvariant'
    <3>1. /\ pc["child"] = "touch" /\ i["child"] = NumPages /\ rows = <<>>
      BY <2>3 DEF Cow!PrintRow, Cow!Pages, CowInvariant
    <3>2. \A x : Len(Append(<<>>, x)) = 1
      OBVIOUS
    <3>3. Len(rows') = 1 /\ UNCHANGED <<i, exit>>
      BY <2>3, <3>1, <3>2 DEF Cow!PrintRow
    <3>4. /\ pc' = [q \in Cow!Family |-> pc'[q]] /\ pc'["child"] = "munmap"
          /\ pc'["parent"] = pc["parent"]
      BY <2>3 DEF Cow!PrintRow, Cow!Goto, CowInvariant
    <3> QED BY <3>1, <3>3, <3>4 DEF CowInvariant, RowPrinted
  <2>4. Cow!ChildExit => CowInvariant'
    BY CowEnds DEF Cow!ChildExit, CowInvariant
  <2>5. Cow!ChildFails => CowInvariant'
    BY CowEnds DEF Cow!ChildFails, CowInvariant
  <2> QED BY <1>4, <2>1, <2>2, <2>3, <2>4, <2>5 DEF Cow!Child
<1>5. ASSUME NEW p \in Cow!Family, Cow!Kill(p) PROVE CowInvariant'
  BY <1>5, CowEnds DEF Cow!Kill, Cow!Alive
<1>6. CASE Cow!Terminated
  BY <1>1, <1>6 DEF Cow!Terminated, Cow!vars, Cow!cow, cowVars
<1> QED BY <1>1, <1>3, <1>4, <1>5, <1>6 DEF Cow!Next

\* The start.
LEMMA CowInit == Cow!Init => CowInvariant
BY OsAssumption DEF Cow!Init, CowInvariant, RowPrinted, Cow!Family

-----------------------------------------------------------------------------
(* mmap-vs-read.                                                            *)

\* A file of whole buffers takes another buffer, or the beginning of one, and
\* stays the beginning of the pattern.
LEMMA PatternGoesOn ==
  ASSUME PatternFile, Len(file) % Buffer = 0, NEW n \in 0 .. Buffer,
         file' = file \o SubSeq(Sampling!FullBuffer, 1, n)
  PROVE  PatternFile' /\ Len(file') = Len(file) + n
<1> USE OsAssumption
<1>1. PICK more \in Seq(Nat) : /\ more = SubSeq(Sampling!FullBuffer, 1, n)
                               /\ Len(more) = n /\ \A k \in 1 .. n : more[k] = k - 1
  <2>1. PICK b \in Nat : b = Buffer
    OBVIOUS
  <2>2. PICK f : f = Sampling!FullBuffer /\ f = [k \in 1 .. b |-> k - 1]
    BY <2>1 DEF Sampling!FullBuffer
  <2>3. f \in Seq(Nat) /\ Len(f) = b
    BY <2>2
  <2>4. n \in Nat /\ n <= b
    BY <2>1
  <2>5. /\ SubSeq(f, 1, n) \in Seq(Nat) /\ Len(SubSeq(f, 1, n)) = n
        /\ \A k \in 1 .. n : SubSeq(f, 1, n)[k] = f[k]
    <3>1. PICK one \in Int : one = 1
      OBVIOUS
    <3>2. PICK N : N = Nat
      OBVIOUS
    <3>3. n \in Int
      BY <2>4
    <3>4. \A k \in one .. n : f[k] \in N
      BY <2>2, <2>4, <3>1, <3>2
    <3>5. /\ SubSeq(f, one, n) \in Seq(N)
          /\ Len(SubSeq(f, one, n)) = IF one <= n THEN n - one + 1 ELSE 0
          /\ \A k \in 1 .. n - one + 1 : SubSeq(f, one, n)[k] = f[one + k - 1]
      BY <3>3, <3>4, SubSeqProperties
    <3>6. n - one + 1 = n /\ \A k \in 1 .. n : one + k - 1 = k
      BY <2>4, <3>1
    <3>7. \A k \in 1 .. n : SubSeq(f, 1, n)[k] = f[k]
      BY <3>1, <3>5, <3>6
    <3> QED BY <2>4, <3>1, <3>2, <3>5, <3>6, <3>7
  <2>6. \A k \in 1 .. n : f[k] = k - 1
    BY <2>2, <2>4
  <2> QED BY <2>2, <2>5, <2>6
<1>2. PICK l \in Nat : l = Len(file)
  <2>1. file \in Seq(Nat)
    BY DEF PatternFile
  <2>2. Len(file) \in Nat
    BY ONLY <2>1
  <2> QED BY ONLY <2>2, Zenon
<1>3. file' = file \o more /\ file' \in Seq(Nat) /\ Len(file') = l + n
  BY <1>1, <1>2 DEF PatternFile
<1>4. ASSUME NEW k \in 1 .. l + n PROVE file'[k] = (k - 1) % Buffer
  <2>1. CASE k <= l
    BY <1>2, <1>3, <2>1 DEF PatternFile
  <2>2. CASE k > l
    <3>1. k - l \in 1 .. n
      BY <2>2
    <3>2. file'[k] = more[k - l]
      <4>1. PICK old \in Seq(Nat) : old = file
        BY DEF PatternFile
      <4>2. k \in Int /\ k > Len(old) /\ k <= Len(old) + Len(more) /\ Len(old) = l
        BY <1>1, <1>2, <2>2, <4>1
      <4>3. (old \o more)[k] = more[k - Len(old)]
        BY ONLY <4>2, old \in Seq(Nat), more \in Seq(Nat)
      <4> QED BY ONLY <1>3, <4>1, <4>2, <4>3
    <3>3. PICK d \in 0 .. Buffer - 1 : d = k - l - 1
      BY <3>1
    <3>4. file'[k] = d
      BY <1>1, <3>1, <3>2, <3>3
    <3>5. ((l % Buffer) + d) % Buffer = (l + d) % Buffer
      <4>1. d \in Nat
        OBVIOUS
      <4> QED BY <4>1, ModSum
    <3>6. l % Buffer = 0
      BY <1>2
    <3>7. (0 + d) % Buffer = d
      <4>1. d \in Nat /\ d < Buffer /\ 0 + d = d
        OBVIOUS
      <4> QED BY <4>1, ModSmall
    <3>8. l + d = k - 1
      BY <3>3
    <3> QED BY <3>4, <3>5, <3>6, <3>7, <3>8
  <2>3. k <= l \/ k > l
    OBVIOUS
  <2> QED BY <2>1, <2>2, <2>3, Zenon
<1> QED BY <1>2, <1>3, <1>4 DEF PatternFile

\* What is left of whole buffers is nothing or at least one buffer.
LEMMA WholeBuffers ==
  ASSUME NEW r \in Nat, r % Buffer = 0, r > 0 PROVE Buffer <= r
<1>1. ASSUME r < Buffer PROVE FALSE
  <2>1. r % Buffer = r
    BY <1>1, OsAssumption, ModSmall
  <2> QED BY <2>1
<1> QED BY <1>1, OsAssumption

\* One write of a file that is not finished, of which the last may be short.
LEMMA SamplingWrites ==
  ASSUME SamplingInvariant, samplingPc = "write"
  PROVE  /\ Sampling!WriteChunk => SamplingInvariant'
         /\ Sampling!ShortWrite => SamplingInvariant'
<1> USE OsAssumption
<1>1. /\ remaining \in Nat /\ Len(file) + remaining = cfg.size
      /\ Len(file) % Buffer = 0 /\ remaining % Buffer = 0 /\ PatternFile /\ Len(file) \in Nat
  BY DEF SamplingInvariant, Unfinished, PatternFile
<1>2. Sampling!Wanted \in 0 .. Buffer /\ (remaining > 0 => Sampling!Wanted = Buffer)
  <2>1. CASE remaining = 0
    <3>1. Sampling!Min({remaining, Buffer}) = 0
      BY <2>1 DEF Sampling!Min
    <3> QED BY <2>1, <3>1 DEF Sampling!Wanted
  <2>2. CASE remaining > 0
    <3>1. Buffer <= remaining
      BY <1>1, <2>2, WholeBuffers
    <3>2. Sampling!Min({remaining, Buffer}) = Buffer
      BY <1>1, <3>1 DEF Sampling!Min
    <3> QED BY <3>2 DEF Sampling!Wanted
  <2> QED BY <1>1, <2>1, <2>2
<1>3. ASSUME Sampling!WriteChunk PROVE SamplingInvariant'
  <2>1. /\ remaining > 0 /\ remaining' = remaining - Buffer /\ Buffer <= remaining
        /\ file' = file \o SubSeq(Sampling!FullBuffer, 1, Buffer)
        /\ UNCHANGED <<cfg, samplingPc>>
    BY <1>1, <1>2, <1>3, WholeBuffers DEF Sampling!WriteChunk
  <2>2. PatternFile' /\ Len(file') = Len(file) + Buffer
    <3>1. PICK b \in 0 .. Buffer : b = Buffer
      OBVIOUS
    <3>2. PatternFile' /\ Len(file') = Len(file) + b
      BY <1>1, <2>1, <3>1, PatternGoesOn
    <3> QED BY <3>1, <3>2
  <2>3. (remaining - Buffer) % Buffer = 0
    BY <1>1, ModShift
  <2>4. (Len(file) + Buffer) % Buffer = 0
    <3>1. PICK l \in Nat : l = Len(file) /\ l % Buffer = 0
      BY <1>1
    <3>2. ((l % Buffer) + Buffer) % Buffer = (l + Buffer) % Buffer
      BY ModSum
    <3>3. (0 + Buffer) % Buffer = 0
      BY ModSmall
    <3> QED BY <3>1, <3>2, <3>3
  <2>5. remaining' \in Nat /\ Len(file') + remaining' = cfg'.size
    <3>1. PICK l \in Nat, r \in Nat, b \in Nat :
            l = Len(file) /\ r = remaining /\ b = Buffer /\ b <= r /\ l + r = cfg.size
      BY <1>1, <2>1
    <3>2. Len(file') = l + b /\ remaining' = r - b
      BY <2>1, <2>2, <3>1
    <3>3. r - b \in Nat /\ (l + b) + (r - b) = l + r
      BY <3>1
    <3> QED BY <2>1, <3>1, <3>2, <3>3
  <2>6. Len(file') % Buffer = 0 /\ remaining' % Buffer = 0
    BY <2>1, <2>2, <2>3, <2>4
  <2>7. Unfinished'
    BY <2>5, <2>6 DEF Unfinished
  <2> QED BY <2>1, <2>2, <2>7 DEF SamplingInvariant
<1>4. ASSUME Sampling!ShortWrite PROVE SamplingInvariant'
  <2>1. PICK n \in 0 .. Buffer : file' = file \o SubSeq(Sampling!FullBuffer, 1, n)
    <3>1. PICK w \in 0 .. Buffer : w = Sampling!Wanted
      BY <1>2
    <3>2. PICK n \in 0 .. w - 1 : file' = file \o SubSeq(Sampling!FullBuffer, 1, n)
      BY <1>4, <3>1 DEF Sampling!ShortWrite
    <3>3. n \in 0 .. Buffer
      OBVIOUS
    <3> QED BY <3>2, <3>3
  <2>2. PatternFile'
    BY <1>1, <2>1, PatternGoesOn
  <2> QED BY <1>4, <2>2 DEF Sampling!ShortWrite, Sampling!End, SamplingInvariant, Unfinished
<1> QED BY <1>3, <1>4

\* All of mmap-vs-read.
LEMMA SamplingStep ==
  ASSUME SamplingInvariant, Sampling!Next \/ UNCHANGED samplingVars PROVE SamplingInvariant'
<1> USE OsAssumption
<1>1. CASE UNCHANGED samplingVars
  BY <1>1 DEF samplingVars, SamplingInvariant, PatternFile, Unfinished
<1>2. CASE Sampling!End /\ UNCHANGED file
  BY <1>2 DEF Sampling!End, SamplingInvariant, PatternFile, Unfinished
<1>3. Sampling!Start => SamplingInvariant'
  BY DEF Sampling!Start, SamplingInvariant, PatternFile, Unfinished
<1>4. ASSUME Sampling!Prepare PROVE SamplingInvariant'
  <2>1. cfg \in Sampling!Options
    BY <1>4 DEF Sampling!Prepare, SamplingInvariant
  <2>2. CASE Len(file) = cfg.size
    BY <1>4, <2>2 DEF Sampling!Prepare, SamplingInvariant, PatternFile, Unfinished
  <2>3. CASE Len(file) # cfg.size
    <3>1. /\ samplingPc' = "write" /\ file' = <<>> /\ remaining' = cfg.size /\ cfg' = cfg
      BY <1>4, <2>3 DEF Sampling!Prepare, Sampling!Truncated
    <3>2. cfg.size \in Nat /\ cfg.size % Buffer = 0
      <4>1. PICK mb \in 0 .. MaxMB : cfg.size = Buffer * mb
        BY <2>1 DEF Sampling!Options
      <4>2. (mb * Buffer + 0) % Buffer = 0
        BY ModUnique
      <4> QED BY <4>1, <4>2
    <3>3. 0 % Buffer = 0
      BY ModSmall
    <3> QED BY <2>1, <3>1, <3>2, <3>3 DEF SamplingInvariant, PatternFile, Unfinished
  <2> QED BY <2>2, <2>3
<1>5. Sampling!WriteChunk \/ Sampling!ShortWrite => SamplingInvariant'
  BY SamplingWrites DEF Sampling!WriteChunk, Sampling!ShortWrite
<1>6. Sampling!FileComplete => SamplingInvariant'
  BY <1>2 DEF Sampling!FileComplete, SamplingInvariant, PatternFile, Unfinished
<1>7. Sampling!ReadChunk \/ Sampling!ReadEnd \/ Sampling!MapAndSample => SamplingInvariant'
  BY DEF Sampling!ReadChunk, Sampling!ReadEnd, Sampling!MapAndSample, SamplingInvariant,
         PatternFile, Unfinished
<1>8. Sampling!NextIteration => SamplingInvariant'
  BY <1>2 DEF Sampling!NextIteration, SamplingInvariant, PatternFile, Unfinished
<1>9. Sampling!NoMoreStarts => SamplingInvariant'
  BY <1>1 DEF Sampling!NoMoreStarts, Sampling!vars, samplingVars
<1> QED BY <1>1, <1>2, <1>3, <1>4, <1>5, <1>6, <1>7, <1>8, <1>9
        DEF Sampling!Next, Sampling!Killed, Sampling!MapFails

\* The start, without a file.
LEMMA SamplingInit == Sampling!Init => SamplingInvariant
BY DEF Sampling!Init, SamplingInvariant, PatternFile, Unfinished

-----------------------------------------------------------------------------
(* What mmap-vs-read samples.                                               *)

\* The operators of the community modules are the same in MmapRead and here.
LEMMA SameFolds ==
  /\ \A S : Sampling!Cardinality(S) = Cardinality(S)
  /\ \A f : Sampling!SumFunction(f) = SumFunctionOnSet(f, DOMAIN f)
<1>1. ASSUME NEW S PROVE Sampling!Cardinality(S) = Cardinality(S)
  BY DEF Sampling!Cardinality, Cardinality
<1>2. ASSUME NEW f, NEW S
      PROVE  Sampling!SumFunctionOnSet(f, S) = SumFunctionOnSet(f, S)
  BY DEF Sampling!SumFunctionOnSet, SumFunctionOnSet, Sampling!FoldFunctionOnSet,
         FoldFunctionOnSet, Sampling!MapThenFoldSet, MapThenFoldSet
<1>3. ASSUME NEW f PROVE Sampling!SumFunction(f) = SumFunctionOnSet(f, DOMAIN f)
  BY <1>2 DEF Sampling!SumFunction
<1> QED BY <1>1, <1>3

\* There are finitely many multiples below a bound.
LEMMA MultiplesFinite ==
  ASSUME NEW s \in Nat \ {0}, NEW n \in Nat
  PROVE  Multiples(s, n) \in SUBSET (0 .. n - 1) /\ IsFiniteSet(Multiples(s, n))
<1>1. Multiples(s, n) \in SUBSET (0 .. n - 1)
  BY DEF Multiples
<1>2. IsFiniteSet(0 .. n - 1)
  BY FS_Interval
<1> QED BY <1>1, <1>2, FS_Subset

\* From a multiple on, the multiples are those from 0 on, moved.
LEMMA MultiplesAhead ==
  ASSUME NEW s \in Nat \ {0}, NEW p \in Nat, p % s = 0, NEW n \in Nat
  PROVE  /\ Multiples(s, p + n) = Multiples(s, p) \cup Moved(p, Multiples(s, n))
         /\ Multiples(s, p) \cap Moved(p, Multiples(s, n)) = {}
<1>1. \A x \in Nat : (p + x) % s = x % s
  <2> SUFFICES ASSUME NEW x \in Nat PROVE (p + x) % s = x % s
    OBVIOUS
  <2>1. ((p % s) + x) % s = (p + x) % s
    BY ModSum
  <2>2. 0 + x = x
    OBVIOUS
  <2> QED BY <2>1, <2>2
<1>2. ASSUME NEW k \in Multiples(s, p + n)
      PROVE  k \in Multiples(s, p) \cup Moved(p, Multiples(s, n))
  <2>1. k \in Nat /\ k < p + n /\ k % s = 0
    BY <1>2 DEF Multiples
  <2>2. CASE k < p
    BY <2>1, <2>2 DEF Multiples
  <2>3. CASE k >= p
    <3>1. PICK x \in Nat : x = k - p
      BY <2>1, <2>3
    <3>2. k = p + x /\ x < n
      BY <2>1, <3>1
    <3>3. x % s = 0
      BY <1>1, <2>1, <3>2
    <3>4. x \in Multiples(s, n)
      BY <3>2, <3>3 DEF Multiples
    <3> QED BY <3>2, <3>4 DEF Moved
  <2> QED BY <2>1, <2>2, <2>3
<1>3. ASSUME NEW k \in Multiples(s, p) \cup Moved(p, Multiples(s, n))
      PROVE  k \in Multiples(s, p + n)
  <2>1. CASE k \in Multiples(s, p)
    BY <2>1 DEF Multiples
  <2>2. CASE k \in Moved(p, Multiples(s, n))
    <3>1. PICK x \in Multiples(s, n) : k = p + x
      BY <2>2 DEF Moved
    <3>2. x \in Nat /\ x < n /\ x % s = 0
      BY <3>1 DEF Multiples
    <3>3. k % s = 0
      BY <1>1, <3>1, <3>2
    <3> QED BY <3>1, <3>2, <3>3 DEF Multiples
  <2> QED BY <1>3, <2>1, <2>2
<1>4. Multiples(s, p) \cap Moved(p, Multiples(s, n)) = {}
  BY DEF Multiples, Moved
<1> QED BY <1>2, <1>3, <1>4

\* A loop that goes on where a sample is due goes on as one that never stopped.
LEMMA SamplesGoOn ==
  ASSUME PatternFile, NEW s \in Nat \ {0}, s = cfg.stride,
         NEW p \in Nat, p % s = 0, NEW n \in Nat, p + n <= Len(file)
  PROVE  Sampling!Sample(Sampled(file, s, p), p, n) = Sampled(file, s, p + n)
<1> DEFINE A == Multiples(s, p)
           N == Multiples(s, n)
           B == Moved(p, N)
           f == FileByte(file)
           g == [off \in N |-> file[p + off + 1]]
<1>1. /\ A \cup B = Multiples(s, p + n) /\ A \cap B = {}
      /\ A \in SUBSET (0 .. p - 1) /\ N \in SUBSET (0 .. n - 1)
      /\ IsFiniteSet(A) /\ IsFiniteSet(N) /\ N \in SUBSET Int
  <2>1. /\ A \cup B = Multiples(s, p + n) /\ A \cap B = {}
    BY MultiplesAhead
  <2>2. A \in SUBSET (0 .. p - 1) /\ IsFiniteSet(A)
    BY MultiplesFinite
  <2>3. N \in SUBSET (0 .. n - 1) /\ IsFiniteSet(N)
    BY MultiplesFinite
  <2> HIDE DEF A, B, N
  <2>4. N \in SUBSET Int
    BY <2>3
  <2> QED BY <2>1, <2>2, <2>3, <2>4
<1>2. IsFiniteSet(B) /\ Cardinality(B) = Cardinality(N)
  BY <1>1, MovedFinite
<1>3. Len(file) \in Nat /\ \A k \in 0 .. Len(file) - 1 : f[k] = file[k + 1] /\ f[k] \in Nat
  BY DEF PatternFile, FileByte
<1>4. \A x \in N : g[x] \in Nat /\ f[p + x] = g[x]
  <2> SUFFICES ASSUME NEW x \in N PROVE g[x] \in Nat /\ f[p + x] = g[x]
    OBVIOUS
  <2>1. x \in 0 .. n - 1 /\ p + x \in 0 .. Len(file) - 1
    BY <1>1, <1>3
  <2> QED BY <1>3, <2>1
<1>5. \A x \in A \cup B : f[x] \in Nat
  <2>1. Multiples(s, p + n) \in SUBSET (0 .. (p + n) - 1)
    BY MultiplesFinite
  <2> QED BY <1>1, <1>3, <2>1
<1>6. Sampling!Strides(n) = N /\ Sampling!SumFunction(g) = SumFunctionOnSet(g, N)
  BY SameFolds DEF Sampling!Strides, Multiples
<1> HIDE DEF A, N, B, f
<1>7. SumFunctionOnSet(f, A \cup B) = SumFunctionOnSet(f, A) + SumFunctionOnSet(g, N)
  <2> HIDE DEF g
  <2>1. SumFunctionOnSet(f, A \cup B) = SumFunctionOnSet(f, A) + SumFunctionOnSet(f, B)
    BY ONLY <1>1, <1>2, <1>5, SumUnion
  <2>2. SumFunctionOnSet(f, B) = SumFunctionOnSet(g, N)
    BY ONLY <1>1, <1>4, SumMoved, p \in Nat DEF B
  <2> QED BY <2>1, <2>2
<1>8. Cardinality(A \cup B) = Cardinality(A) + Cardinality(N)
  <2>1. Cardinality(A \cup B) = Cardinality(A) + Cardinality(B) - Cardinality(A \cap B)
    BY <1>1, <1>2, FS_Union
  <2>2. Cardinality(A \cap B) = 0 /\ Cardinality(A) \in Nat /\ Cardinality(B) \in Nat
    BY <1>1, <1>2, FS_EmptySet, FS_CardinalityType
  <2> QED BY <1>2, <2>1, <2>2
<1>9. {p + off : off \in N} = B
  BY DEF B, Moved
<1>10. Sampling!Cardinality(N) = Cardinality(N)
  BY SameFolds
<1>11. Sampled(file, s, p) = [at |-> A, samples |-> Cardinality(A),
                              checksum |-> SumFunctionOnSet(f, A)]
  BY DEF Sampled, A, f
<1>12. Sampled(file, s, p + n) = [at |-> A \cup B, samples |-> Cardinality(A \cup B),
                                  checksum |-> SumFunctionOnSet(f, A \cup B)]
  BY <1>1 DEF Sampled, f
<1>13. Sampling!Sample(Sampled(file, s, p), p, n)
         = [at |-> A \cup B, samples |-> Cardinality(A) + Cardinality(N),
            checksum |-> SumFunctionOnSet(f, A) + SumFunctionOnSet(g, N)]
  <2> DEFINE r == Sampled(file, s, p)
  <2>1. r.at = A /\ r.samples = Cardinality(A) /\ r.checksum = SumFunctionOnSet(f, A)
    BY <1>11
  <2>2. Sampling!Sample(r, p, n)
          = [at |-> r.at \cup {p + off : off \in N},
             samples |-> r.samples + Sampling!Cardinality(N),
             checksum |-> r.checksum + Sampling!SumFunction(g)]
    BY ONLY <1>6 DEF Sampling!Sample
  <2> HIDE DEF r, g
  <2> QED BY <1>6, <1>9, <1>10, <2>1, <2>2 DEF r
<1> QED BY <1>7, <1>8, <1>12, <1>13

\* Before the first byte nothing is sampled.
LEMMA NothingSampled ==
  ASSUME NEW f, NEW s
  PROVE  \A way \in {"read", "mmap"} : Sampling!Nothing[way] = Sampled(f, s, 0)
<1>1. Multiples(s, 0) = {}
  BY DEF Multiples
<1>2. Cardinality({}) = 0 /\ SumFunctionOnSet(FileByte(f), {}) = 0
  BY FS_EmptySet, SumUnfold
<1> QED BY <1>1, <1>2 DEF Sampled, Sampling!Nothing

\* One read, aligned or the last.
LEMMA WorkReads ==
  ASSUME SamplingInvariant, WorkInvariant, Sampling!ReadChunk PROVE WorkInvariant'
<1> USE OsAssumption
<1>1. /\ samplingPc = "read" /\ cfg \in Sampling!Options /\ PatternFile
      /\ UNCHANGED <<file, cfg, samplingPc>> /\ pos < Len(file) /\ Len(file) \in Nat
  BY DEF Sampling!ReadChunk, SamplingInvariant, PatternFile
<1>2. SUFFICES ASSUME cfg.chunk % cfg.stride = 0 PROVE AlignedWork'
  BY <1>1 DEF WorkInvariant
<1>3. AlignedWork
  BY <1>1, <1>2 DEF WorkInvariant
<1>4. PICK s \in Nat \ {0}, c \in Nat \ {0}, p \in Nat, l \in Nat :
        /\ s = cfg.stride /\ c = cfg.chunk /\ p = pos /\ l = Len(file)
        /\ p < l /\ p % s = 0 /\ c % s = 0
  <2>1. cfg.stride \in Nat \ {0} /\ cfg.chunk \in Nat \ {0}
    BY <1>1 DEF Sampling!Options
  <2>2. pos \in Nat /\ pos < Len(file) /\ Len(file) \in Nat /\ pos % cfg.stride = 0
    BY <1>1, <1>3 DEF AlignedWork
  <2> QED BY ONLY <1>2, <2>1, <2>2
<1>5. PICK n \in Nat : /\ n = Sampling!Min({c, l - p})
                       /\ p + n <= l /\ (n = c \/ p + n = l)
  <2>1. CASE c <= l - p
    <3>1. Sampling!Min({c, l - p}) = c
      BY <1>4, <2>1 DEF Sampling!Min
    <3> QED BY <1>4, <2>1, <3>1
  <2>2. CASE l - p < c
    <3>1. l - p \in Nat
      BY <1>4
    <3>2. Sampling!Min({c, l - p}) = l - p
      BY <1>4, <2>2, <3>1 DEF Sampling!Min
    <3>3. p + (l - p) = l
      OBVIOUS
    <3> QED BY <3>1, <3>2, <3>3
  <2> QED BY <2>1, <2>2
<1>6. /\ result' = [result EXCEPT !["read"] = Sampling!Sample(@, p, n)]
      /\ pos' = p + n
  BY <1>4, <1>5 DEF Sampling!ReadChunk
<1>7. Sampling!Sample(Sampled(file, s, p), p, n) = Sampled(file, s, p + n)
  BY ONLY <1>1, <1>4, <1>5, SamplesGoOn
<1>8. /\ result = [way \in {"read", "mmap"} |-> result[way]]
      /\ result["read"] = Sampled(file, s, p) /\ result["mmap"] = Sampled(file, s, 0)
  BY <1>1, <1>3, <1>4 DEF AlignedWork
<1>9. /\ result' = [way \in {"read", "mmap"} |-> result'[way]]
      /\ result'["read"] = Sampled(file, s, p + n) /\ result'["mmap"] = Sampled(file, s, 0)
  <2>1. result' = [way \in {"read", "mmap"} |-> IF way = "read"
                     THEN Sampling!Sample(result["read"], p, n) ELSE result[way]]
    BY <1>6, <1>8
  <2> QED BY <1>7, <1>8, <2>1
<1>10. (p + n) % s = 0 \/ p + n = l
  <2>1. CASE n = c
    <3>1. ((p % s) + c) % s = (p + c) % s
      BY ModSum
    <3>2. 0 + c = c
      OBVIOUS
    <3> QED BY <1>4, <2>1, <3>1, <3>2
  <2> QED BY <1>5, <2>1
<1> QED BY <1>1, <1>4, <1>5, <1>6, <1>9, <1>10 DEF AlignedWork

\* The loop over the mapping, in one go.
LEMMA WorkMaps ==
  ASSUME SamplingInvariant, WorkInvariant, Sampling!MapAndSample PROVE WorkInvariant'
<1> USE OsAssumption
<1>1. /\ samplingPc = "mmap" /\ samplingPc' = "rows" /\ cfg \in Sampling!Options
      /\ PatternFile /\ UNCHANGED <<file, cfg, pos>>
      /\ Len(file) = cfg.size /\ Len(file) \in Nat
      /\ result' = [result EXCEPT !["mmap"] = Sampling!Sample(@, 0, cfg.size)]
  BY DEF Sampling!MapAndSample, SamplingInvariant, PatternFile
<1>2. SUFFICES ASSUME cfg.chunk % cfg.stride = 0 PROVE AlignedWork'
  BY <1>1 DEF WorkInvariant
<1>3. AlignedWork
  BY <1>1, <1>2 DEF WorkInvariant
<1>4. PICK s \in Nat \ {0}, l \in Nat : s = cfg.stride /\ l = Len(file)
  BY <1>1 DEF Sampling!Options
<1>5. /\ result = [way \in {"read", "mmap"} |-> result[way]] /\ pos = l
      /\ result["read"] = Sampled(file, s, l) /\ result["mmap"] = Sampled(file, s, 0)
  BY <1>1, <1>3, <1>4 DEF AlignedWork
<1>6. Sampling!Sample(Sampled(file, s, 0), 0, l) = Sampled(file, s, l)
  <2>1. 0 % s = 0
    BY ModSmall
  <2>2. 0 + l <= Len(file) /\ 0 + l = l
    BY <1>4
  <2>3. PICK p \in Nat : p = 0 /\ p % s = 0 /\ p + l <= Len(file)
    BY <2>1, <2>2
  <2>4. Sampling!Sample(Sampled(file, s, p), p, l) = Sampled(file, s, p + l)
    BY ONLY <1>1, <1>4, <2>3, SamplesGoOn
  <2> QED BY <2>2, <2>3, <2>4
<1>7. result' = [way \in {"read", "mmap"} |-> IF way = "mmap"
                   THEN Sampling!Sample(result["mmap"], 0, l) ELSE result[way]]
  BY <1>1, <1>4, <1>5
<1>8. result'["read"] = Sampled(file, s, l) /\ result'["mmap"] = Sampled(file, s, l)
  BY <1>5, <1>6, <1>7
<1> QED BY <1>1, <1>4, <1>5, <1>7, <1>8 DEF AlignedWork

\* All of mmap-vs-read, for what is sampled.
LEMMA WorkStep ==
  ASSUME SamplingInvariant, SamplingInvariant', WorkInvariant,
         Sampling!Next \/ UNCHANGED samplingVars
  PROVE  WorkInvariant'
<1>1. CASE UNCHANGED samplingVars
  BY <1>1 DEF samplingVars, WorkInvariant, AlignedWork
<1>2. CASE Sampling!End
  BY <1>2 DEF Sampling!End, WorkInvariant
<1>3. ASSUME samplingPc' = "read", pos' = 0, result' = Sampling!Nothing PROVE WorkInvariant'
  <2>1. cfg' \in Sampling!Options /\ Len(file') \in Nat
    BY <1>3 DEF SamplingInvariant, PatternFile
  <2>2. PICK s \in Nat \ {0} : s = cfg'.stride
    BY <2>1, OsAssumption DEF Sampling!Options
  <2>3. 0 % s = 0
    BY ModSmall
  <2>4. \A way \in {"read", "mmap"} : result'[way] = Sampled(file', s, 0)
    BY <1>3, NothingSampled
  <2>5. result' = [way \in {"read", "mmap"} |-> result'[way]]
    BY <1>3 DEF Sampling!Nothing
  <2>6. AlignedWork'
    BY <1>3, <2>1, <2>2, <2>3, <2>4, <2>5 DEF AlignedWork
  <2> QED BY <1>3, <2>6 DEF WorkInvariant
<1>4. Sampling!Start => WorkInvariant'
  BY DEF Sampling!Start, WorkInvariant
<1>5. ASSUME Sampling!Prepare \/ Sampling!FileComplete PROVE WorkInvariant'
  <2>1. CASE Sampling!End
    BY <1>2, <2>1
  <2>2. CASE samplingPc' \in {"read", "write"} /\ UNCHANGED <<pos, result>>
    <3>1. samplingPc \in {"prepare", "write"}
      BY <1>5 DEF Sampling!Prepare, Sampling!FileComplete
    <3>2. pos' = 0 /\ result' = Sampling!Nothing
      BY <2>2, <3>1 DEF WorkInvariant
    <3> QED BY <1>3, <2>2, <3>2 DEF WorkInvariant
  <2> QED BY <1>5, <2>1, <2>2 DEF Sampling!Prepare, Sampling!FileComplete
<1>6. Sampling!WriteChunk => WorkInvariant'
  BY DEF Sampling!WriteChunk, WorkInvariant
<1>7. Sampling!ReadEnd => WorkInvariant'
  BY DEF Sampling!ReadEnd, WorkInvariant, AlignedWork
<1>8. Sampling!NextIteration => WorkInvariant'
  BY <1>2, <1>3 DEF Sampling!NextIteration
<1>9. Sampling!NoMoreStarts => WorkInvariant'
  BY <1>1 DEF Sampling!NoMoreStarts, Sampling!vars, samplingVars
<1> QED BY <1>1, <1>2, <1>4, <1>5, <1>6, <1>7, <1>8, <1>9, WorkReads, WorkMaps
        DEF Sampling!Next, Sampling!Killed, Sampling!ShortWrite, Sampling!MapFails

-----------------------------------------------------------------------------
(* The theorems.                                                            *)

BoundaryInvariant ==
  SwitchInvariant /\ CowInvariant /\ SamplingInvariant /\ WorkInvariant

\* The invariants of the three labs hold whichever of the programs runs.
THEOREM BoundaryHolds == Spec => []BoundaryInvariant
<1>1. Init => BoundaryInvariant
  <2>1. Sampling!Init => WorkInvariant
    BY DEF Sampling!Init, WorkInvariant
  <2> QED BY <2>1, SwitchInit, CowInit, SamplingInit DEF Init, BoundaryInvariant
<1>2. BoundaryInvariant /\ [Next]_vars => BoundaryInvariant'
  <2> SUFFICES ASSUME BoundaryInvariant, [Next]_vars PROVE BoundaryInvariant'
    OBVIOUS
  <2>1. /\ Switch!Next \/ UNCHANGED switchVars
        /\ Cow!Next \/ UNCHANGED cowVars
        /\ Sampling!Next \/ UNCHANGED samplingVars
    BY DEF Next, OfCow, OfSwitch, vars
  <2>2. SamplingInvariant'
    BY <2>1, SamplingStep DEF BoundaryInvariant
  <2> QED BY <2>1, <2>2, SwitchStep, CowStep, WorkStep DEF BoundaryInvariant
<1> QED BY <1>1, <1>2, PTL DEF Spec

\* One byte goes round between parent and child, and the child is ahead by the
\* reply that the parent has not read.
THEOREM OneByteGoesRound == Spec => []Lockstep
<1>1. BoundaryInvariant => Lockstep
  BY DEF BoundaryInvariant, SwitchInvariant, OneByte, Fine, Lockstep, Switch!Lockstep,
         Switch!Alive, Switch!InChildsHands
<1> QED BY <1>1, BoundaryHolds, PTL

\* A parent that succeeds has measured what it prints, and its child has
\* succeeded before it, in both programs that fork.
THEOREM SuccessesAreHonest == Spec => []SuccessIsHonest
<1>1. BoundaryInvariant => Switch!ReportHonest
  <2> SUFFICES ASSUME SwitchInvariant, status["parent"] = "success" PROVE Switch!ReportHonest
    BY DEF BoundaryInvariant, Switch!ReportHonest
  <2> USE TheProcesses DEF SwitchInvariant
  <2>1. Measured /\ status["child"] = "success" /\ rounds["child"] = Switch!TotalRounds
    BY DEF ParentRounds, ChildRounds
  <2>2. bytes["p2c"] = 0 /\ bytes["c2p"] = 0
    BY <2>1 DEF OneByte, Fine, Measured, SwitchTypes
  <2> QED BY <2>1, <2>2 DEF Switch!ReportHonest, Measured, SwitchTypes
<1>2. BoundaryInvariant => Cow!SuccessHasRow
  BY DEF BoundaryInvariant, CowInvariant, RowPrinted, Cow!SuccessHasRow
<1>3. BoundaryInvariant => SuccessIsHonest
  BY <1>1, <1>2 DEF SuccessIsHonest
<1> QED BY <1>3, BoundaryHolds, PTL

\* However often and wherever earlier processes were killed or stopped, a file
\* that is sampled has every byte of the size it is wanted with.
THEOREM SampledFilesAreComplete == Spec => []SampledFileIsComplete
<1>1. BoundaryInvariant => SampledFileIsComplete
  <2> SUFFICES ASSUME SamplingInvariant, samplingPc \in {"read", "mmap", "rows"}
               PROVE  file = [k \in 1 .. cfg.size |-> (k - 1) % Buffer]
    BY DEF BoundaryInvariant, SampledFileIsComplete, Sampling!SampledFileIsComplete
  <2>1. file = [k \in 1 .. Len(file) |-> file[k]] /\ Len(file) = cfg.size
    BY DEF SamplingInvariant, PatternFile
  <2>2. \A k \in 1 .. Len(file) : file[k] = (k - 1) % Buffer
    BY DEF SamplingInvariant, PatternFile
  <2> QED BY <2>1, <2>2
<1> QED BY <1>1, BoundaryHolds, PTL

\* With chunks of whole strides both modes sample the same bytes, every stride
\* once and up to the end, whatever the sizes and however often the file is
\* gone through.
THEOREM AlignedModesDoTheSameWork == Spec => []SameWorkloadWhenAligned
<1>1. BoundaryInvariant => SameWorkloadWhenAligned
  <2> SUFFICES ASSUME SamplingInvariant, WorkInvariant, samplingPc = "rows",
                      cfg.chunk % cfg.stride = 0
               PROVE  /\ result["read"] = result["mmap"]
                      /\ result["mmap"].at = {k \in 0 .. cfg.size - 1 :
                                                \E m \in 0 .. cfg.size : k = m * cfg.stride}
                      /\ result["mmap"].samples = Sampling!Cardinality(result["mmap"].at)
    BY DEF BoundaryInvariant, SameWorkloadWhenAligned, Sampling!SameWorkloadWhenAligned
  <2>1. /\ AlignedWork /\ cfg \in Sampling!Options /\ Len(file) = cfg.size
        /\ Len(file) \in Nat
    BY DEF SamplingInvariant, WorkInvariant, PatternFile
  <2>2. PICK s \in Nat \ {0}, l \in Nat : s = cfg.stride /\ l = cfg.size
    BY <2>1, OsAssumption DEF Sampling!Options
  <2>3. result["read"] = Sampled(file, s, l) /\ result["mmap"] = Sampled(file, s, l)
    BY <2>1, <2>2 DEF AlignedWork
  <2>4. Multiples(s, l) = {k \in 0 .. l - 1 : \E m \in 0 .. l : k = m * s}
    <3>1. ASSUME NEW k \in 0 .. l - 1, NEW m \in 0 .. l, k = m * s PROVE k % s = 0
      <4>1. m * s + 0 = k /\ m \in Nat /\ 0 \in 0 .. s - 1
        BY <3>1
      <4>2. (m * s + 0) % s = 0
        BY <4>1, ModUnique
      <4> QED BY <4>1, <4>2
    <3>2. ASSUME NEW k \in 0 .. l - 1, k % s = 0 PROVE \E m \in 0 .. l : k = m * s
      <4>0. k \in Nat
        OBVIOUS
      <4>1. PICK m \in Nat : k = m * s + (k % s)
        BY ONLY <4>0, <2>2, ModTurns
      <4>2. k = m * s
        BY <3>2, <4>1
      <4>3. m <= m * s
        <5>1. \A a \in Nat, b \in Nat : a <= a * (b + 1)
          OBVIOUS
        <5>2. s - 1 \in Nat /\ s = (s - 1) + 1
          OBVIOUS
        <5> QED BY <5>1, <5>2
      <4> QED BY <4>2, <4>3
    <3> QED BY <3>1, <3>2 DEF Multiples
  <2>5. Sampling!Cardinality(Multiples(s, l)) = Cardinality(Multiples(s, l))
    BY SameFolds
  <2> QED BY <2>2, <2>3, <2>4, <2>5 DEF Sampled
<1> QED BY <1>1, BoundaryHolds, PTL

-----------------------------------------------------------------------------
(* The kernel's invariant.                                                  *)

KernelTypes ==
  /\ flags \in [Processes -> SUBSET {"MAP_PRIVATE", "MAP_ANONYMOUS", "MAP_POPULATE"}]
  /\ pt = [p \in Processes |-> pt[p]]
  /\ \A p \in Processes :
       /\ DOMAIN pt[p] \subseteq Cow!Pages
       /\ pt[p] \in [DOMAIN pt[p] -> [frame : Cow!Frames, writable : BOOLEAN]]
  /\ byte \in [Cow!Frames -> 0 .. 255]
  /\ minflt \in [Processes -> Nat]

\* Who may write a frame has it for itself.
Sole(p, page) ==
  \A q \in Processes : \A r \in DOMAIN pt[q] :
    pt[q][r].frame = pt[p][page].frame => q = p /\ r = page
Sharing ==
  /\ byte[Cow!Zero] = 0
  /\ \A p \in Processes : flags[p] = {} => DOMAIN pt[p] = {}
  /\ \A p \in Processes : \A page \in DOMAIN pt[p] :
       /\ pt[p][page].frame \in {Cow!Zero, Cow!Cached(page)} \cup Cow!AnonFrames
       /\ pt[p][page].frame = Cow!Zero => "MAP_ANONYMOUS" \in flags[p]
       /\ pt[p][page].frame = Cow!Cached(page) => "MAP_ANONYMOUS" \notin flags[p]
       /\ pt[p][page].writable => pt[p][page].frame \in Cow!AnonFrames /\ Sole(p, page)

KernelInvariant == KernelTypes /\ Sharing

-----------------------------------------------------------------------------
(* Frames.                                                                  *)

\* The three kinds of frame.
LEMMA FrameKinds ==
  /\ Cow!AnonFrames \subseteq Cow!Frames /\ Cow!Zero \in Cow!Frames
  /\ Cow!Zero \notin Cow!AnonFrames
  /\ \A page \in Cow!Pages : /\ Cow!Cached(page) \in Cow!Frames
                             /\ Cow!Cached(page) \notin Cow!AnonFrames
                             /\ Cow!Cached(page) # Cow!Zero
BY DEF Cow!Frames, Cow!AnonFrames, Cow!Zero, Cow!Cached

\* There are as many frames as pages in all processes together.
LEMMA FrameCount ==
  /\ IsFiniteSet(Processes \X Cow!Pages)
  /\ Cardinality(Processes \X Cow!Pages) = 3 * NumPages
  /\ IsFiniteSet(Cow!AnonFrames)
  /\ Cardinality(Cow!AnonFrames) = 3 * NumPages
<1>1. NumPages \in Nat
  BY OsAssumption
<1>2. IsFiniteSet(Processes) /\ Cardinality(Processes) = 3
  <2>1. IsFiniteSet({}) /\ Cardinality({}) = 0
    BY FS_EmptySet
  <2>2. IsFiniteSet({"parent"}) /\ Cardinality({"parent"}) = 1
    BY FS_Singleton
  <2>3. IsFiniteSet({"parent", "child"}) /\ Cardinality({"parent", "child"}) = 2
    <3>1. {"parent", "child"} = {"parent"} \cup {"child"} /\ "child" \notin {"parent"}
      OBVIOUS
    <3> QED BY <2>2, <3>1, FS_AddElement
  <2>4. {"parent", "child", "lab"} = {"parent", "child"} \cup {"lab"}
        /\ "lab" \notin {"parent", "child"}
    OBVIOUS
  <2> QED BY <2>3, <2>4, FS_AddElement DEF Processes
<1>3. IsFiniteSet(Cow!Pages) /\ Cardinality(Cow!Pages) = NumPages
  <2>1. IsFiniteSet(0 .. NumPages - 1)
        /\ Cardinality(0 .. NumPages - 1) = IF 0 > NumPages - 1 THEN 0 ELSE NumPages - 1 - 0 + 1
    BY <1>1, FS_Interval
  <2> QED BY <1>1, <2>1 DEF Cow!Pages
<1>4. IsFiniteSet(1 .. NumPages * 3) /\ Cardinality(1 .. NumPages * 3) = 3 * NumPages
  <2>1. NumPages * 3 \in Nat /\ NumPages * 3 = 3 * NumPages
    BY <1>1
  <2>2. PICK n \in Nat : n = NumPages * 3
    BY <2>1
  <2>3. IsFiniteSet(1 .. n) /\ Cardinality(1 .. n) = IF 1 > n THEN 0 ELSE n - 1 + 1
    BY FS_Interval
  <2> QED BY <2>1, <2>2, <2>3
<1>5. IsFiniteSet({"anon"}) /\ Cardinality({"anon"}) = 1
  BY FS_Singleton
<1>6. /\ IsFiniteSet(Processes \X Cow!Pages)
      /\ Cardinality(Processes \X Cow!Pages) = 3 * NumPages
  BY <1>2, <1>3, FS_Product
<1>7. Cow!AnonFrames = {"anon"} \X (1 .. NumPages * 3)
  <2>1. Cow!Cardinality(Processes) = Cardinality(Processes)
    BY DEF Cow!Cardinality, Cardinality
  <2> QED BY <1>2, <2>1 DEF Cow!AnonFrames
<1>8. /\ IsFiniteSet({"anon"} \X (1 .. NumPages * 3))
      /\ Cardinality({"anon"} \X (1 .. NumPages * 3)) = 1 * (3 * NumPages)
  <2>1. PICK one, all : one = {"anon"} /\ all = 1 .. NumPages * 3
    OBVIOUS
  <2>2. /\ IsFiniteSet(one \X all)
        /\ Cardinality(one \X all) = Cardinality(one) * Cardinality(all)
    BY <1>4, <1>5, <2>1, FS_Product
  <2> QED BY <1>4, <1>5, <2>1, <2>2
<1>9. 1 * (3 * NumPages) = 3 * NumPages
  BY <1>1
<1> QED BY <1>6, <1>7, <1>8, <1>9

\* A frame is free when one more is needed: for a page that has none of its
\* own, or shares one.
LEMMA FreeFrame ==
  ASSUME KernelTypes, NEW p \in Processes, NEW page \in Cow!Pages,
         Cow!Present(p, page) => pt[p][page].frame \notin Cow!AnonFrames
                                 \/ Cow!Mappers(pt[p][page].frame) # {<<p, page>>}
  PROVE  \E f \in Cow!AnonFrames : Cow!Mappers(f) = {}
<1> SUFFICES ASSUME \A f \in Cow!AnonFrames : Cow!Mappers(f) # {} PROVE FALSE
  OBVIOUS
<1> DEFINE S == (Processes \X Cow!Pages) \ {<<p, page>>}
           HasAnon(m) == /\ Cow!Present(m[1], m[2])
                         /\ pt[m[1]][m[2]].frame \in Cow!AnonFrames
<1>1. PICK some \in Cow!AnonFrames : TRUE
  <2>1. NumPages \in Nat \ {0}
    BY OsAssumption
  <2>2. 3 * NumPages # 0
    BY <2>1
  <2> QED BY <2>2, FrameCount, FS_EmptySet
<1>2. PICK g : g = [m \in S |-> IF HasAnon(m) THEN pt[m[1]][m[2]].frame ELSE some]
  OBVIOUS
<1>3. g \in [S -> Cow!AnonFrames]
  BY <1>2
<1>4. ASSUME NEW f \in Cow!AnonFrames PROVE \E m \in S : g[m] = f
  <2>1. PICK m \in Cow!Mappers(f) : m # <<p, page>>
    BY <1>4 DEF Cow!Mappers
  <2>2. m \in S /\ HasAnon(m) /\ pt[m[1]][m[2]].frame = f
    BY <2>1 DEF Cow!Mappers
  <2> QED BY <1>2, <2>2
<1>5. g \in Surjection(S, Cow!AnonFrames)
  BY <1>3, <1>4 DEF Surjection
<1>6. IsFiniteSet(S) /\ Cardinality(S) = 3 * NumPages - 1
  <2>1. PICK all, one : all = Processes \X Cow!Pages /\ one = <<p, page>>
    OBVIOUS
  <2>2. one \in all
    BY <2>1
  <2>3. IsFiniteSet(all \ {one}) /\ Cardinality(all \ {one}) = Cardinality(all) - 1
    BY <2>1, <2>2, FrameCount, FS_RemoveElement
  <2> QED BY <2>1, <2>3, FrameCount
<1>7. Cardinality(Cow!AnonFrames) <= Cardinality(S)
  BY <1>5, <1>6, FS_Surjection
<1>8. NumPages \in Nat
  BY OsAssumption
<1> QED BY <1>6, <1>7, <1>8, FrameCount

-----------------------------------------------------------------------------
(* What the kernel's operations do.                                         *)

\* Only process p's page table changes, and only at the pages of `changed`.
OnlyAt(p, changed) ==
  /\ pt' = [q \in Processes |-> pt'[q]]
  /\ \A q \in Processes : q # p => pt'[q] = pt[q]
  /\ pt'[p] = [r \in DOMAIN pt[p] \cup changed |-> pt'[p][r]]
  /\ \A r \in DOMAIN pt[p] : r \notin changed => pt'[p][r] = pt[p][r]
SeenAsBefore == \A q \in Processes, r \in Cow!Pages : Cow!Seen(q, r)' = Cow!Seen(q, r)

\* A load fault adds read-only entries: one of an anonymous buffer, or some of
\* the file's.
LEMMA LoadFaultAdds ==
  ASSUME KernelTypes, NEW p \in Processes, NEW page \in Cow!Pages, Cow!LoadFault(p, page)
  PROVE  \E around \in SUBSET (Cow!Pages \ DOMAIN pt[p]) :
           /\ page \in around
           /\ "MAP_ANONYMOUS" \in flags[p] => around = {page}
           /\ OnlyAt(p, around)
           /\ \A r \in around : pt'[p][r] =
                [frame |-> IF "MAP_ANONYMOUS" \in flags[p] THEN Cow!Zero ELSE Cow!Cached(r),
                 writable |-> FALSE]
<1> USE DEF KernelTypes, OnlyAt
<1>1. page \notin DOMAIN pt[p]
  BY DEF Cow!LoadFault, Cow!Present
<1>2. CASE "MAP_ANONYMOUS" \in flags[p]
  <2>1. pt' = [pt EXCEPT ![p] = Cow!Updated(pt[p], [q \in {page} |-> Cow!Entry(Cow!Zero, FALSE)])]
    BY <1>2 DEF Cow!LoadFault
  <2>2. pt'[p] = [r \in DOMAIN pt[p] \cup {page} |->
                    IF r \in {page} THEN [frame |-> Cow!Zero, writable |-> FALSE] ELSE pt[p][r]]
    BY <2>1 DEF Cow!Updated, Cow!Entry
  <2>3. OnlyAt(p, {page})
    BY <2>1, <2>2
  <2>4. pt'[p][page] = [frame |-> Cow!Zero, writable |-> FALSE]
    BY <2>2
  <2>5. {page} \in SUBSET (Cow!Pages \ DOMAIN pt[p]) /\ page \in {page}
    BY <1>1
  <2> QED BY <1>2, <2>3, <2>4, <2>5
<1>3. CASE "MAP_ANONYMOUS" \notin flags[p]
  <2>1. PICK around \in SUBSET (Cow!Pages \ DOMAIN pt[p]) :
          /\ page \in around
          /\ pt' = [pt EXCEPT ![p] =
                      Cow!Updated(pt[p], [q \in around |-> Cow!Entry(Cow!Cached(q), FALSE)])]
    BY <1>3 DEF Cow!LoadFault
  <2>2. pt'[p] = [r \in DOMAIN pt[p] \cup around |->
                    IF r \in around THEN [frame |-> Cow!Cached(r), writable |-> FALSE]
                    ELSE pt[p][r]]
    BY <2>1 DEF Cow!Updated, Cow!Entry
  <2>3. OnlyAt(p, around)
    BY <2>1, <2>2
  <2>4. \A r \in around : pt'[p][r] = [frame |-> Cow!Cached(r), writable |-> FALSE]
    BY <2>2
  <2>5. \A r \in around : pt'[p][r] =
          [frame |-> IF "MAP_ANONYMOUS" \in flags[p] THEN Cow!Zero ELSE Cow!Cached(r),
           writable |-> FALSE]
    BY <1>3, <2>4
  <2> QED BY ONLY <1>3, <2>1, <2>3, <2>5, Zenon
<1> QED BY <1>2, <1>3

\* A load fault shows in no buffer and gives nobody the right to write.
LEMMA LoadFaultKeeps ==
  ASSUME KernelInvariant, NEW p \in Processes, NEW page \in Cow!Pages, flags[p] # {},
         Cow!LoadFault(p, page)
  PROVE  KernelInvariant' /\ SeenAsBefore
<1> USE FrameKinds DEF KernelInvariant
<1>1. PICK around \in SUBSET (Cow!Pages \ DOMAIN pt[p]) :
        /\ OnlyAt(p, around)
        /\ \A r \in around : pt'[p][r] =
             [frame |-> IF "MAP_ANONYMOUS" \in flags[p] THEN Cow!Zero ELSE Cow!Cached(r),
              writable |-> FALSE]
  BY LoadFaultAdds
<1>2. /\ flags' = flags /\ byte' = byte /\ minflt' = [minflt EXCEPT ![p] = @ + 1]
  BY DEF Cow!LoadFault
<1>3. ASSUME NEW q \in Processes, NEW r \in DOMAIN pt'[q]
      PROVE  \/ r \in DOMAIN pt[q] /\ pt'[q][r] = pt[q][r]
             \/ /\ q = p /\ r \in Cow!Pages /\ pt'[q][r].writable = FALSE
                /\ pt'[q][r] = [frame |-> pt'[q][r].frame, writable |-> pt'[q][r].writable]
                /\ pt'[q][r].frame = IF "MAP_ANONYMOUS" \in flags[q] THEN Cow!Zero
                                     ELSE Cow!Cached(r)
  <2>1. CASE q = p /\ r \in around
    <3>1. pt'[p][r] = [frame |-> IF "MAP_ANONYMOUS" \in flags[p] THEN Cow!Zero
                                 ELSE Cow!Cached(r),
                       writable |-> FALSE]
      BY <1>1, <2>1
    <3> QED BY <2>1, <3>1
  <2>2. CASE q # p \/ r \notin around
    BY <1>1, <2>2 DEF OnlyAt
  <2> QED BY <2>1, <2>2
<1>4. KernelTypes'
  <2>1. ASSUME NEW q \in Processes
        PROVE  /\ DOMAIN pt'[q] \subseteq Cow!Pages
               /\ pt'[q] = [r \in DOMAIN pt'[q] |-> pt'[q][r]]
    BY <1>1 DEF KernelTypes, OnlyAt
  <2>2. ASSUME NEW q \in Processes, NEW r \in DOMAIN pt'[q]
        PROVE  pt'[q][r] \in [frame : Cow!Frames, writable : BOOLEAN]
    <3>1. CASE r \in DOMAIN pt[q] /\ pt'[q][r] = pt[q][r]
      BY <3>1 DEF KernelTypes
    <3>2. CASE ~(r \in DOMAIN pt[q] /\ pt'[q][r] = pt[q][r])
      <4>1. r \in Cow!Pages /\ pt'[q][r].frame \in {Cow!Zero, Cow!Cached(r)}
        BY <1>3, <3>2
      <4>2. pt'[q][r].frame \in Cow!Frames
        BY <4>1
      <4>3. /\ pt'[q][r].writable = FALSE
            /\ pt'[q][r] = [frame |-> pt'[q][r].frame, writable |-> pt'[q][r].writable]
        BY <1>3, <3>2
      <4> QED BY <4>2, <4>3
    <3> QED BY <3>1, <3>2
  <2>3. minflt' \in [Processes -> Nat]
    BY <1>2 DEF KernelTypes
  <2> QED BY <1>1, <1>2, <2>1, <2>2, <2>3 DEF KernelTypes, OnlyAt
<1>5. Sharing'
  <2>1. ASSUME NEW q \in Processes, flags[q] = {} PROVE DOMAIN pt'[q] = {}
    BY <1>1, <2>1 DEF Sharing, OnlyAt
  <2>2. ASSUME NEW q \in Processes, NEW r \in DOMAIN pt'[q]
        PROVE  /\ pt'[q][r].frame \in {Cow!Zero, Cow!Cached(r)} \cup Cow!AnonFrames
               /\ pt'[q][r].frame = Cow!Zero => "MAP_ANONYMOUS" \in flags[q]
               /\ pt'[q][r].frame = Cow!Cached(r) => "MAP_ANONYMOUS" \notin flags[q]
    <3>1. CASE r \in DOMAIN pt[q] /\ pt'[q][r] = pt[q][r]
      BY <3>1 DEF Sharing
    <3>2. CASE ~(r \in DOMAIN pt[q] /\ pt'[q][r] = pt[q][r])
      BY <1>3, <3>2
    <3> QED BY <3>1, <3>2
  <2>3. ASSUME NEW q \in Processes, NEW r \in DOMAIN pt'[q], pt'[q][r].writable
        PROVE  pt'[q][r].frame \in Cow!AnonFrames /\ Sole(q, r)'
    <3>1. r \in DOMAIN pt[q] /\ pt'[q][r] = pt[q][r]
      BY <1>3, <2>3
    <3>2. pt[q][r].frame \in Cow!AnonFrames /\ Sole(q, r)
      BY <2>3, <3>1 DEF Sharing
    <3>3. ASSUME NEW o \in Processes, NEW e \in DOMAIN pt'[o],
                 pt'[o][e].frame = pt'[q][r].frame
          PROVE  o = q /\ e = r
      <4>1. CASE e \in Cow!Pages /\ pt'[o][e].frame \in {Cow!Zero, Cow!Cached(e)}
        BY <3>1, <3>2, <3>3, <4>1
      <4>2. CASE e \in DOMAIN pt[o] /\ pt'[o][e] = pt[o][e]
        BY <3>1, <3>2, <3>3, <4>2 DEF Sole
      <4> QED BY <1>3, <4>1, <4>2
    <3> QED BY <3>1, <3>2, <3>3 DEF Sole
  <2> QED BY <1>2, <2>1, <2>2, <2>3 DEF Sharing
<1>6. SeenAsBefore
  BY <1>1, <1>2 DEF KernelTypes, Sharing, OnlyAt, SeenAsBefore, Cow!Seen, Cow!Present
<1> QED BY <1>4, <1>5, <1>6

\* An entry that becomes writable keeps its frame.
LEMMA WritableEntry ==
  ASSUME NEW F, NEW e \in [frame : F, writable : BOOLEAN]
  PROVE  [e EXCEPT !.writable = TRUE] = [frame |-> e.frame, writable |-> TRUE]
<1> DEFINE g == [e EXCEPT !.writable = TRUE]
<1>1. g \in [frame : F, writable : BOOLEAN]
  OBVIOUS
<1>2. g.frame = e.frame
  OBVIOUS
<1>3. g.writable = TRUE
  OBVIOUS
<1> HIDE DEF g
<1>4. g = [frame |-> e.frame, writable |-> TRUE]
  BY <1>1, <1>2, <1>3
<1> QED BY <1>4 DEF g

\* The same for one that is write-protected.
LEMMA ReadOnlyEntry ==
  ASSUME NEW F, NEW e \in [frame : F, writable : BOOLEAN]
  PROVE  [e EXCEPT !.writable = FALSE] = [frame |-> e.frame, writable |-> FALSE]
<1> DEFINE g == [e EXCEPT !.writable = FALSE]
<1>1. g \in [frame : F, writable : BOOLEAN]
  OBVIOUS
<1>2. g.frame = e.frame
  OBVIOUS
<1>3. g.writable = FALSE
  OBVIOUS
<1> HIDE DEF g
<1>4. g = [frame |-> e.frame, writable |-> FALSE]
  BY <1>1, <1>2, <1>3
<1> QED BY <1>4 DEF g

\* A store fault leaves a page of its process writable: in the frame it had for
\* itself, or in one that nobody else maps, with the byte it had.
LEMMA StoreFaultMaps ==
  ASSUME KernelTypes, NEW p \in Processes, NEW page \in Cow!Pages, Cow!StoreFault(p, page)
  PROVE  /\ OnlyAt(p, {page})
         /\ \/ /\ page \in DOMAIN pt[p]
               /\ Cow!Mappers(pt[p][page].frame) = {<<p, page>>}
               /\ pt[p][page].frame \in Cow!AnonFrames
               /\ pt'[p][page] = [frame |-> pt[p][page].frame, writable |-> TRUE]
               /\ byte' = byte
            \/ \E new \in Cow!AnonFrames :
                 /\ Cow!Mappers(new) = {}
                 /\ pt'[p][page] = [frame |-> new, writable |-> TRUE]
                 /\ byte' = [byte EXCEPT ![new] = Cow!Seen(p, page)]
<1> USE DEF KernelTypes
<1>1. CASE /\ Cow!Present(p, page)
           /\ pt[p][page].frame \in Cow!AnonFrames
           /\ Cow!Mappers(pt[p][page].frame) = {<<p, page>>}
           /\ pt' = [pt EXCEPT ![p][page].writable = TRUE]
           /\ UNCHANGED byte
  <2>1. page \in DOMAIN pt[p]
    BY <1>1 DEF Cow!Present
  <2>2. pt' = [pt EXCEPT ![p] = [pt[p] EXCEPT ![page] = [pt[p][page] EXCEPT !.writable = TRUE]]]
    BY <1>1
  <2>3. pt[p][page] \in [frame : Cow!Frames, writable : BOOLEAN]
    BY <2>1
  <2>4. [pt[p][page] EXCEPT !.writable = TRUE] = [frame |-> pt[p][page].frame, writable |-> TRUE]
    BY <2>3, WritableEntry
  <2>5. pt'[p] = [r \in DOMAIN pt[p] \cup {page} |->
                    IF r = page THEN [frame |-> pt[p][page].frame, writable |-> TRUE]
                    ELSE pt[p][r]]
    BY <2>1, <2>2, <2>4
  <2>6. OnlyAt(p, {page})
    BY <2>2, <2>5 DEF OnlyAt
  <2>7. pt'[p][page] = [frame |-> pt[p][page].frame, writable |-> TRUE]
    BY <2>5
  <2> QED BY <1>1, <2>1, <2>6, <2>7
<1>2. CASE /\ Cow!Present(p, page) => pt[p][page].frame \notin Cow!AnonFrames
                                      \/ Cow!Mappers(pt[p][page].frame) # {<<p, page>>}
           /\ LET new == CHOOSE f \in Cow!AnonFrames : Cow!Mappers(f) = {}
              IN /\ byte' = [byte EXCEPT ![new] = Cow!Seen(p, page)]
                 /\ pt' = [pt EXCEPT ![p] = Cow!Updated(@, [q \in {page} |-> Cow!Entry(new, TRUE)])]
  <2>1. \E f \in Cow!AnonFrames : Cow!Mappers(f) = {}
    BY <1>2, FreeFrame
  <2>2. PICK new \in Cow!AnonFrames :
          /\ Cow!Mappers(new) = {}
          /\ byte' = [byte EXCEPT ![new] = Cow!Seen(p, page)]
          /\ pt' = [pt EXCEPT ![p] = Cow!Updated(@, [q \in {page} |-> Cow!Entry(new, TRUE)])]
    BY <1>2, <2>1
  <2>3. pt'[p] = [r \in DOMAIN pt[p] \cup {page} |->
                    IF r = page THEN [frame |-> new, writable |-> TRUE] ELSE pt[p][r]]
    BY <2>2 DEF Cow!Updated, Cow!Entry
  <2>4. OnlyAt(p, {page})
    BY <2>2, <2>3 DEF OnlyAt
  <2>5. pt'[p][page] = [frame |-> new, writable |-> TRUE]
    BY <2>3
  <2> QED BY <2>2, <2>4, <2>5
<1> QED BY <1>1, <1>2 DEF Cow!StoreFault

\* What a process sees is a byte.
LEMMA SeenType ==
  ASSUME KernelInvariant, NEW p \in Processes, NEW page \in Cow!Pages
  PROVE  Cow!Seen(p, page) \in 0 .. 255
<1> USE FrameKinds DEF KernelInvariant, KernelTypes
<1>1. CASE page \in DOMAIN pt[p]
  <2>1. pt[p][page].frame \in Cow!Frames
    BY <1>1
  <2> QED BY <1>1, <2>1 DEF Cow!Seen, Cow!Present
<1>2. CASE page \notin DOMAIN pt[p]
  BY <1>2 DEF Cow!Seen, Cow!Present
<1> QED BY <1>1, <1>2

\* A frame that has no other mapper than a page, or none, is in no other entry.
LEMMA MappersMeans ==
  ASSUME KernelTypes, NEW f, NEW q \in Processes, NEW r \in DOMAIN pt[q], pt[q][r].frame = f
  PROVE  <<q, r>> \in Cow!Mappers(f)
<1>1. <<q, r>> \in Processes \X Cow!Pages
  BY DEF KernelTypes
<1> QED BY <1>1 DEF Cow!Mappers, Cow!Present

\* A store fault shows in no buffer, and only its page becomes writable.
LEMMA StoreFaultKeeps ==
  ASSUME KernelInvariant, NEW p \in Processes, NEW page \in Cow!Pages, flags[p] # {},
         Cow!StoreFault(p, page)
  PROVE  KernelInvariant' /\ SeenAsBefore
<1> USE FrameKinds DEF KernelInvariant
<1>1. flags' = flags /\ minflt' = [minflt EXCEPT ![p] = @ + 1]
  BY DEF Cow!StoreFault
<1>2. PICK f \in Cow!AnonFrames :
        /\ OnlyAt(p, {page}) /\ pt'[p][page] = [frame |-> f, writable |-> TRUE]
        /\ \A m \in Cow!Mappers(f) : m = <<p, page>>
        /\ byte' = [byte EXCEPT ![f] = Cow!Seen(p, page)]
  <2>1. CASE \E new \in Cow!AnonFrames :
               /\ Cow!Mappers(new) = {}
               /\ pt'[p][page] = [frame |-> new, writable |-> TRUE]
               /\ byte' = [byte EXCEPT ![new] = Cow!Seen(p, page)]
    BY <2>1, StoreFaultMaps
  <2>2. CASE /\ page \in DOMAIN pt[p]
             /\ Cow!Mappers(pt[p][page].frame) = {<<p, page>>}
             /\ pt[p][page].frame \in Cow!AnonFrames
             /\ pt'[p][page] = [frame |-> pt[p][page].frame, writable |-> TRUE]
             /\ byte' = byte
    <3>1. Cow!Seen(p, page) = byte[pt[p][page].frame]
      BY <2>2 DEF Cow!Seen, Cow!Present
    <3>2. byte = [byte EXCEPT ![pt[p][page].frame] = byte[pt[p][page].frame]]
      BY DEF KernelTypes
    <3> QED BY <2>2, <3>1, <3>2, StoreFaultMaps
  <2> QED BY <2>1, <2>2, StoreFaultMaps
<1>3. /\ page \in DOMAIN pt'[p] /\ pt'[p][page].frame = f /\ pt'[p][page].writable = TRUE
      /\ pt'[p][page] \in [frame : Cow!Frames, writable : BOOLEAN]
  <2>1. f \in Cow!Frames
    OBVIOUS
  <2>2. page \in DOMAIN pt'[p]
    BY <1>2 DEF OnlyAt
  <2>3. pt'[p][page] = [frame |-> f, writable |-> TRUE]
    BY <1>2
  <2> QED BY <2>1, <2>2, <2>3
<1>4. ASSUME NEW q \in Processes, NEW r \in DOMAIN pt'[q], <<q, r>> # <<p, page>>
      PROVE  r \in DOMAIN pt[q] /\ pt'[q][r] = pt[q][r] /\ pt[q][r].frame # f
  <2>1. r \in DOMAIN pt[q] /\ pt'[q][r] = pt[q][r]
    BY <1>2, <1>4 DEF OnlyAt
  <2>2. pt[q][r].frame # f
    BY <1>2, <1>4, <2>1, MappersMeans
  <2> QED BY <2>1, <2>2
<1>5. KernelTypes'
  <2>1. ASSUME NEW q \in Processes
        PROVE  /\ DOMAIN pt'[q] \subseteq Cow!Pages
               /\ pt'[q] = [r \in DOMAIN pt'[q] |-> pt'[q][r]]
    BY <1>2 DEF KernelTypes, OnlyAt
  <2>2. ASSUME NEW q \in Processes, NEW r \in DOMAIN pt'[q]
        PROVE  pt'[q][r] \in [frame : Cow!Frames, writable : BOOLEAN]
    <3>1. CASE q = p /\ r = page
      BY <1>3, <3>1
    <3>2. CASE ~(q = p /\ r = page)
      BY <1>4, <3>2 DEF KernelTypes
    <3> QED BY <3>1, <3>2
  <2>3. minflt' \in [Processes -> Nat] /\ byte' \in [Cow!Frames -> 0 .. 255]
    BY <1>1, <1>2, SeenType DEF KernelTypes
  <2> QED BY <1>1, <1>2, <2>1, <2>2, <2>3 DEF KernelTypes, OnlyAt
<1>6. Sharing'
  <2>1. ASSUME NEW q \in Processes, flags[q] = {} PROVE DOMAIN pt'[q] = {}
    BY <1>2, <2>1 DEF Sharing, OnlyAt
  <2>2. ASSUME NEW q \in Processes, NEW r \in DOMAIN pt'[q]
        PROVE  /\ pt'[q][r].frame \in {Cow!Zero, Cow!Cached(r)} \cup Cow!AnonFrames
               /\ pt'[q][r].frame = Cow!Zero => "MAP_ANONYMOUS" \in flags[q]
               /\ pt'[q][r].frame = Cow!Cached(r) => "MAP_ANONYMOUS" \notin flags[q]
    <3>1. CASE q = p /\ r = page
      BY <1>3, <3>1
    <3>2. CASE ~(q = p /\ r = page)
      BY <1>4, <3>2 DEF Sharing
    <3> QED BY <3>1, <3>2
  <2>3. ASSUME NEW q \in Processes, NEW r \in DOMAIN pt'[q], pt'[q][r].writable
        PROVE  pt'[q][r].frame \in Cow!AnonFrames /\ Sole(q, r)'
    <3>1. CASE q = p /\ r = page
      <4>1. ASSUME NEW o \in Processes, NEW e \in DOMAIN pt'[o], pt'[o][e].frame = f
            PROVE  o = p /\ e = page
        BY <1>4, <4>1
      <4> QED BY <1>3, <3>1, <4>1 DEF Sole
    <3>2. CASE ~(q = p /\ r = page)
      <4>1. r \in DOMAIN pt[q] /\ pt'[q][r] = pt[q][r] /\ pt[q][r].frame # f
        BY <1>4, <3>2
      <4>2. pt[q][r].frame \in Cow!AnonFrames /\ Sole(q, r)
        BY <2>3, <4>1 DEF Sharing
      <4>3. ASSUME NEW o \in Processes, NEW e \in DOMAIN pt'[o],
                   pt'[o][e].frame = pt'[q][r].frame
            PROVE  o = q /\ e = r
        <5>1. e \in DOMAIN pt[o] /\ pt'[o][e] = pt[o][e]
          BY <1>3, <1>4, <4>1, <4>3
        <5> QED BY <4>1, <4>2, <4>3, <5>1 DEF Sole
      <4> QED BY <4>1, <4>2, <4>3 DEF Sole
    <3> QED BY <3>1, <3>2
  <2>4. byte'[Cow!Zero] = 0
    BY <1>2 DEF Sharing, KernelTypes
  <2> QED BY <1>1, <2>1, <2>2, <2>3, <2>4 DEF Sharing
<1>7. ASSUME NEW q \in Processes, NEW r \in Cow!Pages PROVE Cow!Seen(q, r)' = Cow!Seen(q, r)
  <2>1. CASE q = p /\ r = page
    BY <1>2, <1>3, <2>1 DEF Cow!Seen, Cow!Present, KernelTypes
  <2>2. CASE ~(q = p /\ r = page) /\ r \in DOMAIN pt'[q]
    BY <1>2, <1>4, <2>2 DEF Cow!Seen, Cow!Present, KernelTypes
  <2>3. CASE ~(q = p /\ r = page) /\ r \notin DOMAIN pt'[q]
    <3>1. r \notin DOMAIN pt[q]
      BY <1>2, <2>3 DEF OnlyAt
    <3>2. byte'[Cow!Cached(r)] = byte[Cow!Cached(r)]
      BY <1>2 DEF KernelTypes
    <3> QED BY <1>1, <2>3, <3>1, <3>2 DEF Cow!Seen, Cow!Present
  <2> QED BY <2>1, <2>2, <2>3
<1> QED BY <1>5, <1>6, <1>7 DEF SeenAsBefore

\* A store to a page that may be written is seen there and nowhere else.
LEMMA StoreKeeps ==
  ASSUME KernelInvariant, NEW p \in Processes, NEW page \in Cow!Pages, NEW value \in 0 .. 255,
         Cow!Store(p, page, value)
  PROVE  /\ KernelInvariant' /\ Cow!Seen(p, page)' = value
         /\ \A q \in Processes, r \in Cow!Pages :
              ~(q = p /\ r = page) => Cow!Seen(q, r)' = Cow!Seen(q, r)
<1> USE FrameKinds DEF KernelInvariant
<1>1. /\ flags' = flags /\ pt' = pt /\ minflt' = minflt /\ page \in DOMAIN pt[p]
      /\ byte' = [byte EXCEPT ![pt[p][page].frame] = value] /\ pt[p][page].writable
  BY DEF Cow!Store, Cow!Writable, Cow!Present
<1>2. PICK f \in Cow!AnonFrames : f = pt[p][page].frame /\ Sole(p, page)
  BY <1>1 DEF Sharing
<1>3. KernelTypes'
  BY <1>1 DEF KernelTypes
<1>4. byte'[Cow!Zero] = 0
  BY <1>1, <1>2 DEF Sharing, KernelTypes
<1>5. ASSUME NEW q \in Processes, NEW r \in DOMAIN pt[q] PROVE Sole(q, r)' <=> Sole(q, r)
  BY <1>1 DEF Sole
<1>6. Sharing'
  BY <1>1, <1>4, <1>5 DEF Sharing
<1>7. Cow!Seen(p, page)' = value
  BY <1>1, <1>2 DEF Cow!Seen, Cow!Present, KernelTypes
<1>8. ASSUME NEW q \in Processes, NEW r \in Cow!Pages, ~(q = p /\ r = page)
      PROVE  Cow!Seen(q, r)' = Cow!Seen(q, r)
  <2>1. CASE r \in DOMAIN pt[q]
    <3>1. pt[q][r].frame # f
      BY <1>2, <1>8, <2>1 DEF Sole
    <3> QED BY <1>1, <1>2, <2>1, <3>1 DEF Cow!Seen, Cow!Present, KernelTypes
  <2>2. CASE r \notin DOMAIN pt[q]
    BY <1>1, <1>2, <2>2 DEF Cow!Seen, Cow!Present, KernelTypes
  <2> QED BY <2>1, <2>2
<1> QED BY <1>3, <1>6, <1>7, <1>8

\* The page table of a buffer that nobody has touched.
LEMMA EmptyTable == DOMAIN <<>> = {} /\ \A S : <<>> \in [{} -> S]
OBVIOUS

\* A process gets another page table: an empty one, or one with read-only
\* entries of the file.
LEMMA TableReplaced ==
  ASSUME KernelInvariant, NEW p \in Processes,
         NEW how \in SUBSET {"MAP_PRIVATE", "MAP_ANONYMOUS", "MAP_POPULATE"}, NEW entries,
         flags' = [flags EXCEPT ![p] = how], pt' = [pt EXCEPT ![p] = entries],
         UNCHANGED <<byte, minflt>>,
         how = {} \/ "MAP_ANONYMOUS" \in how => DOMAIN entries = {},
         DOMAIN entries \subseteq Cow!Pages,
         entries \in [DOMAIN entries -> [frame : Cow!Frames, writable : BOOLEAN]],
         \A r \in DOMAIN entries : entries[r].frame = Cow!Cached(r) /\ ~entries[r].writable
  PROVE  /\ KernelInvariant' /\ pt'[p] = entries /\ flags'[p] = how
         /\ \A q \in Processes : q # p => flags'[q] = flags[q] /\ pt'[q] = pt[q]
         /\ \A r \in Cow!Pages : Cow!Seen(p, r)' = IF "MAP_ANONYMOUS" \in how THEN 0
                                                   ELSE byte[Cow!Cached(r)]
         /\ \A q \in Processes, r \in Cow!Pages : q # p => Cow!Seen(q, r)' = Cow!Seen(q, r)
<1> USE FrameKinds DEF KernelInvariant
<1>1. /\ pt' = [q \in Processes |-> pt'[q]] /\ pt'[p] = entries /\ flags'[p] = how
      /\ \A q \in Processes : q # p => flags'[q] = flags[q] /\ pt'[q] = pt[q]
  BY DEF KernelTypes
<1>2. KernelTypes'
  BY <1>1 DEF KernelTypes
<1>3. Sharing'
  <2>1. ASSUME NEW q \in Processes, flags'[q] = {} PROVE DOMAIN pt'[q] = {}
    BY <1>1, <2>1 DEF Sharing
  <2>2. ASSUME NEW q \in Processes, NEW r \in DOMAIN pt'[q]
        PROVE  /\ pt'[q][r].frame \in {Cow!Zero, Cow!Cached(r)} \cup Cow!AnonFrames
               /\ pt'[q][r].frame = Cow!Zero => "MAP_ANONYMOUS" \in flags'[q]
               /\ pt'[q][r].frame = Cow!Cached(r) => "MAP_ANONYMOUS" \notin flags'[q]
    <3>1. CASE q = p
      BY <1>1, <3>1
    <3>2. CASE q # p
      BY <1>1, <3>2 DEF Sharing
    <3> QED BY <3>1, <3>2
  <2>3. ASSUME NEW q \in Processes, NEW r \in DOMAIN pt'[q], pt'[q][r].writable
        PROVE  pt'[q][r].frame \in Cow!AnonFrames /\ Sole(q, r)'
    <3>1. q # p /\ pt'[q] = pt[q]
      BY <1>1, <2>3
    <3>2. pt[q][r].frame \in Cow!AnonFrames /\ Sole(q, r)
      BY <2>3, <3>1 DEF Sharing
    <3>3. ASSUME NEW o \in Processes, NEW e \in DOMAIN pt'[o],
                 pt'[o][e].frame = pt'[q][r].frame
          PROVE  o = q /\ e = r
      <4>1. CASE o = p
        BY <1>1, <3>1, <3>2, <3>3, <4>1
      <4>2. CASE o # p
        BY <1>1, <3>1, <3>2, <3>3, <4>2 DEF Sole
      <4> QED BY <4>1, <4>2
    <3> QED BY <3>1, <3>2, <3>3 DEF Sole
  <2> QED BY <2>1, <2>2, <2>3 DEF Sharing
<1>4. ASSUME NEW r \in Cow!Pages
      PROVE  Cow!Seen(p, r)' = IF "MAP_ANONYMOUS" \in how THEN 0 ELSE byte[Cow!Cached(r)]
  BY <1>1 DEF Cow!Seen, Cow!Present
<1>5. ASSUME NEW q \in Processes, NEW r \in Cow!Pages, q # p
      PROVE  Cow!Seen(q, r)' = Cow!Seen(q, r)
  BY <1>1, <1>5 DEF Cow!Seen, Cow!Present
<1> QED BY <1>1, <1>2, <1>3, <1>4, <1>5

\* A new mapping is empty, or has all of the file.
LEMMA MapShows ==
  ASSUME KernelInvariant, NEW p \in Processes,
         NEW how \in SUBSET {"MAP_PRIVATE", "MAP_ANONYMOUS", "MAP_POPULATE"}, how # {},
         ~({"MAP_ANONYMOUS", "MAP_POPULATE"} \subseteq how), Cow!Map(p, how)
  PROVE  /\ KernelInvariant' /\ flags'[p] = how /\ UNCHANGED <<byte, minflt>>
         /\ DOMAIN pt'[p] = IF "MAP_POPULATE" \in how THEN Cow!Pages ELSE {}
         /\ \A r \in DOMAIN pt'[p] : ~pt'[p][r].writable
         /\ \A q \in Processes : q # p => flags'[q] = flags[q] /\ pt'[q] = pt[q]
         /\ \A r \in Cow!Pages : Cow!Seen(p, r)' = IF "MAP_ANONYMOUS" \in how THEN 0
                                                   ELSE byte[Cow!Cached(r)]
         /\ \A q \in Processes, r \in Cow!Pages : q # p => Cow!Seen(q, r)' = Cow!Seen(q, r)
<1>1. PICK entries : entries = IF "MAP_POPULATE" \in how
                             THEN [page \in Cow!Pages |-> Cow!Entry(Cow!Cached(page), FALSE)]
                             ELSE <<>>
  OBVIOUS
<1>2. /\ DOMAIN entries = IF "MAP_POPULATE" \in how THEN Cow!Pages ELSE {}
      /\ \A r \in DOMAIN entries : entries[r] = [frame |-> Cow!Cached(r), writable |-> FALSE]
  BY <1>1, EmptyTable DEF Cow!Entry
<1>3. entries \in [DOMAIN entries -> [frame : Cow!Frames, writable : BOOLEAN]]
  <2>1. CASE "MAP_POPULATE" \in how
    BY <1>1, <2>1, FrameKinds DEF Cow!Entry
  <2>2. CASE "MAP_POPULATE" \notin how
    BY <1>1, <1>2, <2>2, EmptyTable
  <2> QED BY <2>1, <2>2
<1>4. /\ flags' = [flags EXCEPT ![p] = how] /\ pt' = [pt EXCEPT ![p] = entries]
      /\ UNCHANGED <<byte, minflt>>
  BY <1>1 DEF Cow!Map
<1>5. /\ \A r \in DOMAIN entries : entries[r].frame = Cow!Cached(r) /\ ~entries[r].writable
      /\ DOMAIN entries \subseteq Cow!Pages
      /\ how = {} \/ "MAP_ANONYMOUS" \in how => DOMAIN entries = {}
  <2>1. ASSUME NEW r \in DOMAIN entries
        PROVE  entries[r].frame = Cow!Cached(r) /\ ~entries[r].writable
    <3>1. entries[r] = [frame |-> Cow!Cached(r), writable |-> FALSE]
      BY <1>2
    <3> QED BY <3>1
  <2>2. how = {} \/ "MAP_ANONYMOUS" \in how => "MAP_POPULATE" \notin how
    OBVIOUS
  <2> QED BY <1>2, <2>1, <2>2
<1>6. /\ KernelInvariant' /\ pt'[p] = entries /\ flags'[p] = how
      /\ \A q \in Processes : q # p => flags'[q] = flags[q] /\ pt'[q] = pt[q]
      /\ \A r \in Cow!Pages : Cow!Seen(p, r)' = IF "MAP_ANONYMOUS" \in how THEN 0
                                                ELSE byte[Cow!Cached(r)]
      /\ \A q \in Processes, r \in Cow!Pages : q # p => Cow!Seen(q, r)' = Cow!Seen(q, r)
  BY <1>3, <1>4, <1>5, TableReplaced
<1> QED BY <1>2, <1>4, <1>5, <1>6

\* An unmapped buffer is gone, and nobody else's has changed.
LEMMA UnmapShows ==
  ASSUME KernelInvariant, NEW p \in Processes, Cow!Unmap(p)
  PROVE  /\ KernelInvariant' /\ flags'[p] = {} /\ UNCHANGED <<byte, minflt>>
         /\ \A q \in Processes : q # p => flags'[q] = flags[q] /\ pt'[q] = pt[q]
         /\ \A q \in Processes, r \in Cow!Pages : q # p => Cow!Seen(q, r)' = Cow!Seen(q, r)
<1>1. PICK entries, how : entries = <<>> /\ how = {}
  OBVIOUS
<1>2. /\ DOMAIN entries = {} /\ entries \in [DOMAIN entries -> [frame : Cow!Frames, writable : BOOLEAN]]
  BY <1>1, EmptyTable
<1>3. /\ flags' = [flags EXCEPT ![p] = how] /\ pt' = [pt EXCEPT ![p] = entries]
      /\ UNCHANGED <<byte, minflt>>
  BY <1>1 DEF Cow!Unmap
<1>4. /\ how \in SUBSET {"MAP_PRIVATE", "MAP_ANONYMOUS", "MAP_POPULATE"}
      /\ DOMAIN entries \subseteq Cow!Pages
      /\ \A r \in DOMAIN entries : entries[r].frame = Cow!Cached(r) /\ ~entries[r].writable
  BY <1>1, <1>2
<1>5. /\ KernelInvariant' /\ flags'[p] = how
      /\ \A q \in Processes : q # p => flags'[q] = flags[q] /\ pt'[q] = pt[q]
      /\ \A q \in Processes, r \in Cow!Pages : q # p => Cow!Seen(q, r)' = Cow!Seen(q, r)
  BY <1>2, <1>3, <1>4, TableReplaced
<1> QED BY <1>1, <1>3, <1>5

\* After a fork of a private buffer both processes have its pages, none of
\* which may be written without a fault.
LEMMA ForkShows ==
  ASSUME KernelInvariant, NEW p \in Processes, NEW child \in Processes, p # child,
         "MAP_PRIVATE" \in flags[p], Cow!ForkMemory(p, child)
  PROVE  /\ KernelInvariant' /\ byte' = byte
         /\ flags' = [flags EXCEPT ![child] = flags[p]]
         /\ minflt' = [minflt EXCEPT ![child] = 0]
         /\ DOMAIN pt'[child] = DOMAIN pt[p]
         /\ \A r \in DOMAIN pt'[child] : ~pt'[child][r].writable
         /\ \A r \in Cow!Pages : Cow!Seen(child, r)' = Cow!Seen(p, r)
         /\ \A q \in Processes, r \in Cow!Pages : q # child => Cow!Seen(q, r)' = Cow!Seen(q, r)
<1> USE FrameKinds DEF KernelInvariant
<1>1. PICK copy : copy = [page \in DOMAIN pt[p] |->
                            [pt[p][page] EXCEPT !.writable = @ /\ "MAP_PRIVATE" \notin flags[p]]]
  OBVIOUS
<1>2. /\ flags' = [flags EXCEPT ![child] = flags[p]]
      /\ pt' = [pt EXCEPT ![p] = copy, ![child] = copy]
      /\ minflt' = [minflt EXCEPT ![child] = 0] /\ byte' = byte
  BY <1>1 DEF Cow!ForkMemory
<1>3. /\ DOMAIN copy = DOMAIN pt[p]
      /\ \A r \in DOMAIN copy : copy[r] = [frame |-> pt[p][r].frame, writable |-> FALSE]
  <2>1. ASSUME NEW r \in DOMAIN pt[p]
        PROVE  copy[r] = [frame |-> pt[p][r].frame, writable |-> FALSE]
    <3>1. PICK e \in [frame : Cow!Frames, writable : BOOLEAN] : e = pt[p][r]
      BY DEF KernelTypes
    <3>2. PICK b \in BOOLEAN : b = (e.writable /\ "MAP_PRIVATE" \notin flags[p])
      OBVIOUS
    <3>3. b = FALSE
      BY <3>2
    <3>4. copy[r] = [e EXCEPT !.writable = b]
      BY <1>1, <3>1, <3>2
    <3> QED BY <3>1, <3>3, <3>4, ReadOnlyEntry
  <2> QED BY <1>1, <2>1
<1>4. /\ pt' = [q \in Processes |-> pt'[q]] /\ pt'[p] = copy /\ pt'[child] = copy
      /\ \A q \in Processes : q # p /\ q # child => pt'[q] = pt[q]
  BY <1>2 DEF KernelTypes
<1>5. copy \in [DOMAIN copy -> [frame : Cow!Frames, writable : BOOLEAN]]
  <2>1. ASSUME NEW r \in DOMAIN copy PROVE copy[r] \in [frame : Cow!Frames, writable : BOOLEAN]
    <3>1. copy[r] = [frame |-> pt[p][r].frame, writable |-> FALSE] /\ r \in DOMAIN pt[p]
      BY <1>3
    <3>2. pt[p][r].frame \in Cow!Frames
      BY <3>1 DEF KernelTypes
    <3> QED BY <3>1, <3>2
  <2> QED BY <1>1, <1>3, <2>1
<1>6. KernelTypes'
  BY <1>2, <1>3, <1>4, <1>5 DEF KernelTypes
<1>7. ASSUME NEW q \in Processes, NEW r \in DOMAIN pt'[q]
      PROVE  \/ q # child /\ q # p /\ r \in DOMAIN pt[q] /\ pt'[q][r] = pt[q][r]
             \/ /\ q \in {child, p} /\ r \in DOMAIN pt[p] /\ flags'[q] = flags[p]
                /\ pt'[q][r].frame = pt[p][r].frame /\ ~pt'[q][r].writable
  <2>1. CASE q \in {child, p}
    <3>1. pt'[q] = copy /\ flags'[q] = flags[p]
      BY <1>2, <1>4, <2>1 DEF KernelTypes
    <3>2. r \in DOMAIN pt[p] /\ copy[r] = [frame |-> pt[p][r].frame, writable |-> FALSE]
      BY <1>3, <3>1
    <3> QED BY <2>1, <3>1, <3>2
  <2>2. CASE q \notin {child, p}
    BY <1>4, <2>2
  <2> QED BY <2>1, <2>2
<1>8. Sharing'
  <2>1. ASSUME NEW q \in Processes, flags'[q] = {} PROVE DOMAIN pt'[q] = {}
    BY <1>2, <1>3, <1>4, <2>1 DEF Sharing, KernelTypes
  <2>2. ASSUME NEW q \in Processes, NEW r \in DOMAIN pt'[q]
        PROVE  /\ pt'[q][r].frame \in {Cow!Zero, Cow!Cached(r)} \cup Cow!AnonFrames
               /\ pt'[q][r].frame = Cow!Zero => "MAP_ANONYMOUS" \in flags'[q]
               /\ pt'[q][r].frame = Cow!Cached(r) => "MAP_ANONYMOUS" \notin flags'[q]
    <3>1. CASE q \in {child, p}
      <4>1. r \in DOMAIN pt[p] /\ flags'[q] = flags[p] /\ pt'[q][r].frame = pt[p][r].frame
        BY <1>7, <3>1
      <4> QED BY <4>1 DEF Sharing
    <3>2. CASE q \notin {child, p}
      <4>1. r \in DOMAIN pt[q] /\ flags'[q] = flags[q] /\ pt'[q][r] = pt[q][r]
        BY <1>2, <1>7, <3>2 DEF KernelTypes
      <4> QED BY <4>1 DEF Sharing
    <3> QED BY <3>1, <3>2
  <2>3. ASSUME NEW q \in Processes, NEW r \in DOMAIN pt'[q], pt'[q][r].writable
        PROVE  pt'[q][r].frame \in Cow!AnonFrames /\ Sole(q, r)'
    <3>1. q # p /\ r \in DOMAIN pt[q] /\ pt'[q][r] = pt[q][r]
      BY <1>7, <2>3
    <3>2. pt[q][r].frame \in Cow!AnonFrames /\ Sole(q, r)
      BY <2>3, <3>1 DEF Sharing
    <3>3. ASSUME NEW o \in Processes, NEW e \in DOMAIN pt'[o],
                 pt'[o][e].frame = pt'[q][r].frame
          PROVE  o = q /\ e = r
      <4>1. CASE o \in {child, p}
        <5>1. e \in DOMAIN pt[p] /\ pt[p][e].frame = pt[q][r].frame
          BY <1>7, <3>1, <3>3, <4>1
        <5> QED BY <3>1, <3>2, <5>1 DEF Sole
      <4>2. CASE o \notin {child, p}
        <5>1. e \in DOMAIN pt[o] /\ pt[o][e].frame = pt[q][r].frame
          BY <1>7, <3>1, <3>3, <4>2
        <5> QED BY <3>2, <5>1 DEF Sole
      <4> QED BY <4>1, <4>2
    <3> QED BY <3>1, <3>2, <3>3 DEF Sole
  <2> QED BY <1>2, <2>1, <2>2, <2>3 DEF Sharing
<1>9. ASSUME NEW r \in Cow!Pages
      PROVE  /\ Cow!Seen(child, r)' = Cow!Seen(p, r)
             /\ Cow!Seen(p, r)' = Cow!Seen(p, r)
  <2>1. flags'[child] = flags[p] /\ flags'[p] = flags[p]
    BY <1>2 DEF KernelTypes
  <2>2. CASE r \in DOMAIN pt[p]
    <3>1. copy[r].frame = pt[p][r].frame
      <4>1. copy[r] = [frame |-> pt[p][r].frame, writable |-> FALSE]
        BY <1>3, <2>2
      <4> QED BY <4>1
    <3> QED BY <1>2, <1>3, <1>4, <2>2, <3>1 DEF Cow!Seen, Cow!Present
  <2>3. CASE r \notin DOMAIN pt[p]
    BY <1>2, <1>3, <1>4, <2>1, <2>3 DEF Cow!Seen, Cow!Present
  <2> QED BY <2>2, <2>3
<1>10. ASSUME NEW q \in Processes, NEW r \in Cow!Pages, q \notin {child, p}
       PROVE  Cow!Seen(q, r)' = Cow!Seen(q, r)
  BY <1>2, <1>4, <1>10 DEF Cow!Seen, Cow!Present, KernelTypes
<1>11. ASSUME NEW r \in DOMAIN copy PROVE ~copy[r].writable
  <2>1. copy[r] = [frame |-> pt[p][r].frame, writable |-> FALSE]
    BY <1>3
  <2> QED BY <2>1
<1> QED BY <1>2, <1>3, <1>4, <1>6, <1>8, <1>9, <1>10, <1>11

-----------------------------------------------------------------------------
(* Where a fault or a store changes a page table.                           *)

Elsewhere(p, page) ==
  \A q \in Processes, r \in Cow!Pages :
    ~(q = p /\ r = page) => /\ Cow!Present(q, r)' <=> Cow!Present(q, r)
                            /\ Cow!Writable(q, r)' <=> Cow!Writable(q, r)

\* A load fault of an anonymous buffer maps one page, which may not be written.
LEMMA LoadFaultHere ==
  ASSUME KernelInvariant, NEW p \in Processes, NEW page \in Cow!Pages,
         "MAP_ANONYMOUS" \in flags[p], Cow!LoadFault(p, page)
  PROVE  /\ KernelInvariant' /\ SeenAsBefore /\ Elsewhere(p, page)
         /\ Cow!Present(p, page)' /\ ~Cow!Writable(p, page)'
         /\ ~Cow!Present(p, page) /\ ~Cow!Writable(p, page)
         /\ flags' = flags /\ minflt' = [minflt EXCEPT ![p] = @ + 1]
<1>1. KernelInvariant' /\ SeenAsBefore
  BY LoadFaultKeeps
<1>2. PICK around \in SUBSET (Cow!Pages \ DOMAIN pt[p]) :
        /\ around = {page} /\ OnlyAt(p, around)
        /\ \A r \in around : pt'[p][r] =
             [frame |-> IF "MAP_ANONYMOUS" \in flags[p] THEN Cow!Zero ELSE Cow!Cached(r),
              writable |-> FALSE]
  BY LoadFaultAdds DEF KernelInvariant
<1>3. pt'[p][page] = [frame |-> Cow!Zero, writable |-> FALSE]
  BY <1>2
<1>4. pt'[p][page].writable = FALSE
  BY <1>3
<1>5. Elsewhere(p, page)
  BY <1>2 DEF Elsewhere, OnlyAt, Cow!Present, Cow!Writable
<1>6. Cow!Present(p, page)' /\ ~Cow!Writable(p, page)'
  BY <1>2, <1>4 DEF OnlyAt, Cow!Present, Cow!Writable
<1> QED BY <1>1, <1>5, <1>6 DEF Cow!LoadFault, Cow!Writable

\* A store fault maps one page, which then may be written.
LEMMA StoreFaultHere ==
  ASSUME KernelInvariant, NEW p \in Processes, NEW page \in Cow!Pages, flags[p] # {},
         Cow!StoreFault(p, page)
  PROVE  /\ KernelInvariant' /\ SeenAsBefore /\ Elsewhere(p, page)
         /\ Cow!Present(p, page)' /\ Cow!Writable(p, page)' /\ ~Cow!Writable(p, page)
         /\ flags' = flags /\ minflt' = [minflt EXCEPT ![p] = @ + 1]
<1>1. KernelInvariant' /\ SeenAsBefore
  BY StoreFaultKeeps
<1>2. OnlyAt(p, {page})
  BY StoreFaultMaps DEF KernelInvariant
<1>3. pt'[p][page].writable = TRUE
  <2>1. PICK f : pt'[p][page] = [frame |-> f, writable |-> TRUE]
    BY StoreFaultMaps DEF KernelInvariant
  <2> QED BY <2>1
<1>4. Elsewhere(p, page)
  BY <1>2 DEF Elsewhere, OnlyAt, Cow!Present, Cow!Writable
<1>5. Cow!Present(p, page)' /\ Cow!Writable(p, page)'
  BY <1>2, <1>3 DEF OnlyAt, Cow!Present, Cow!Writable
<1> QED BY <1>1, <1>4, <1>5 DEF Cow!StoreFault

-----------------------------------------------------------------------------
(* The invariant of copy-on-write.                                          *)

\* What was mapped at the fork was what the warm-up touched.
ParentTable ==
  /\ pc["parent"] = "warmup" => /\ option.warmup /\ i["parent"] \in 0 .. NumPages
                                /\ \A page \in 0 .. i["parent"] - 1 : Cow!Present("parent", page)
  /\ pc["parent"] = "fork" => \A page \in Cow!Pages : Cow!Present("parent", page) <=> option.warmup
  /\ pc["parent"] = "mmap" => i["parent"] = 0

\* The pages that the child has not come to are as they were at the fork.
AsForked(page) == /\ Cow!Present("child", page) <=> option.warmup
                  /\ ~Cow!Writable("child", page)

\* The faults of the pages that are done and of the one that is being touched:
\* a load fault for each page unless it was there, or is stored to at once,
\* and a store fault for each that is written.
One(b) == IF b THEN 1 ELSE 0
StoresOnly == option.mode = "write" /\ option.build = "one_instruction"
ChildLoads == IF option.warmup \/ StoresOnly THEN 0
              ELSE i["child"] + One(Cow!Present("child", i["child"]))
ChildStores == IF option.mode = "read" THEN 0
               ELSE i["child"] + One(Cow!Writable("child", i["child"]))
ChildTable ==
  /\ pc["child"] = "getrusage" => \A page \in Cow!Pages : AsForked(page)
  /\ pc["child"] = "touch" =>
       /\ \A page \in Cow!Pages : page > i["child"] => AsForked(page)
       /\ option.warmup /\ i["child"] < NumPages => Cow!Present("child", i["child"])
       /\ minflt["child"] = before + ChildLoads + ChildStores

CowBuffers ==
  /\ flags["parent"] = IF pc["parent"] \in {"warmup", "fork", "wait"} THEN Cow!MapFlags ELSE {}
  /\ flags["child"] = IF pc["child"] \in {"getrusage", "touch", "munmap"} THEN Cow!MapFlags ELSE {}
CowMemory ==
  /\ before \in Nat
  /\ option \in [mode : {"read", "write"}, warmup : BOOLEAN, build : Cow!Builds]
  /\ CowBuffers /\ ParentTable /\ ChildTable /\ Cow!FaultsPerMode
  /\ lab # "cow" => rows = <<>> /\ flags["parent"] = {} /\ flags["child"] = {}

-----------------------------------------------------------------------------
(* Copy-on-write: the child's faults.                                       *)

CowKnown == CowInvariant /\ KernelInvariant /\ CowMemory

\* A page that is touched: it faults, or it is done.
LEMMA ChildTouches ==
  ASSUME CowKnown, pc["child"] = "touch", NEW page \in Cow!Pages, page = i["child"],
         UNCHANGED <<pc, option, before>>,
         \/ /\ i' = i /\ Elsewhere("child", page)
            /\ minflt'["child"] = minflt["child"] + 1
            /\ Cow!Present("child", page)'
            /\ \/ ~Cow!Present("child", page) /\ ~StoresOnly
                  /\ ~Cow!Writable("child", page) /\ ~Cow!Writable("child", page)'
               \/ /\ option.mode = "write" /\ (StoresOnly \/ Cow!Present("child", page))
                  /\ ~Cow!Writable("child", page) /\ Cow!Writable("child", page)'
         \/ /\ i' = [i EXCEPT !["child"] = @ + 1] /\ pt' = pt /\ minflt' = minflt
            /\ option.mode = "read" => Cow!Present("child", page)
            /\ option.mode = "write" => Cow!Writable("child", page)
  PROVE  ChildTable'
<1> USE OsAssumption DEF CowKnown
<1>1. /\ page \in Nat /\ page < NumPages /\ NumPages \in Nat
      /\ option.mode \in {"read", "write"} /\ before \in Nat /\ minflt["child"] \in Nat
  BY DEF Cow!Pages, CowMemory, KernelInvariant, KernelTypes, Processes
<1>2. /\ \A r \in Cow!Pages : r > page => AsForked(r)
      /\ option.warmup => Cow!Present("child", page)
      /\ minflt["child"] = before + ChildLoads + ChildStores
  BY <1>1 DEF CowMemory, ChildTable
<1>3. "child" \in Processes
  BY DEF Processes
<1>4. CASE i' = i /\ Elsewhere("child", page) /\ minflt'["child"] = minflt["child"] + 1
           /\ Cow!Present("child", page)'
  <2>1. \A r \in Cow!Pages : r > page => AsForked(r)'
    BY <1>1, <1>2, <1>3, <1>4 DEF AsForked, Elsewhere
  <2>2. ChildLoads' + ChildStores' = ChildLoads + ChildStores + 1
    BY <1>1, <1>2, <1>4 DEF ChildLoads, ChildStores, StoresOnly, One, Cow!Writable
  <2>3. ChildLoads \in Nat /\ ChildStores \in Nat /\ ChildLoads' \in Nat /\ ChildStores' \in Nat
    BY <1>1, <1>4 DEF ChildLoads, ChildStores, One
  <2>4. minflt'["child"] = before' + ChildLoads' + ChildStores'
    <3>1. PICK b \in Nat, l \in Nat, s \in Nat, ll \in Nat, ss \in Nat :
            b = before /\ l = ChildLoads /\ s = ChildStores /\ ll = ChildLoads' /\ ss = ChildStores'
      BY <1>1, <2>3
    <3>2. ll + ss = l + s + 1 => (b + l + s) + 1 = b + ll + ss
      OBVIOUS
    <3> QED BY <1>2, <1>4, <2>2, <3>1, <3>2
  <2> QED BY <1>1, <1>4, <2>1, <2>4 DEF ChildTable
<1>5. CASE /\ i' = [i EXCEPT !["child"] = @ + 1] /\ pt' = pt /\ minflt' = minflt
           /\ option.mode = "read" => Cow!Present("child", page)
           /\ option.mode = "write" => Cow!Writable("child", page)
  <2>1. i'["child"] = page + 1
    BY <1>5 DEF CowInvariant, Cow!Family
  <2>2. /\ option.warmup /\ page + 1 < NumPages => Cow!Present("child", page + 1)
        /\ Cow!Present("child", page + 1) => option.warmup
        /\ ~Cow!Writable("child", page + 1)
    <3>1. PICK n \in Nat : n = page + 1
      BY <1>1
    <3>2. CASE n \in Cow!Pages
      BY <1>1, <1>2, <3>1, <3>2 DEF AsForked
    <3>3. CASE n \notin Cow!Pages
      <4>1. DOMAIN pt["child"] \subseteq Cow!Pages /\ ~(n < NumPages)
        BY <1>1, <1>3, <3>1, <3>3 DEF KernelInvariant, KernelTypes, Cow!Pages
      <4> QED BY <3>1, <3>3, <4>1 DEF Cow!Present, Cow!Writable
    <3> QED BY <3>2, <3>3
  <2>3. Cow!Present("child", page)
    BY <1>1, <1>5 DEF Cow!Writable
  <2>4. /\ ChildLoads' = IF option.warmup \/ StoresOnly THEN 0 ELSE page + 1
        /\ ChildLoads = IF option.warmup \/ StoresOnly THEN 0 ELSE page + 1
    BY <1>1, <1>5, <2>1, <2>2, <2>3 DEF ChildLoads, StoresOnly, One, Cow!Present
  <2>5. /\ ChildStores' = IF option.mode = "read" THEN 0 ELSE page + 1
        /\ ChildStores = IF option.mode = "read" THEN 0 ELSE page + 1
    BY <1>1, <1>5, <2>1, <2>2 DEF ChildStores, One, Cow!Present, Cow!Writable
  <2>6. \A r \in Cow!Pages : r > page + 1 => AsForked(r)'
    <3>1. \A r \in Cow!Pages : r > page + 1 => r > page
      BY <1>1 DEF Cow!Pages
    <3> QED BY <1>2, <1>5, <3>1 DEF AsForked, Cow!Present, Cow!Writable
  <2> QED BY <1>1, <1>2, <1>5, <2>1, <2>2, <2>4, <2>5, <2>6 DEF ChildTable, Cow!Present
<1> QED BY <1>4, <1>5

-----------------------------------------------------------------------------
(* Copy-on-write: the memory that the processes see.                        *)

Buffers == {q \in Cow!Family : flags[q] # {}}
Memory == [p \in Buffers |-> [page \in Cow!Pages |-> Cow!Seen(p, page)]]
PrivateStep == Cow!Private!Next \/ UNCHANGED Memory

\* Who sees what it saw has the memory it had.
LEMMA MemorySame ==
  ASSUME \A q \in Cow!Family : flags'[q] = flags[q],
         \A q \in Cow!Family, r \in Cow!Pages : Cow!Seen(q, r)' = Cow!Seen(q, r)
  PROVE  PrivateStep
<1>1. Buffers' = Buffers
  BY DEF Buffers
<1>2. \A q \in Buffers, r \in Cow!Pages : Cow!Seen(q, r)' = Cow!Seen(q, r)
  BY DEF Buffers
<1>3. Memory' = Memory
  BY <1>1, <1>2 DEF Memory
<1> QED BY <1>3 DEF PrivateStep

\* A store writes one byte of one process's memory.
LEMMA MemoryWritten ==
  ASSUME NEW p \in Cow!Family, NEW page \in Cow!Pages, NEW value \in 0 .. 255, flags[p] # {},
         flags' = flags, Cow!Seen(p, page)' = value,
         \A q \in Cow!Family, r \in Cow!Pages :
           ~(q = p /\ r = page) => Cow!Seen(q, r)' = Cow!Seen(q, r)
  PROVE  PrivateStep
<1>1. Buffers' = Buffers /\ p \in Buffers /\ Buffers \subseteq Cow!Family
  BY DEF Buffers
<1>2. Memory' = [Memory EXCEPT ![p][page] = value]
  BY <1>1 DEF Memory
<1>3. Cow!Private!Write(p, page, value)
  BY <1>1, <1>2 DEF Cow!Private!Write, Memory, Buffers
<1> QED BY <1>3 DEF PrivateStep, Cow!Private!Next, Cow!Values

\* mmap allocates zeroes.
LEMMA MemoryAllocated ==
  ASSUME NEW p \in Cow!Family, flags[p] = {}, flags'[p] # {},
         \A q \in Cow!Family : q # p => flags'[q] = flags[q],
         \A r \in Cow!Pages : Cow!Seen(p, r)' = 0,
         \A q \in Cow!Family, r \in Cow!Pages : q # p => Cow!Seen(q, r)' = Cow!Seen(q, r)
  PROVE  PrivateStep
<1>1. Buffers' = Buffers \cup {p} /\ p \notin Buffers /\ Buffers \subseteq Cow!Family
  BY DEF Buffers
<1>2. Memory' = [q \in Buffers \cup {p} |->
                   IF q = p THEN [page \in Cow!Pages |-> 0] ELSE Memory[q]]
  BY <1>1 DEF Memory
<1>3. DOMAIN Memory = Buffers
  BY DEF Memory
<1>4. Cow!Private!Allocate(p)
  BY <1>1, <1>2, <1>3 DEF Cow!Private!Allocate, Memory, Buffers
<1> QED BY <1>4 DEF PrivateStep, Cow!Private!Next

\* fork copies.
LEMMA MemoryForked ==
  ASSUME NEW p \in Cow!Family, NEW child \in Cow!Family, flags[p] # {}, flags[child] = {},
         flags'[child] # {},
         \A q \in Cow!Family : q # child => flags'[q] = flags[q],
         \A r \in Cow!Pages : Cow!Seen(child, r)' = Cow!Seen(p, r),
         \A q \in Cow!Family, r \in Cow!Pages : q # child => Cow!Seen(q, r)' = Cow!Seen(q, r)
  PROVE  PrivateStep
<1>1. /\ Buffers' = Buffers \cup {child} /\ p \in Buffers /\ child \notin Buffers
      /\ Buffers \subseteq Cow!Family
  BY DEF Buffers
<1>2. Memory' = [q \in Buffers \cup {child} |-> Memory[IF q = child THEN p ELSE q]]
  BY <1>1 DEF Memory
<1>3. DOMAIN Memory = Buffers
  BY DEF Memory
<1>4. Cow!Private!Fork(p, child)
  BY <1>1, <1>2, <1>3 DEF Cow!Private!Fork, Memory, Buffers
<1> QED BY <1>4 DEF PrivateStep, Cow!Private!Next

\* The end of a process releases its memory, if it has any.
LEMMA MemoryReleased ==
  ASSUME NEW p \in Cow!Family, flags'[p] = {},
         \A q \in Cow!Family : q # p => flags'[q] = flags[q],
         \A q \in Cow!Family, r \in Cow!Pages : q # p => Cow!Seen(q, r)' = Cow!Seen(q, r)
  PROVE  PrivateStep
<1>1. Buffers' = Buffers \ {p} /\ Buffers \subseteq Cow!Family
  BY DEF Buffers
<1>2. Memory' = [q \in Buffers \ {p} |-> Memory[q]]
  BY <1>1 DEF Memory
<1>3. DOMAIN Memory = Buffers
  BY DEF Memory
<1>4. CASE p \in Buffers
  <2>1. Cow!Private!Release(p)
    BY <1>2, <1>3, <1>4 DEF Cow!Private!Release, Memory, Buffers
  <2> QED BY <2>1 DEF PrivateStep, Cow!Private!Next
<1>5. CASE p \notin Buffers
  <2>1. Memory' = Memory
    BY <1>2, <1>5 DEF Memory
  <2> QED BY <2>1 DEF PrivateStep
<1> QED BY <1>4, <1>5

-----------------------------------------------------------------------------
(* Copy-on-write: its steps.                                                *)

\* The two processes are not the third, and their buffers are anonymous.
LEMMA TheFamily ==
  /\ Cow!Family = {"parent", "child"} /\ Cow!Family \subseteq Processes
  /\ Cow!MapFlags # {} /\ "MAP_ANONYMOUS" \in Cow!MapFlags /\ "MAP_PRIVATE" \in Cow!MapFlags
  /\ Cow!MapFlags \in SUBSET {"MAP_PRIVATE", "MAP_ANONYMOUS", "MAP_POPULATE"}
  /\ "MAP_POPULATE" \notin Cow!MapFlags
BY DEF Cow!Family, Cow!MapFlags, Processes

\* A process that goes on.
LEMMA CowGoto ==
  ASSUME CowKnown, NEW p \in Cow!Family, NEW to, Cow!Goto(p, to)
  PROVE  /\ pc'[p] = to /\ \A q \in Cow!Family : q # p => pc'[q] = pc[q]
BY DEF CowKnown, CowInvariant, Cow!Goto

\* The end of a process, with its memory.
LEMMA CowMemoryEnds ==
  ASSUME CowKnown, lab = "cow", lab' = lab, NEW p \in Cow!Family, NEW how, Cow!End(p, how)
  PROVE  KernelInvariant' /\ CowMemory' /\ PrivateStep
<1> USE TheFamily
<1>1. /\ KernelInvariant' /\ flags'[p] = {} /\ UNCHANGED <<byte, minflt>>
      /\ \A q \in Processes : q # p => flags'[q] = flags[q] /\ pt'[q] = pt[q]
      /\ \A q \in Processes, r \in Cow!Pages : q # p => Cow!Seen(q, r)' = Cow!Seen(q, r)
  <2>1. Cow!Unmap(p) /\ p \in Processes
    BY DEF Cow!End
  <2> QED BY <2>1, UnmapShows DEF CowKnown
<1>2. /\ pc'[p] = "ended" /\ \A q \in Cow!Family : q # p => pc'[q] = pc[q]
      /\ UNCHANGED <<option, i, before, rows>>
  BY CowGoto DEF Cow!End
<1>3. CowBuffers'
  BY <1>1, <1>2 DEF CowKnown, CowMemory, CowBuffers
<1>4. ParentTable' /\ ChildTable'
  BY <1>1, <1>2 DEF CowKnown, CowMemory, ParentTable, ChildTable, AsForked, ChildLoads,
                    ChildStores, StoresOnly, One, Cow!Present, Cow!Writable
<1>5. CowMemory'
  BY <1>2, <1>3, <1>4 DEF CowKnown, CowMemory, Cow!FaultsPerMode, Cow!BufferFaults
<1>6. PrivateStep
  BY <1>1, MemoryReleased
<1> QED BY <1>1, <1>5, <1>6

\* The parent maps its buffer.
LEMMA CowMemoryMaps ==
  ASSUME CowKnown, lab = "cow", lab' = lab, Cow!MapBuffer
  PROVE  KernelInvariant' /\ CowMemory' /\ PrivateStep
<1> USE TheFamily
<1>1. /\ pc["parent"] = "mmap" /\ Cow!Map("parent", Cow!MapFlags)
      /\ Cow!Goto("parent", IF option.warmup THEN "warmup" ELSE "fork")
      /\ UNCHANGED <<option, i, before, rows>>
  BY DEF Cow!MapBuffer
<1>2. /\ KernelInvariant' /\ flags'["parent"] = Cow!MapFlags /\ UNCHANGED <<byte, minflt>>
      /\ DOMAIN pt'["parent"] = {}
      /\ \A q \in Processes : q # "parent" => flags'[q] = flags[q] /\ pt'[q] = pt[q]
      /\ \A r \in Cow!Pages : Cow!Seen("parent", r)' = 0
      /\ \A q \in Processes, r \in Cow!Pages : q # "parent" => Cow!Seen(q, r)' = Cow!Seen(q, r)
  <2>1. PICK how \in SUBSET {"MAP_PRIVATE", "MAP_ANONYMOUS", "MAP_POPULATE"} :
          how = Cow!MapFlags /\ how # {} /\ ~({"MAP_ANONYMOUS", "MAP_POPULATE"} \subseteq how)
    OBVIOUS
  <2>2. "parent" \in Processes /\ Cow!Map("parent", how)
    BY <1>1, <2>1
  <2> QED BY <2>1, <2>2, MapShows DEF CowKnown
<1>3. /\ pc'["parent"] = IF option.warmup THEN "warmup" ELSE "fork"
      /\ pc'["child"] = pc["child"] /\ pc["child"] = "not_forked"
  <2>1. pc'["child"] = pc["child"] /\ pc'["parent"] = IF option.warmup THEN "warmup" ELSE "fork"
    BY <1>1, CowGoto
  <2> QED BY <1>1, <2>1 DEF CowKnown, CowInvariant
<1>4. CowBuffers'
  BY <1>2, <1>3 DEF CowKnown, CowMemory, CowBuffers
<1>5. ParentTable'
  <2>1. i["parent"] = 0 /\ NumPages \in Nat
    BY <1>1, OsAssumption DEF CowKnown, CowMemory, ParentTable
  <2> QED BY <1>1, <1>2, <1>3, <2>1 DEF ParentTable, Cow!Present
<1>6. ChildTable'
  BY <1>3 DEF ChildTable
<1>7. CowMemory'
  BY <1>1, <1>4, <1>5, <1>6 DEF CowKnown, CowMemory, Cow!FaultsPerMode, Cow!BufferFaults
<1>8. flags["parent"] = {}
  BY <1>1 DEF CowKnown, CowMemory, CowBuffers
<1>9. PrivateStep
  BY <1>2, <1>8, MemoryAllocated
<1> QED BY <1>2, <1>7, <1>9

\* The parent's warm-up: a fault, or a store.
LEMMA CowMemoryWarms ==
  ASSUME CowKnown, lab = "cow", lab' = lab, Cow!WarmupPage
  PROVE  KernelInvariant' /\ CowMemory' /\ PrivateStep
<1> USE TheFamily
<1>1. PICK page \in Cow!Pages : page = i["parent"]
  BY DEF Cow!WarmupPage, Cow!Warmed
<1>2. /\ pc["parent"] = "warmup" /\ pc["child"] = "not_forked" /\ flags["parent"] = Cow!MapFlags
      /\ option.warmup /\ \A r \in 0 .. page - 1 : Cow!Present("parent", r)
  BY <1>1 DEF Cow!WarmupPage, CowKnown, CowInvariant, CowMemory, CowBuffers, ParentTable
<1>3. page \in Nat /\ page < NumPages /\ NumPages \in Nat
  BY OsAssumption DEF Cow!Pages
<1>4. ASSUME Cow!StoreFault("parent", page), UNCHANGED cowVars
      PROVE  KernelInvariant' /\ CowMemory' /\ PrivateStep
  <2>1. /\ KernelInvariant' /\ SeenAsBefore /\ Elsewhere("parent", page)
        /\ Cow!Present("parent", page)' /\ flags' = flags
    BY <1>2, <1>4, StoreFaultHere DEF CowKnown
  <2>2. ParentTable'
    <3>1. \A r \in 0 .. page - 1 : Cow!Present("parent", r)'
      BY <1>2, <1>3, <2>1 DEF Elsewhere, Cow!Pages
    <3> QED BY <1>1, <1>2, <1>3, <1>4, <3>1 DEF ParentTable, cowVars
  <2>3. ChildTable' /\ CowBuffers'
    BY <1>2, <1>4, <2>1 DEF ChildTable, cowVars, CowBuffers, CowKnown, CowMemory
  <2>4. CowMemory'
    BY <1>4, <2>2, <2>3 DEF CowKnown, CowMemory, Cow!FaultsPerMode, Cow!BufferFaults, cowVars
  <2>5. PrivateStep
    BY <2>1, MemorySame DEF SeenAsBefore
  <2> QED BY <2>1, <2>4, <2>5
<1>5. ASSUME Cow!Store("parent", page, page % 256), i' = [i EXCEPT !["parent"] = @ + 1],
             UNCHANGED <<option, pc, before, rows, exit>>
      PROVE  KernelInvariant' /\ CowMemory' /\ PrivateStep
  <2>1. PICK value \in 0 .. 255 : value = page % 256
    BY <1>3
  <2>2. /\ KernelInvariant' /\ Cow!Seen("parent", page)' = value
        /\ \A q \in Processes, r \in Cow!Pages :
             ~(q = "parent" /\ r = page) => Cow!Seen(q, r)' = Cow!Seen(q, r)
    BY <1>5, <2>1, StoreKeeps DEF CowKnown
  <2>3. /\ UNCHANGED <<flags, pt, minflt>> /\ Cow!Present("parent", page)
    BY <1>5 DEF Cow!Store, Cow!Writable
  <2>4. i'["parent"] = page + 1
    BY <1>1, <1>5 DEF CowKnown, CowInvariant
  <2>5. ParentTable'
    <3>1. \A r \in 0 .. (page + 1) - 1 : r = page \/ r \in 0 .. page - 1
      BY <1>3
    <3>2. \A r \in 0 .. (page + 1) - 1 : Cow!Present("parent", r)
      BY <1>2, <2>3, <3>1
    <3>3. page + 1 \in 0 .. NumPages
      BY <1>3
    <3> QED BY <1>2, <1>5, <2>3, <2>4, <3>2, <3>3 DEF ParentTable, Cow!Present
  <2>6. ChildTable' /\ CowBuffers'
    BY <1>2, <1>5, <2>3 DEF ChildTable, CowBuffers, CowKnown, CowMemory
  <2>7. CowMemory'
    BY <1>5, <2>5, <2>6 DEF CowKnown, CowMemory, Cow!FaultsPerMode, Cow!BufferFaults
  <2>8. PrivateStep
    BY <1>2, <2>2, <2>3, MemoryWritten
  <2> QED BY <2>2, <2>7, <2>8
<1>6. CASE Cow!StoreFault("parent", i["parent"]) /\ UNCHANGED Cow!cow
  BY <1>1, <1>4, <1>6 DEF Cow!cow, cowVars
<1>7. CASE /\ Cow!Store("parent", i["parent"], i["parent"] % 256)
           /\ i' = [i EXCEPT !["parent"] = @ + 1]
           /\ UNCHANGED <<option, pc, before, rows, exit>>
  BY <1>1, <1>5, <1>7
<1> QED BY <1>6, <1>7 DEF Cow!WarmupPage

\* The fork.
LEMMA CowMemoryForks ==
  ASSUME CowKnown, lab = "cow", lab' = lab, Cow!Fork
  PROVE  KernelInvariant' /\ CowMemory' /\ PrivateStep
<1> USE TheFamily
<1>1. /\ pc["parent"] = "fork" /\ pc["child"] = "not_forked"
      /\ flags["parent"] = Cow!MapFlags /\ flags["child"] = {}
      /\ \A page \in Cow!Pages : Cow!Present("parent", page) <=> option.warmup
  BY DEF Cow!Fork, CowKnown, CowInvariant, CowMemory, CowBuffers, ParentTable
<1>2. /\ pc' = [p \in Cow!Family |-> IF p = "parent" THEN "wait" ELSE "getrusage"]
      /\ UNCHANGED <<option, i, before, rows>>
  BY DEF Cow!Fork
<1>3. /\ KernelInvariant'
      /\ flags' = [flags EXCEPT !["child"] = flags["parent"]]
      /\ DOMAIN pt'["child"] = DOMAIN pt["parent"]
      /\ \A r \in DOMAIN pt'["child"] : ~pt'["child"][r].writable
      /\ \A r \in Cow!Pages : Cow!Seen("child", r)' = Cow!Seen("parent", r)
      /\ \A q \in Processes, r \in Cow!Pages : q # "child" => Cow!Seen(q, r)' = Cow!Seen(q, r)
  BY <1>1, ForkShows DEF Cow!Fork, CowKnown
<1>4. CowBuffers'
  BY <1>1, <1>2, <1>3 DEF CowKnown, KernelInvariant, KernelTypes, CowBuffers
<1>5. ParentTable' /\ ChildTable'
  BY <1>1, <1>2, <1>3 DEF ParentTable, ChildTable, AsForked, Cow!Present, Cow!Writable
<1>6. CowMemory'
  BY <1>2, <1>4, <1>5 DEF CowKnown, CowMemory, Cow!FaultsPerMode, Cow!BufferFaults
<1>7. PrivateStep
  <2>1. /\ flags'["child"] # {} /\ flags["parent"] # {}
        /\ \A q \in Cow!Family : q # "child" => flags'[q] = flags[q]
    BY <1>1, <1>3 DEF CowKnown, KernelInvariant, KernelTypes
  <2> QED BY <1>1, <1>3, <2>1, MemoryForked
<1> QED BY <1>3, <1>6, <1>7

\* The child's loop: a fault, or a load or store.
LEMMA CowMemoryTouches ==
  ASSUME CowKnown, lab = "cow", lab' = lab, Cow!Touch
  PROVE  KernelInvariant' /\ CowMemory' /\ PrivateStep
<1> USE TheFamily
<1>1. PICK page \in Cow!Pages : page = i["child"]
  BY DEF Cow!Touch
<1>2. /\ pc["child"] = "touch" /\ flags["child"] = Cow!MapFlags /\ pc["parent"] \notin {"warmup", "fork"}
      /\ option.mode \in {"read", "write"} /\ option.build \in Cow!Builds
  BY DEF Cow!Touch, CowKnown, CowInvariant, CowMemory, CowBuffers
<1>3. ASSUME flags' = flags, UNCHANGED <<option, pc, before, rows>>, ChildTable',
             i'["parent"] = i["parent"]
      PROVE  CowMemory'
  <2>1. CowBuffers'
    BY <1>3 DEF CowBuffers, CowKnown, CowMemory
  <2>2. ParentTable'
    BY <1>2, <1>3 DEF ParentTable, CowKnown, CowMemory
  <2> QED BY <1>3, <2>1, <2>2 DEF CowKnown, CowMemory, Cow!FaultsPerMode, Cow!BufferFaults
<1>4. ASSUME Cow!LoadFault("child", page), ~StoresOnly, UNCHANGED cowVars
      PROVE  KernelInvariant' /\ CowMemory' /\ PrivateStep
  <2>1. /\ KernelInvariant' /\ SeenAsBefore /\ Elsewhere("child", page)
        /\ Cow!Present("child", page)' /\ ~Cow!Writable("child", page)'
        /\ ~Cow!Present("child", page) /\ ~Cow!Writable("child", page)
        /\ flags' = flags /\ minflt' = [minflt EXCEPT !["child"] = @ + 1]
    BY <1>2, <1>4, LoadFaultHere DEF CowKnown
  <2>2. minflt'["child"] = minflt["child"] + 1 /\ UNCHANGED <<option, pc, i, before, rows>>
    BY <1>4, <2>1 DEF CowKnown, KernelInvariant, KernelTypes, cowVars
  <2>3. ChildTable'
    BY <1>1, <1>2, <1>4, <2>1, <2>2, ChildTouches
  <2>4. CowMemory'
    BY <1>3, <2>1, <2>2, <2>3
  <2> QED BY <2>1, <2>4, MemorySame DEF SeenAsBefore
<1>5. ASSUME Cow!StoreFault("child", page), option.mode = "write",
             StoresOnly \/ Cow!Present("child", page), UNCHANGED cowVars
      PROVE  KernelInvariant' /\ CowMemory' /\ PrivateStep
  <2>1. /\ KernelInvariant' /\ SeenAsBefore /\ Elsewhere("child", page)
        /\ Cow!Present("child", page)' /\ Cow!Writable("child", page)'
        /\ ~Cow!Writable("child", page)
        /\ flags' = flags /\ minflt' = [minflt EXCEPT !["child"] = @ + 1]
    BY <1>2, <1>5, StoreFaultHere DEF CowKnown
  <2>2. minflt'["child"] = minflt["child"] + 1 /\ UNCHANGED <<option, pc, i, before, rows>>
    BY <1>5, <2>1 DEF CowKnown, KernelInvariant, KernelTypes, cowVars
  <2>3. ChildTable'
    BY <1>1, <1>2, <1>5, <2>1, <2>2, ChildTouches
  <2>4. CowMemory'
    BY <1>3, <2>1, <2>2, <2>3
  <2> QED BY <2>1, <2>4, MemorySame DEF SeenAsBefore
<1>6. ASSUME Cow!TouchRead(page), option.mode = "read", i' = [i EXCEPT !["child"] = @ + 1],
             UNCHANGED <<option, pc, before, rows, exit>>
      PROVE  KernelInvariant' /\ CowMemory' /\ PrivateStep
  <2>1. Cow!Present("child", page) /\ UNCHANGED <<flags, pt, byte, minflt>>
    BY <1>6 DEF Cow!TouchRead, Cow!kernel
  <2>2. ChildTable'
    BY <1>1, <1>2, <1>6, <2>1, ChildTouches
  <2>3. CowMemory'
    BY <1>3, <1>6, <2>1, <2>2 DEF CowKnown, CowInvariant
  <2>4. KernelInvariant'
    BY <2>1 DEF CowKnown, KernelInvariant, KernelTypes, Sharing, Sole
  <2>5. \A q \in Cow!Family, r \in Cow!Pages : Cow!Seen(q, r)' = Cow!Seen(q, r)
    BY <2>1 DEF Cow!Seen, Cow!Present
  <2> QED BY <2>1, <2>3, <2>4, <2>5, MemorySame
<1>7. ASSUME Cow!TouchWrite(page), option.mode = "write", i' = [i EXCEPT !["child"] = @ + 1],
             UNCHANGED <<option, pc, before, rows, exit>>
      PROVE  KernelInvariant' /\ CowMemory' /\ PrivateStep
  <2>1. PICK value \in 0 .. 255 : Cow!Store("child", page, value)
    <3>1. PICK b \in 0 .. 255 : b = Cow!Seen("child", page)
      BY SeenType DEF CowKnown
    <3>2. Cow!Flip(b) \in 0 .. 255
      BY DEF Cow!Flip
    <3> QED BY <1>7, <3>1, <3>2 DEF Cow!TouchWrite
  <2>2. /\ KernelInvariant' /\ Cow!Seen("child", page)' = value
        /\ \A q \in Processes, r \in Cow!Pages :
             ~(q = "child" /\ r = page) => Cow!Seen(q, r)' = Cow!Seen(q, r)
    BY <2>1, StoreKeeps DEF CowKnown
  <2>3. UNCHANGED <<flags, pt, minflt>> /\ Cow!Writable("child", page)
    BY <2>1 DEF Cow!Store
  <2>4. ChildTable'
    BY <1>1, <1>2, <1>7, <2>3, ChildTouches
  <2>5. CowMemory'
    BY <1>3, <1>7, <2>3, <2>4 DEF CowKnown, CowInvariant
  <2>6. PrivateStep
    BY <1>2, <2>2, <2>3, MemoryWritten
  <2> QED BY <2>2, <2>5, <2>6
<1>8. CASE /\ UNCHANGED Cow!cow
           /\ IF option.mode = "read" THEN Cow!LoadFault("child", page)
              ELSE Cow!UpdateFault("child", page, option.build)
  <2>1. UNCHANGED cowVars
    BY <1>8 DEF Cow!cow, cowVars
  <2>2. CASE option.mode = "read"
    BY <1>4, <1>8, <2>1, <2>2 DEF StoresOnly
  <2>3. CASE option.mode = "write"
    <3>1. Cow!UpdateFault("child", page, option.build)
      BY <1>8, <2>3
    <3>2. \/ ~StoresOnly /\ Cow!LoadFault("child", page)
          \/ (StoresOnly \/ Cow!Present("child", page)) /\ Cow!StoreFault("child", page)
      BY <2>3, <3>1 DEF Cow!UpdateFault, StoresOnly
    <3> QED BY <1>4, <1>5, <2>1, <2>3, <3>2
  <2> QED BY <1>2, <2>2, <2>3
<1>9. CASE /\ IF option.mode = "read" THEN Cow!TouchRead(page) ELSE Cow!TouchWrite(page)
           /\ i' = [i EXCEPT !["child"] = @ + 1]
           /\ UNCHANGED <<option, pc, before, rows, exit>>
  BY <1>2, <1>6, <1>7, <1>9
<1> QED BY <1>1, <1>8, <1>9 DEF Cow!Touch

\* A step that leaves the memory alone.
LEMMA CowMemoryRests ==
  ASSUME CowKnown, UNCHANGED <<flags, pt, byte, minflt>> PROVE KernelInvariant' /\ PrivateStep
<1>1. KernelInvariant'
  BY DEF CowKnown, KernelInvariant, KernelTypes, Sharing, Sole
<1>2. \A q \in Cow!Family, r \in Cow!Pages : Cow!Seen(q, r)' = Cow!Seen(q, r)
  BY DEF Cow!Seen, Cow!Present
<1> QED BY <1>1, <1>2, MemorySame DEF CowKnown

\* The end of the child's loop: what it has counted is what its mode costs.
LEMMA CowMemoryPrints ==
  ASSUME CowKnown, lab = "cow", lab' = lab, Cow!PrintRow
  PROVE  KernelInvariant' /\ CowMemory' /\ PrivateStep
<1> USE TheFamily, OsAssumption
<1>0. PICK other \in 0 .. OtherFaults : rows' = Append(rows, minflt["child"] - before + other)
  BY DEF Cow!PrintRow, Cow!Grown
<1>1. /\ pc["child"] = "touch" /\ i["child"] = NumPages /\ rows = <<>>
      /\ pc'["child"] = "munmap" /\ pc'["parent"] = pc["parent"]
      /\ UNCHANGED <<option, i, before>> /\ UNCHANGED <<flags, pt, byte, minflt>>
  BY CowGoto DEF Cow!PrintRow, CowKnown, CowInvariant, Cow!Pages, Cow!kernel
<1>2. rows'[1] = minflt["child"] - before + other
  <2>1. \A x : Append(<<>>, x)[1] = x
    OBVIOUS
  <2> QED BY <1>0, <1>1, <2>1
<1>3. ~Cow!Present("child", NumPages) /\ ~Cow!Writable("child", NumPages)
  BY DEF CowKnown, KernelInvariant, KernelTypes, Cow!Pages, Cow!Present, Cow!Writable
<1>4. /\ minflt["child"] = before + ChildLoads + ChildStores
      /\ before \in Nat /\ option.mode \in {"read", "write"} /\ option.build \in Cow!Builds
      /\ option.warmup \in BOOLEAN
  BY <1>1 DEF CowKnown, CowMemory, ChildTable
<1>5. /\ ChildLoads = IF option.warmup \/ StoresOnly THEN 0 ELSE NumPages
      /\ ChildStores = IF option.mode = "read" THEN 0 ELSE NumPages
  BY <1>1, <1>3 DEF ChildLoads, ChildStores, One
<1>6. rows'[1] = ChildLoads + ChildStores + other
  <2>1. PICK b \in Nat, l \in Nat, s \in Nat : b = before /\ l = ChildLoads /\ s = ChildStores
    BY <1>4, <1>5
  <2>2. (b + l + s) - b + other = l + s + other
    OBVIOUS
  <2> QED BY <1>2, <1>4, <2>1, <2>2
<1>7. Cow!FaultsPerMode'
  <2>1. Cow!BufferFaults' = ChildLoads + ChildStores /\ Cow!BufferFaults' \in Nat
    <3>1. CASE option.mode = "read"
      BY <1>1, <1>4, <1>5, <3>1 DEF Cow!BufferFaults, StoresOnly
    <3>2. CASE option.mode = "write"
      <4>1. CASE option.build = "one_instruction"
        BY <1>1, <1>4, <1>5, <3>2, <4>1 DEF Cow!BufferFaults, StoresOnly
      <4>2. CASE option.build = "load_and_store" /\ option.warmup
        BY <1>1, <1>4, <1>5, <3>2, <4>2 DEF Cow!BufferFaults, StoresOnly
      <4>3. CASE option.build = "load_and_store" /\ ~option.warmup
        BY <1>1, <1>4, <1>5, <3>2, <4>3 DEF Cow!BufferFaults, StoresOnly
      <4> QED BY <1>4, <4>1, <4>2, <4>3 DEF Cow!Builds
    <3> QED BY <1>4, <3>1, <3>2
  <2>2. \A n \in Nat : n + other \in n .. n + OtherFaults
    OBVIOUS
  <2> QED BY <1>6, <2>1, <2>2 DEF Cow!FaultsPerMode
<1>8. CowMemory'
  BY <1>1, <1>7 DEF CowKnown, CowMemory, CowBuffers, ParentTable, ChildTable, Cow!Present
<1> QED BY <1>1, <1>8, CowMemoryRests

\* All of cow.c.
LEMMA CowMemoryStep ==
  ASSUME CowKnown, lab = "cow", lab' = lab, Cow!Next
  PROVE  KernelInvariant' /\ CowMemory' /\ PrivateStep
<1> USE TheFamily
<1>1. ASSUME Cow!Terminated PROVE KernelInvariant' /\ CowMemory' /\ PrivateStep
  <2>1. UNCHANGED <<flags, pt, byte, minflt>> /\ UNCHANGED <<option, pc, i, before, rows, exit>>
    BY <1>1 DEF Cow!Terminated, Cow!vars, Cow!kernel, Cow!cow
  <2>2. CowMemory'
    BY <2>1 DEF CowKnown, CowMemory, CowBuffers, ParentTable, ChildTable, AsForked, ChildLoads,
                ChildStores, StoresOnly, One, Cow!Present, Cow!Writable, Cow!FaultsPerMode, Cow!BufferFaults
  <2> QED BY <2>1, <2>2, CowMemoryRests
<1>2. ASSUME Cow!WarmupDone PROVE KernelInvariant' /\ CowMemory' /\ PrivateStep
  <2>1. /\ pc["parent"] = "warmup" /\ i["parent"] \notin Cow!Pages
        /\ pc'["parent"] = "fork" /\ pc'["child"] = pc["child"]
        /\ UNCHANGED <<option, i, before, rows>> /\ UNCHANGED <<flags, pt, byte, minflt>>
    BY <1>2, CowGoto DEF Cow!WarmupDone, Cow!Warmed, Cow!kernel
  <2>2. \A page \in Cow!Pages : Cow!Present("parent", page) <=> option.warmup
    <3>1. /\ option.warmup /\ i["parent"] \in 0 .. NumPages
          /\ \A page \in 0 .. i["parent"] - 1 : Cow!Present("parent", page)
      BY <2>1 DEF CowKnown, CowMemory, ParentTable
    <3>2. i["parent"] = NumPages
      BY <2>1, <3>1, OsAssumption DEF Cow!Pages
    <3> QED BY <3>1, <3>2 DEF Cow!Pages
  <2>3. ParentTable' /\ CowBuffers'
    BY <2>1, <2>2 DEF ParentTable, CowBuffers, CowKnown, CowMemory, Cow!Present
  <2>4. ChildTable'
    <3>1. pc["child"] = "not_forked"
      BY <2>1 DEF CowKnown, CowInvariant
    <3> QED BY <2>1, <3>1 DEF ChildTable
  <2>5. CowMemory'
    BY <2>1, <2>3, <2>4 DEF CowKnown, CowMemory, Cow!FaultsPerMode, Cow!BufferFaults
  <2> QED BY <2>1, <2>5, CowMemoryRests
<1>3. ASSUME Cow!MeasureBefore PROVE KernelInvariant' /\ CowMemory' /\ PrivateStep
  <2>1. /\ pc["child"] = "getrusage" /\ before' = minflt["child"]
        /\ pc'["child"] = "touch" /\ pc'["parent"] = pc["parent"]
        /\ UNCHANGED <<option, i, rows>> /\ UNCHANGED <<flags, pt, byte, minflt>>
        /\ i["child"] = 0
    BY <1>3, CowGoto DEF Cow!MeasureBefore, Cow!kernel, CowKnown, CowInvariant
  <2>2. /\ \A page \in Cow!Pages : AsForked(page)
        /\ 0 \in Cow!Pages /\ minflt["child"] \in Nat
    BY <2>1, OsAssumption
       DEF CowKnown, CowMemory, ChildTable, KernelInvariant, KernelTypes, Cow!Pages
  <2>3. ChildLoads' = 0 /\ ChildStores' = 0
    BY <2>1, <2>2 DEF ChildLoads, ChildStores, StoresOnly, One, AsForked, Cow!Present, Cow!Writable
  <2>4. ChildTable'
    BY <2>1, <2>2, <2>3 DEF ChildTable, AsForked, Cow!Present, Cow!Writable
  <2>5. ParentTable' /\ CowBuffers'
    BY <2>1 DEF ParentTable, CowBuffers, CowKnown, CowMemory, Cow!Present
  <2>6. CowMemory'
    BY <2>1, <2>2, <2>4, <2>5 DEF CowKnown, CowMemory, Cow!FaultsPerMode, Cow!BufferFaults
  <2> QED BY <2>1, <2>6, CowMemoryRests
<1>4. CASE Cow!Parent
  BY <1>2, <1>4, CowMemoryMaps, CowMemoryEnds, CowMemoryWarms, CowMemoryForks
     DEF Cow!Parent, Cow!SetupFails, Cow!Reap
<1>5. CASE Cow!Child
  BY <1>3, <1>5, CowMemoryTouches, CowMemoryPrints, CowMemoryEnds
     DEF Cow!Child, Cow!ChildExit, Cow!ChildFails
<1>6. ASSUME NEW p \in Cow!Family, Cow!Kill(p) PROVE KernelInvariant' /\ CowMemory' /\ PrivateStep
  BY <1>6, CowMemoryEnds DEF Cow!Kill
<1> QED BY <1>1, <1>4, <1>5, <1>6 DEF Cow!Next

\* The start.
LEMMA KernelStarts == Init => KernelInvariant
<1> SUFFICES ASSUME Init PROVE KernelInvariant
  OBVIOUS
<1>1. /\ flags = [p \in Processes |-> {}] /\ byte = [f \in Cow!Frames |-> 0]
      /\ minflt = [p \in Processes |-> 0] /\ pt = [p \in Processes |-> <<>>]
  BY DEF Init, Cow!Init, Cow!KernelInit
<1>2. \A p \in Processes : DOMAIN pt[p] = {} /\ pt[p] \in [{} -> [frame : Cow!Frames, writable : BOOLEAN]]
  BY <1>1, EmptyTable
<1> QED BY <1>1, <1>2, FrameKinds DEF KernelInvariant, KernelTypes, Sharing

\* The start of cow.c, with no memory.
LEMMA CowMemoryStarts == Init => CowMemory /\ Cow!Private!Init
<1> SUFFICES ASSUME Init PROVE CowMemory /\ Cow!Private!Init
  OBVIOUS
<1> USE TheFamily
<1>1. /\ flags = [p \in Processes |-> {}] /\ rows = <<>> /\ before = 0
      /\ pc = [p \in Cow!Family |-> IF p = "parent" THEN "mmap" ELSE "not_forked"]
      /\ i = [p \in Cow!Family |-> 0]
      /\ option \in [mode : {"read", "write"}, warmup : BOOLEAN, build : Cow!Builds]
  BY DEF Init, Cow!Init, Cow!KernelInit
<1>2. CowMemory
  BY <1>1 DEF CowMemory, CowBuffers, ParentTable, ChildTable, Cow!FaultsPerMode, Cow!BufferFaults
<1>3. Memory = <<>>
  <2>1. Buffers = {}
    BY <1>1 DEF Buffers
  <2> QED BY <2>1, EmptyTable DEF Memory
<1> QED BY <1>2, <1>3 DEF Cow!Private!Init, Memory, Buffers

-----------------------------------------------------------------------------
(* The invariant of page-fault-cost-breakdown.                              *)

AllModes == {"anon_read_first", "anon_write_first", "anon_read_second", "file_read_first",
             "file_read_second", "file_write_private_first", "file_read_populate"}

\* What a page has before its mode changes it, and what main then reads.
StartOf(m) == IF "MAP_ANONYMOUS" \in Cost!FlagsOf(m) THEN 0 ELSE Cost!Pattern
ValueOf(m) == IF Cost!FirstPass(m) = "update" \/ Cost!MeasuredPass(m) = "update"
                THEN StartOf(m) + 1 ELSE StartOf(m)
\* All pages are there when the measured section of these modes starts.
Prepared(m) == m \in {"anon_read_second", "file_read_second", "file_read_populate"}

CostPlace ==
  /\ costPc \in {"create", "map", "first", "start", "measured", "unmap", "done", "failed"}
  /\ build \in Cow!Builds /\ costI \in 0 .. NumPages /\ costBefore \in Nat
  /\ mode \in 1 .. 8 /\ (costPc # "done" => mode # 8)
  /\ run \in 0 .. Warmup + Repeats - 1
  /\ costPc = "create" => mode = 1 /\ run = 0
  /\ costPc = "done" => mode = 8 /\ run = 0
  /\ costPc \in {"first", "start", "measured"} => flags["lab"] = Cost!FlagsOf(Cost!Current)
  /\ costPc = "first" => Cost!FirstPass(Cost!Current) # "nothing"
FileWritten ==
  \A page \in Cow!Pages :
    (costPc = "create" => page < costI) /\ costPc # "failed" =>
      byte[Cow!Cached(page)] = Cost!Pattern

\* What the process sees and has mapped.
ShownFirst(m) ==
  \A page \in Cow!Pages :
    /\ Cow!Seen("lab", page) = IF page < costI THEN ValueOf(m) ELSE StartOf(m)
    /\ page < costI => Cow!Present("lab", page)
ShownAtStart(m) ==
  \A page \in Cow!Pages :
    /\ Cow!Seen("lab", page) = IF Prepared(m) THEN ValueOf(m) ELSE StartOf(m)
    /\ Cow!Present("lab", page) <=> Prepared(m)
    /\ ~Prepared(m) => ~Cow!Writable("lab", page)
ShownMeasured(m) ==
  \A page \in Cow!Pages :
    /\ Cow!Seen("lab", page) = IF Prepared(m) \/ page < costI THEN ValueOf(m) ELSE StartOf(m)
    /\ Prepared(m) \/ page < costI => Cow!Present("lab", page)
    /\ ~Prepared(m) /\ page > costI => ~Cow!Writable("lab", page)
    /\ ~Prepared(m) /\ page > costI /\ "MAP_ANONYMOUS" \in Cost!FlagsOf(m) =>
         ~Cow!Present("lab", page)
BufferShows ==
  /\ costPc = "first" => ShownFirst(Cost!Current)
  /\ costPc = "start" => ShownAtStart(Cost!Current)
  /\ costPc = "measured" => ShownMeasured(Cost!Current)

\* What it has counted.
Here == One(Cow!Present("lab", costI))
Mine == One(Cow!Writable("lab", costI))
StoreFaults(m) == IF Cost!MeasuredPass(m) = "update" THEN costI + Mine ELSE 0
NoLoads(m) == Prepared(m) \/ (Cost!MeasuredPass(m) = "update" /\ build = "one_instruction")
LoadFaults(m, loads) ==
  /\ minflt["lab"] = costBefore + loads + StoreFaults(m)
  /\ NoLoads(m) => loads = 0
  /\ ~NoLoads(m) /\ "MAP_ANONYMOUS" \in Cost!FlagsOf(m) => loads = costI + Here
  /\ ~NoLoads(m) /\ DOMAIN pt["lab"] # {} => loads # 0
CountedAs(m) ==
  /\ sum = costI * ValueOf(m)
  /\ \E loads \in 0 .. costI + Here : LoadFaults(m, loads)
Counted == costPc = "measured" => CountedAs(Cost!Current)

RunsDone == IF costPc = "unmap" THEN run + 1 ELSE run
Rows ==
  /\ table \in Seq([mode : AllModes, minflt : Nat, checksum : Nat])
  /\ costPc # "failed" =>
       Len(table) = (mode - 1) * Repeats + (IF RunsDone > Warmup THEN RunsDone - Warmup ELSE 0)
  /\ Cost!FaultsPerMode
  /\ \A r \in DOMAIN table : table[r].checksum = NumPages * ValueOf(table[r].mode)
CostMemory ==
  IF lab = "cost" THEN CostPlace /\ FileWritten /\ BufferShows /\ Counted /\ Rows
  ELSE table = <<>> /\ costPc = "create"

-----------------------------------------------------------------------------
(* page-fault-cost-breakdown: its modes, and the kernel it shares.          *)

\* The mode that runs is one of seven.
LEMMA TheModes ==
  /\ Len(Cost!Modes) = 7
  /\ \A k \in 1 .. 7 : Cost!Modes[k] \in AllModes
BY DEF Cost!Modes, AllModes

\* How the modes map their buffer.
LEMMA ModeFlags ==
  ASSUME NEW m \in AllModes
  PROVE  /\ Cost!FlagsOf(m) \in SUBSET {"MAP_PRIVATE", "MAP_ANONYMOUS", "MAP_POPULATE"}
         /\ Cost!FlagsOf(m) # {}
         /\ ~({"MAP_ANONYMOUS", "MAP_POPULATE"} \subseteq Cost!FlagsOf(m))
         /\ "MAP_POPULATE" \in Cost!FlagsOf(m) <=> m = "file_read_populate"
         /\ "MAP_ANONYMOUS" \in Cost!FlagsOf(m)
              <=> m \in {"anon_read_first", "anon_write_first", "anon_read_second"}
BY DEF AllModes, Cost!FlagsOf

\* What the modes do to a page, and what that makes of its byte.
LEMMA ModePasses ==
  ASSUME NEW m \in AllModes
  PROVE  /\ Cost!FirstPass(m) \in {"nothing", "update", "load"}
         /\ Cost!MeasuredPass(m) \in {"update", "load"}
         /\ StartOf(m) \in {0, 17} /\ ValueOf(m) \in {0, 1, 17, 18}
         /\ Cost!FirstPass(m) # "nothing" => Prepared(m) /\ m # "file_read_populate"
         /\ Cost!FirstPass(m) = "nothing" /\ m # "file_read_populate" => ~Prepared(m)
         /\ m = "file_read_populate" =>
              Prepared(m) /\ Cost!FirstPass(m) = "nothing" /\ ValueOf(m) = 17
         /\ Cost!FirstPass(m) = "update" => ValueOf(m) = StartOf(m) + 1
         /\ Cost!FirstPass(m) = "load" => ValueOf(m) = StartOf(m)
         /\ Prepared(m) => Cost!MeasuredPass(m) = "load"
         /\ ~Prepared(m) /\ Cost!MeasuredPass(m) = "load" => ValueOf(m) = StartOf(m)
         /\ Cost!MeasuredPass(m) = "update" => ValueOf(m) = StartOf(m) + 1
BY DEF AllModes, Cost!FirstPass, Cost!MeasuredPass, StartOf, ValueOf, Prepared, Cost!FlagsOf,
       Cost!Pattern

\* Both labs run on the same kernel.
LEMMA OneKernel ==
  /\ Cost!Pages = Cow!Pages /\ Cost!P = "lab" /\ Cost!Builds = Cow!Builds
  /\ \A page : Cost!Cached(page) = Cow!Cached(page)
  /\ \A p, page : (Cost!Present(p, page) <=> Cow!Present(p, page))
                  /\ Cost!Seen(p, page) = Cow!Seen(p, page)
BY DEF Cost!Pages, Cow!Pages, Cost!P, Cost!Builds, Cow!Builds, Cost!Cached, Cow!Cached,
       Cost!Present, Cow!Present, Cost!Seen, Cow!Seen

\* So do their system calls, faults and stores.
LEMMA OneKernelActs ==
  ASSUME NEW p, NEW page, NEW value, NEW how, NEW b
  PROVE  /\ Cost!LoadFault(p, page) <=> Cow!LoadFault(p, page)
         /\ Cost!StoreFault(p, page) <=> Cow!StoreFault(p, page)
         /\ Cost!UpdateFault(p, page, b) <=> Cow!UpdateFault(p, page, b)
         /\ Cost!Store(p, page, value) <=> Cow!Store(p, page, value)
         /\ Cost!Map(p, how) <=> Cow!Map(p, how)
         /\ Cost!Unmap(p) <=> Cow!Unmap(p)
<1>1. Cost!AnonFrames = Cow!AnonFrames /\ Cost!Zero = Cow!Zero
  BY DEF Cost!AnonFrames, Cow!AnonFrames, Cost!Cardinality, Cow!Cardinality, Cost!Zero, Cow!Zero
<1>2. Cost!LoadFault(p, page) <=> Cow!LoadFault(p, page)
  BY <1>1, OneKernel DEF Cost!LoadFault, Cow!LoadFault, Cost!Updated, Cow!Updated,
                         Cost!Entry, Cow!Entry, Cost!Zero, Cow!Zero, Cost!Cached, Cow!Cached
<1>3. Cost!StoreFault(p, page) <=> Cow!StoreFault(p, page)
  BY <1>1, OneKernel DEF Cost!StoreFault, Cow!StoreFault, Cost!Updated, Cow!Updated,
                         Cost!Entry, Cow!Entry, Cost!Writable, Cow!Writable,
                         Cost!Mappers, Cow!Mappers, Cost!Present, Cow!Present,
                         Cost!Pages, Cow!Pages, Cost!Seen, Cow!Seen
<1>4. Cost!UpdateFault(p, page, b) <=> Cow!UpdateFault(p, page, b)
  BY <1>2, <1>3, OneKernel DEF Cost!UpdateFault, Cow!UpdateFault
<1>5. Cost!Store(p, page, value) <=> Cow!Store(p, page, value)
  BY DEF Cost!Store, Cow!Store, Cost!Writable, Cow!Writable, Cost!Present, Cow!Present
<1>6. Cost!Map(p, how) <=> Cow!Map(p, how)
  BY DEF Cost!Map, Cow!Map, Cost!Pages, Cow!Pages, Cost!Entry, Cow!Entry, Cost!Cached, Cow!Cached
<1>7. Cost!Unmap(p) <=> Cow!Unmap(p)
  BY DEF Cost!Unmap, Cow!Unmap
<1> QED BY <1>2, <1>3, <1>4, <1>5, <1>6, <1>7

-----------------------------------------------------------------------------
(* page-fault-cost-breakdown: one touch.                                    *)

FileKept == \A page \in Cow!Pages : byte'[Cow!Cached(page)] = byte[Cow!Cached(page)]

\* A fault at a page: what it maps, and what it leaves alone.
Faulted(page) ==
  /\ costI' = costI /\ sum' = sum /\ SeenAsBefore
  /\ minflt'["lab"] = minflt["lab"] + 1
  /\ \A r \in Cow!Pages :
       /\ Cow!Present("lab", r) => Cow!Present("lab", r)'
       /\ r # page => (Cow!Writable("lab", r)' <=> Cow!Writable("lab", r))
       /\ r # page /\ "MAP_ANONYMOUS" \in flags["lab"] =>
            (Cow!Present("lab", r)' <=> Cow!Present("lab", r))
  /\ Cow!Present("lab", page)'
LoadFaulted(page) ==
  Faulted(page) /\ ~Cow!Present("lab", page) /\ ~Cow!Writable("lab", page)'
StoreFaulted(page) ==
  Faulted(page) /\ ~Cow!Writable("lab", page) /\ Cow!Writable("lab", page)'
\* The access that succeeds.
Accessed(page, value) ==
  /\ costI' = page + 1 /\ sum' = sum + value /\ pt' = pt /\ minflt' = minflt
  /\ Cow!Present("lab", page)
  /\ \A r \in Cow!Pages : Cow!Seen("lab", r)' = IF r = page THEN value ELSE Cow!Seen("lab", r)

\* A load fault of the process.
LEMMA LabLoadFaults ==
  ASSUME KernelInvariant, flags["lab"] # {}, NEW page \in Cow!Pages,
         Cow!LoadFault("lab", page), costI' = costI, sum' = sum
  PROVE  KernelInvariant' /\ flags' = flags /\ FileKept /\ LoadFaulted(page)
<1>1. "lab" \in Processes
  BY DEF Processes
<1>2. KernelInvariant' /\ SeenAsBefore
  BY <1>1, LoadFaultKeeps
<1>3. PICK around \in SUBSET (Cow!Pages \ DOMAIN pt["lab"]) :
        /\ page \in around
        /\ "MAP_ANONYMOUS" \in flags["lab"] => around = {page}
        /\ OnlyAt("lab", around)
        /\ \A r \in around : pt'["lab"][r] =
             [frame |-> IF "MAP_ANONYMOUS" \in flags["lab"] THEN Cow!Zero ELSE Cow!Cached(r),
              writable |-> FALSE]
  BY <1>1, LoadFaultAdds DEF KernelInvariant
<1>4. \A r \in around : pt'["lab"][r].writable = FALSE
  <2>1. ASSUME NEW r \in around PROVE pt'["lab"][r].writable = FALSE
    <3>1. PICK f : pt'["lab"][r] = [frame |-> f, writable |-> FALSE]
      BY <1>3
    <3> QED BY <3>1
  <2> QED BY <2>1
<1>5. /\ flags' = flags /\ byte' = byte /\ minflt'["lab"] = minflt["lab"] + 1
      /\ ~Cow!Present("lab", page)
  BY <1>1 DEF Cow!LoadFault, KernelInvariant, KernelTypes
<1>6. ASSUME NEW r \in Cow!Pages
      PROVE  /\ Cow!Present("lab", r) => Cow!Present("lab", r)'
             /\ r # page => (Cow!Writable("lab", r)' <=> Cow!Writable("lab", r))
             /\ r # page /\ "MAP_ANONYMOUS" \in flags["lab"] =>
                  (Cow!Present("lab", r)' <=> Cow!Present("lab", r))
  BY <1>3, <1>4 DEF OnlyAt, Cow!Present, Cow!Writable
<1>7. Cow!Present("lab", page)' /\ ~Cow!Writable("lab", page)'
  BY <1>3, <1>4 DEF OnlyAt, Cow!Present, Cow!Writable
<1> QED BY <1>2, <1>5, <1>6, <1>7 DEF FileKept, LoadFaulted, Faulted

\* A store fault of the process, which may use a frame of its own only.
LEMMA LabStoreFaults ==
  ASSUME KernelInvariant, flags["lab"] # {}, NEW page \in Cow!Pages,
         Cow!StoreFault("lab", page), costI' = costI, sum' = sum
  PROVE  KernelInvariant' /\ flags' = flags /\ FileKept /\ StoreFaulted(page)
<1>1. "lab" \in Processes
  BY DEF Processes
<1>2. /\ KernelInvariant' /\ SeenAsBefore /\ Elsewhere("lab", page)
      /\ Cow!Present("lab", page)' /\ Cow!Writable("lab", page)' /\ ~Cow!Writable("lab", page)
      /\ flags' = flags /\ minflt' = [minflt EXCEPT !["lab"] = @ + 1]
  BY <1>1, StoreFaultHere
<1>3. minflt'["lab"] = minflt["lab"] + 1
  BY <1>1, <1>2 DEF KernelInvariant, KernelTypes
<1>4. FileKept
  <2>1. CASE byte' = byte
    BY <2>1 DEF FileKept
  <2>2. ASSUME NEW new \in Cow!AnonFrames, byte' = [byte EXCEPT ![new] = Cow!Seen("lab", page)]
        PROVE  FileKept
    BY <2>2, FrameKinds DEF FileKept, KernelInvariant, KernelTypes
  <2> QED BY <1>1, <2>1, <2>2, StoreFaultMaps DEF KernelInvariant
<1>5. ASSUME NEW r \in Cow!Pages
      PROVE  /\ Cow!Present("lab", r) => Cow!Present("lab", r)'
             /\ r # page => (Cow!Writable("lab", r)' <=> Cow!Writable("lab", r))
             /\ r # page => (Cow!Present("lab", r)' <=> Cow!Present("lab", r))
  BY <1>1, <1>2 DEF Elsewhere
<1> QED BY <1>2, <1>3, <1>4, <1>5 DEF StoreFaulted, Faulted

\* A store of the process, which cannot reach the file.
LEMMA LabStores ==
  ASSUME KernelInvariant, NEW page \in Cow!Pages, NEW value \in 0 .. 255,
         Cow!Store("lab", page, value), costI' = page + 1, sum' = sum + value
  PROVE  /\ KernelInvariant' /\ flags' = flags /\ FileKept
         /\ Accessed(page, value) /\ Cow!Writable("lab", page)
<1>1. "lab" \in Processes
  BY DEF Processes
<1>2. /\ KernelInvariant' /\ Cow!Seen("lab", page)' = value
      /\ \A q \in Processes, r \in Cow!Pages :
           ~(q = "lab" /\ r = page) => Cow!Seen(q, r)' = Cow!Seen(q, r)
  BY <1>1, StoreKeeps
<1>3. /\ UNCHANGED <<flags, pt, minflt>> /\ Cow!Writable("lab", page) /\ Cow!Present("lab", page)
      /\ byte' = [byte EXCEPT ![pt["lab"][page].frame] = value]
  BY DEF Cow!Store, Cow!Writable
<1>4. pt["lab"][page].frame \in Cow!AnonFrames
  BY <1>1, <1>3 DEF Cow!Writable, Cow!Present, KernelInvariant, Sharing
<1>5. FileKept
  BY <1>3, <1>4, FrameKinds DEF FileKept, KernelInvariant, KernelTypes
<1>6. ASSUME NEW r \in Cow!Pages
      PROVE  Cow!Seen("lab", r)' = IF r = page THEN value ELSE Cow!Seen("lab", r)
  BY <1>1, <1>2
<1> QED BY <1>2, <1>3, <1>5, <1>6 DEF Accessed

\* One touch: a fault or the access, as the compiler built it.
LEMMA LabTouches ==
  ASSUME KernelInvariant, flags["lab"] # {}, NEW access \in {"load", "update"},
         build \in Cow!Builds, costI \in Nat, Cost!Touch(access)
  PROVE  /\ KernelInvariant' /\ flags' = flags /\ FileKept
         /\ UNCHANGED <<build, costPc, mode, run, costBefore, table>>
         /\ \E page \in Cow!Pages :
              /\ page = costI
              /\ \/ LoadFaulted(page) /\ (access = "load" \/ build = "load_and_store")
                 \/ /\ StoreFaulted(page) /\ access = "update"
                    /\ build = "one_instruction" \/ Cow!Present("lab", page)
                 \/ access = "load" /\ Accessed(page, Cow!Seen("lab", page))
                 \/ /\ access = "update" /\ Cow!Writable("lab", page)
                    /\ Accessed(page, (Cow!Seen("lab", page) + 1) % 256)
<1>1. PICK page \in Cow!Pages : page = costI
  BY OsAssumption DEF Cost!Touch, Cow!Pages
<1>2. UNCHANGED <<build, costPc, mode, run, costBefore, table>>
  BY DEF Cost!Touch, Cost!cost
<1>3. ASSUME Cow!LoadFault("lab", page), costI' = costI, sum' = sum,
             access = "load" \/ build = "load_and_store"
      PROVE  KernelInvariant' /\ flags' = flags /\ FileKept /\ LoadFaulted(page)
  BY <1>3, LabLoadFaults
<1>4. ASSUME Cow!StoreFault("lab", page), costI' = costI, sum' = sum
      PROVE  KernelInvariant' /\ flags' = flags /\ FileKept /\ StoreFaulted(page)
  BY <1>4, LabStoreFaults
<1>5. ASSUME access = "load", Cow!Present("lab", page), UNCHANGED <<flags, pt, byte, minflt>>,
             costI' = page + 1, sum' = sum + Cow!Seen("lab", page)
      PROVE  /\ KernelInvariant' /\ flags' = flags /\ FileKept
             /\ Accessed(page, Cow!Seen("lab", page))
  <2>1. KernelInvariant'
    BY <1>5 DEF KernelInvariant, KernelTypes, Sharing, Sole
  <2>2. \A r \in Cow!Pages : Cow!Seen("lab", r)' = Cow!Seen("lab", r)
    BY <1>5 DEF Cow!Seen, Cow!Present
  <2> QED BY <1>5, <2>1, <2>2 DEF FileKept, Accessed
<1>6. ASSUME access = "update", costI' = page + 1,
             Cow!Store("lab", page, (Cow!Seen("lab", page) + 1) % 256),
             sum' = sum + ((Cow!Seen("lab", page) + 1) % 256)
      PROVE  /\ KernelInvariant' /\ flags' = flags /\ FileKept /\ Cow!Writable("lab", page)
             /\ Accessed(page, (Cow!Seen("lab", page) + 1) % 256)
  <2>1. PICK value \in 0 .. 255 : value = (Cow!Seen("lab", page) + 1) % 256
    <3>1. PICK b \in 0 .. 255 : b = Cow!Seen("lab", page)
      BY SeenType DEF Processes
    <3>2. (b + 1) % 256 \in 0 .. 255
      OBVIOUS
    <3> QED BY <3>1, <3>2
  <2>2. Cow!Store("lab", page, value) /\ sum' = sum + value
    BY ONLY <1>6, <2>1, Zenon
  <2>3. /\ KernelInvariant' /\ flags' = flags /\ FileKept
        /\ Accessed(page, value) /\ Cow!Writable("lab", page)
    BY <1>6, <2>2, LabStores
  <2> QED BY <2>1, <2>3
<1>7. CASE /\ IF access = "load" THEN Cost!LoadFault(Cost!P, costI)
              ELSE Cost!UpdateFault(Cost!P, costI, build)
           /\ UNCHANGED Cost!cost
  <2>1. costI' = costI /\ sum' = sum
    BY <1>7 DEF Cost!cost
  <2>2. \/ access = "load" /\ Cow!LoadFault("lab", page)
        \/ access = "update" /\ Cow!UpdateFault("lab", page, build)
    BY <1>1, <1>7, OneKernel, OneKernelActs
  <2>3. \/ /\ access = "load" \/ build = "load_and_store"
           /\ Cow!LoadFault("lab", page)
        \/ /\ access = "update" /\ Cow!StoreFault("lab", page)
           /\ build = "one_instruction" \/ Cow!Present("lab", page)
    BY <2>2 DEF Cow!UpdateFault
  <2> QED BY <1>1, <1>2, <1>3, <1>4, <2>1, <2>3
<1>8. CASE access = "load" /\ Cost!Present(Cost!P, costI) /\ UNCHANGED Cost!kernel
           /\ sum' = sum + Cost!Seen(Cost!P, costI) /\ costI' = costI + 1
  BY <1>1, <1>2, <1>5, <1>8, OneKernel DEF Cost!kernel
<1>9. CASE access = "update" /\ Cost!Store(Cost!P, costI, (Cost!Seen(Cost!P, costI) + 1) % 256)
           /\ sum' = sum + ((Cost!Seen(Cost!P, costI) + 1) % 256) /\ costI' = costI + 1
  <2>1. PICK value : value = (Cost!Seen(Cost!P, costI) + 1) % 256
    OBVIOUS
  <2>2. Cow!Store("lab", page, value) /\ value = (Cow!Seen("lab", page) + 1) % 256
    BY <1>1, <1>9, <2>1, OneKernel, OneKernelActs
  <2>3. /\ costI' = page + 1 /\ Cow!Store("lab", page, (Cow!Seen("lab", page) + 1) % 256)
        /\ sum' = sum + ((Cow!Seen("lab", page) + 1) % 256)
    <3>1. sum' = sum + value /\ costI' = page + 1
      BY ONLY <1>1, <1>9, <2>1, Zenon
    <3> QED BY ONLY <2>2, <3>1, Zenon
  <2> QED BY <1>1, <1>2, <1>6, <1>9, <2>3
<1>10. CASE access = "load"
  BY <1>7, <1>8, <1>10 DEF Cost!Touch
<1>11. CASE access = "update"
  BY <1>7, <1>9, <1>11 DEF Cost!Touch
<1> QED BY <1>10, <1>11

-----------------------------------------------------------------------------
(* page-fault-cost-breakdown: the measured section.                         *)

\* Where the section is.
Measuring(m, page) ==
  /\ KernelInvariant /\ ShownMeasured(m) /\ CountedAs(m)
  /\ page = costI /\ flags["lab"] = Cost!FlagsOf(m) /\ flags' = flags
  /\ build \in Cow!Builds /\ build' = build /\ costBefore \in Nat /\ costBefore' = costBefore

\* A load fault is counted: it is one of a page that was not there.
LEMMA MeasuredLoadFaults ==
  ASSUME NEW m \in AllModes, NEW page \in Cow!Pages, Measuring(m, page), LoadFaulted(page),
         Cost!MeasuredPass(m) = "load" \/ build = "load_and_store"
  PROVE  ShownMeasured(m)' /\ CountedAs(m)'
<1> USE DEF Measuring, LoadFaulted, Faulted
<1>1. /\ page \in Nat /\ "lab" \in Processes /\ minflt["lab"] \in Nat /\ page \in Cow!Pages
  BY OsAssumption DEF Cow!Pages, Processes, KernelInvariant, KernelTypes
<1>2. ~Cow!Writable("lab", page) /\ ~Prepared(m) /\ ~NoLoads(m)
  BY ModePasses DEF ShownMeasured, NoLoads, Cow!Writable, Cow!Builds
<1>3. ShownMeasured(m)'
  <2> SUFFICES ASSUME NEW r \in Cow!Pages
               PROVE  /\ Cow!Seen("lab", r)' = IF Prepared(m) \/ r < costI' THEN ValueOf(m)
                                               ELSE StartOf(m)
                      /\ Prepared(m) \/ r < costI' => Cow!Present("lab", r)'
                      /\ ~Prepared(m) /\ r > costI' => ~Cow!Writable("lab", r)'
                      /\ ~Prepared(m) /\ r > costI' /\ "MAP_ANONYMOUS" \in Cost!FlagsOf(m) =>
                           ~Cow!Present("lab", r)'
    BY DEF ShownMeasured
  <2>1. Cow!Seen("lab", r)' = Cow!Seen("lab", r) /\ (r > costI => r # page)
    BY <1>1 DEF SeenAsBefore
  <2> QED BY <2>1 DEF ShownMeasured
<1>4. Here = 0 /\ Here' = 1 /\ Mine = 0 /\ Mine' = 0
  BY <1>2 DEF Here, Mine, One
<1>5. PICK loads \in 0 .. page : LoadFaults(m, loads)
  BY <1>1, <1>4 DEF CountedAs
<1>6. loads + 1 \in 0 .. costI' + Here'
  BY <1>1, <1>4
<1>7. StoreFaults(m)' = StoreFaults(m) /\ StoreFaults(m) \in Nat
  BY <1>1, <1>4 DEF StoreFaults
<1>8. minflt'["lab"] = costBefore' + (loads + 1) + StoreFaults(m)'
  <2>1. PICK s \in Nat, b \in Nat : s = StoreFaults(m) /\ b = costBefore
    BY <1>7
  <2>2. minflt["lab"] = b + loads + s
    BY <1>5, <2>1 DEF LoadFaults
  <2> QED BY <1>7, <2>1, <2>2
<1>9. NoLoads(m)' = NoLoads(m)
  BY DEF NoLoads
<1>10. LoadFaults(m, loads + 1)'
  BY <1>1, <1>2, <1>4, <1>5, <1>8, <1>9 DEF LoadFaults
<1>11. CountedAs(m)'
  BY <1>6, <1>10 DEF CountedAs
<1> QED BY <1>3, <1>11

\* So is a store fault.
LEMMA MeasuredStoreFaults ==
  ASSUME NEW m \in AllModes, NEW page \in Cow!Pages, Measuring(m, page), StoreFaulted(page),
         Cost!MeasuredPass(m) = "update",
         build = "one_instruction" \/ Cow!Present("lab", page)
  PROVE  ShownMeasured(m)' /\ CountedAs(m)'
<1> USE DEF Measuring, StoreFaulted, Faulted
<1>1. /\ page \in Nat /\ "lab" \in Processes /\ minflt["lab"] \in Nat
  BY OsAssumption DEF Cow!Pages, Processes, KernelInvariant, KernelTypes
<1>2. ~Prepared(m)
  BY ModePasses
<1>3. ShownMeasured(m)'
  <2> SUFFICES ASSUME NEW r \in Cow!Pages
               PROVE  /\ Cow!Seen("lab", r)' = IF Prepared(m) \/ r < costI' THEN ValueOf(m)
                                               ELSE StartOf(m)
                      /\ Prepared(m) \/ r < costI' => Cow!Present("lab", r)'
                      /\ ~Prepared(m) /\ r > costI' => ~Cow!Writable("lab", r)'
                      /\ ~Prepared(m) /\ r > costI' /\ "MAP_ANONYMOUS" \in Cost!FlagsOf(m) =>
                           ~Cow!Present("lab", r)'
    BY DEF ShownMeasured
  <2>1. Cow!Seen("lab", r)' = Cow!Seen("lab", r) /\ (r > costI => r # page)
    BY <1>1 DEF SeenAsBefore
  <2> QED BY <2>1 DEF ShownMeasured
<1>4. Here \in {0, 1} /\ Here' = 1 /\ Mine = 0 /\ Mine' = 1
  BY DEF Here, Mine, One
<1>5. PICK loads \in 0 .. page + Here : LoadFaults(m, loads)
  BY DEF CountedAs
<1>6. loads \in 0 .. costI' + Here'
  BY <1>1, <1>4
<1>7. StoreFaults(m)' = page + 1 /\ StoreFaults(m) = page
  BY <1>1, <1>4 DEF StoreFaults
<1>8. minflt'["lab"] = costBefore' + loads + StoreFaults(m)'
  <2>1. PICK b \in Nat : b = costBefore
    OBVIOUS
  <2>2. minflt["lab"] = b + loads + page /\ loads \in Nat
    BY <1>1, <1>4, <1>5, <1>7, <2>1 DEF LoadFaults
  <2> QED BY <1>1, <1>7, <2>1, <2>2
<1>9. NoLoads(m)' = NoLoads(m)
  BY DEF NoLoads
<1>10. ~NoLoads(m) => Cow!Present("lab", page)
  BY DEF NoLoads
<1>11. ~NoLoads(m) => Here = 1 /\ DOMAIN pt["lab"] # {}
  BY <1>10 DEF Here, One, Cow!Present
<1>12. LoadFaults(m, loads)'
  BY <1>1, <1>4, <1>5, <1>8, <1>9, <1>11 DEF LoadFaults
<1>13. CountedAs(m)'
  BY <1>6, <1>12 DEF CountedAs
<1> QED BY <1>3, <1>13

\* The access that succeeds adds the byte of its mode.
LEMMA MeasuredAccesses ==
  ASSUME NEW m \in AllModes, NEW page \in Cow!Pages, Measuring(m, page),
         NEW value, Accessed(page, value),
         \/ Cost!MeasuredPass(m) = "load" /\ value = Cow!Seen("lab", page)
         \/ /\ Cost!MeasuredPass(m) = "update" /\ Cow!Writable("lab", page)
            /\ value = (Cow!Seen("lab", page) + 1) % 256
  PROVE  ShownMeasured(m)' /\ CountedAs(m)'
<1> USE DEF Measuring, Accessed
<1>1. /\ page \in Nat /\ page < NumPages /\ NumPages \in Nat
      /\ "lab" \in Processes /\ minflt["lab"] \in Nat
  BY OsAssumption DEF Cow!Pages, Processes, KernelInvariant, KernelTypes
<1>2. value = ValueOf(m)
  BY <1>1, ModePasses DEF ShownMeasured
<1>3. ShownMeasured(m)'
  <2> SUFFICES ASSUME NEW r \in Cow!Pages
               PROVE  /\ Cow!Seen("lab", r)' = IF Prepared(m) \/ r < costI' THEN ValueOf(m)
                                               ELSE StartOf(m)
                      /\ Prepared(m) \/ r < costI' => Cow!Present("lab", r)'
                      /\ ~Prepared(m) /\ r > costI' => ~Cow!Writable("lab", r)'
                      /\ ~Prepared(m) /\ r > costI' /\ "MAP_ANONYMOUS" \in Cost!FlagsOf(m) =>
                           ~Cow!Present("lab", r)'
    BY DEF ShownMeasured
  <2>1. /\ r < page + 1 <=> r < page \/ r = page
        /\ r > page + 1 => r > page
    BY <1>1 DEF Cow!Pages
  <2>2. /\ Cow!Present("lab", r)' <=> Cow!Present("lab", r)
        /\ Cow!Writable("lab", r)' <=> Cow!Writable("lab", r)
    BY DEF Cow!Present, Cow!Writable
  <2> QED BY <1>2, <2>1, <2>2 DEF ShownMeasured
<1>4. /\ ~Prepared(m) => ~Cow!Writable("lab", page + 1)
      /\ ~Prepared(m) /\ "MAP_ANONYMOUS" \in Cost!FlagsOf(m) => ~Cow!Present("lab", page + 1)
  <2>1. PICK n \in Nat : n = page + 1
    BY <1>1
  <2>2. CASE n \in Cow!Pages
    BY <1>1, <2>1, <2>2 DEF ShownMeasured
  <2>3. CASE n \notin Cow!Pages
    BY <1>1, <2>1, <2>3 DEF KernelInvariant, KernelTypes, Cow!Present, Cow!Writable
  <2> QED BY <2>2, <2>3
<1>5. /\ Here = 1 /\ Here' \in {0, 1}
      /\ ~Prepared(m) => Mine' = 0
      /\ ~Prepared(m) /\ "MAP_ANONYMOUS" \in Cost!FlagsOf(m) => Here' = 0
  <2>1. /\ Here' = One(Cow!Present("lab", page + 1))
        /\ Mine' = One(Cow!Writable("lab", page + 1))
    BY DEF Here, Mine, Cow!Present, Cow!Writable, One
  <2> QED BY <1>4, <2>1 DEF Here, One
<1>6. PICK loads \in 0 .. page + 1 : LoadFaults(m, loads)
  BY <1>5 DEF CountedAs
<1>7. loads \in 0 .. costI' + Here'
  <2>1. PICK h \in {0, 1} : h = Here'
    BY <1>5
  <2>2. loads \in 0 .. (page + 1) + h
    BY <1>1
  <2> QED BY <2>1, <2>2
<1>8. StoreFaults(m)' = StoreFaults(m)
  <2>1. CASE Cost!MeasuredPass(m) = "load"
    BY <2>1 DEF StoreFaults
  <2>2. CASE Cost!MeasuredPass(m) = "update"
    <3>1. ~Prepared(m) /\ Mine = 1
      BY <2>2, ModePasses DEF Mine, One
    <3> QED BY <1>1, <1>5, <2>2, <3>1 DEF StoreFaults
  <2> QED BY <2>1, <2>2, ModePasses
<1>9. NoLoads(m)' = NoLoads(m)
  BY DEF NoLoads
<1>10. LoadFaults(m, loads)'
  <2>1. minflt'["lab"] = costBefore' + loads + StoreFaults(m)'
    BY <1>6, <1>8 DEF LoadFaults
  <2>2. NoLoads(m)' => loads = 0
    BY <1>6, <1>9 DEF LoadFaults
  <2>3. ~NoLoads(m)' /\ "MAP_ANONYMOUS" \in Cost!FlagsOf(m) => loads = costI' + Here'
    <3>1. ~NoLoads(m) => ~Prepared(m)
      BY DEF NoLoads
    <3>2. ~NoLoads(m) /\ "MAP_ANONYMOUS" \in Cost!FlagsOf(m) => Here' = 0 /\ loads = page + 1
      BY <1>5, <1>6, <3>1 DEF LoadFaults
    <3>3. page + 1 = page + 1 + 0
      BY <1>1
    <3> QED BY <1>9, <3>2, <3>3
  <2>4. ~NoLoads(m)' /\ DOMAIN pt'["lab"] # {} => loads # 0
    BY <1>6, <1>9 DEF LoadFaults
  <2> QED BY <2>1, <2>2, <2>3, <2>4 DEF LoadFaults
<1>11. sum' = costI' * ValueOf(m)
  <2>1. PICK v \in Nat : v = ValueOf(m)
    BY ModePasses
  <2>2. page * v + v = (page + 1) * v
    BY <1>1
  <2> QED BY <1>2, <2>1, <2>2 DEF CountedAs
<1>12. CountedAs(m)'
  BY <1>7, <1>10, <1>11 DEF CountedAs
<1> QED BY <1>3, <1>12

-----------------------------------------------------------------------------
(* page-fault-cost-breakdown: its steps.                                    *)

CostKnown == lab = "cost" /\ KernelInvariant /\ CostPlace /\ FileWritten /\ BufferShows /\ Counted /\ Rows
CostGoesOn == /\ KernelInvariant' /\ CostPlace' /\ FileWritten' /\ BufferShows' /\ Counted' /\ Rows'
              /\ \A q \in Cow!Family : flags'[q] = flags[q]

\* No row is added, and no run ends.
LEMMA RowsStay ==
  ASSUME Rows, UNCHANGED <<table, mode, run, build>>, costPc \notin {"unmap", "failed"},
         costPc' # "unmap"
  PROVE  Rows'
BY DEF Rows, RunsDone, Cost!FaultsPerMode, Cost!FewestFaults, Cost!MostFaults, Cost!Updates

\* The mode that runs.
LEMMA CurrentMode ==
  ASSUME CostPlace, costPc # "done"
  PROVE  Cost!Current \in AllModes
<1>1. mode \in 1 .. 7
  BY DEF CostPlace
<1> QED BY <1>1, TheModes DEF Cost!Current

\* The parameters.
LEMMA Sizes ==
  NumPages \in Nat \ {0} /\ Repeats \in Nat \ {0} /\ {OtherFaults, Warmup} \subseteq Nat
BY OsAssumption

\* The file is written page by page.
LEMMA CostWrites == ASSUME CostKnown, Cost!WriteFile PROVE CostGoesOn
<1> USE Sizes DEF CostKnown
<1>1. PICK page \in Cow!Pages : page = costI
  BY DEF Cost!WriteFile, CostPlace, Cow!Pages
<1>2. page \in Nat /\ page < NumPages
  BY DEF Cow!Pages
<1>3. /\ costPc = "create" /\ costI' = page + 1 /\ byte' = [byte EXCEPT ![Cow!Cached(page)] = 17]
      /\ UNCHANGED <<flags, pt, minflt, build, costPc, mode, run, costBefore, sum, table>>
  BY <1>1, OneKernel DEF Cost!WriteFile, Cost!Pattern
<1>4. KernelInvariant'
  <2>1. byte' \in [Cow!Frames -> 0 .. 255] /\ byte'[Cow!Zero] = 0
    BY <1>3, FrameKinds DEF KernelInvariant, KernelTypes, Sharing
  <2> QED BY <1>3, <2>1 DEF KernelInvariant, KernelTypes, Sharing, Sole
<1>5. CostPlace'
  BY <1>2, <1>3 DEF CostPlace
<1>6. FileWritten'
  <2>1. ASSUME NEW r \in Cow!Pages, r < page + 1 PROVE byte'[Cow!Cached(r)] = 17
    <3>1. r \in Nat /\ (r = page \/ r < page)
      BY <1>2, <2>1 DEF Cow!Pages
    <3>2. r = page <=> Cow!Cached(r) = Cow!Cached(page)
      BY DEF Cow!Cached
    <3>3. r < page => byte[Cow!Cached(r)] = 17
      BY <1>1, <1>3 DEF FileWritten, Cost!Pattern
    <3> QED BY <1>3, <3>1, <3>2, <3>3, FrameKinds DEF KernelInvariant, KernelTypes
  <2> QED BY <1>3, <2>1 DEF FileWritten, Cost!Pattern
<1>7. Rows'
  BY <1>3, RowsStay
<1> QED BY <1>3, <1>4, <1>5, <1>6, <1>7 DEF CostGoesOn, BufferShows, Counted

\* Steps that touch no memory: the file is complete, or a call fails.
LEMMA CostFileDone == ASSUME CostKnown, Cost!FileWritten \/ Cost!Fail PROVE CostGoesOn
<1> USE Sizes DEF CostKnown
<1>1. /\ UNCHANGED <<flags, pt, byte, minflt>>
      /\ UNCHANGED <<build, mode, run, costI, costBefore, sum, table>>
      /\ costPc \in {"create", "map", "unmap"} /\ costPc' \in {"map", "failed"}
      /\ costPc' = "map" => costPc = "create" /\ costI = NumPages
  BY DEF Cost!FileWritten, Cost!Fail, Cost!kernel
<1>2. KernelInvariant'
  BY <1>1 DEF KernelInvariant, KernelTypes, Sharing, Sole
<1>3. CostPlace'
  BY <1>1 DEF CostPlace
<1>4. FileWritten'
  BY <1>1 DEF FileWritten, Cow!Pages
<1>5. Rows'
  BY <1>1 DEF Rows, RunsDone, Cost!FaultsPerMode, Cost!FewestFaults, Cost!MostFaults, Cost!Updates
<1> QED BY <1>1, <1>2, <1>3, <1>4, <1>5 DEF CostGoesOn, BufferShows, Counted

\* A mode gets a fresh buffer.
LEMMA CostMaps == ASSUME CostKnown, Cost!MapBuffer PROVE CostGoesOn
<1> USE Sizes DEF CostKnown
<1>1. PICK m \in AllModes : m = Cost!Current
  BY CurrentMode DEF Cost!MapBuffer
<1>2. /\ costPc = "map" /\ costI' = 0
      /\ costPc' = IF Cost!FirstPass(m) = "nothing" THEN "start" ELSE "first"
      /\ UNCHANGED <<build, mode, run, costBefore, sum, table>> /\ Cost!Current' = m
  BY <1>1 DEF Cost!MapBuffer, Cost!Current
<1>3. /\ KernelInvariant' /\ flags'["lab"] = Cost!FlagsOf(m) /\ UNCHANGED <<byte, minflt>>
      /\ DOMAIN pt'["lab"] = IF "MAP_POPULATE" \in Cost!FlagsOf(m) THEN Cow!Pages ELSE {}
      /\ \A q \in Processes : q # "lab" => flags'[q] = flags[q] /\ pt'[q] = pt[q]
      /\ \A r \in Cow!Pages : Cow!Seen("lab", r)' = IF "MAP_ANONYMOUS" \in Cost!FlagsOf(m) THEN 0
                                                    ELSE byte[Cow!Cached(r)]
  <2>1. PICK how \in SUBSET {"MAP_PRIVATE", "MAP_ANONYMOUS", "MAP_POPULATE"} :
          how = Cost!FlagsOf(m) /\ how # {} /\ ~({"MAP_ANONYMOUS", "MAP_POPULATE"} \subseteq how)
    BY ModeFlags
  <2>2. "lab" \in Processes /\ Cow!Map("lab", how)
    BY <1>1, <2>1, OneKernel, OneKernelActs DEF Cost!MapBuffer, Processes
  <2> QED BY <2>1, <2>2, MapShows
<1>4. CostPlace'
  BY <1>1, <1>2, <1>3, ModePasses DEF CostPlace
<1>5. FileWritten'
  BY <1>2, <1>3 DEF FileWritten
<1>6. \A r \in Cow!Pages : byte[Cow!Cached(r)] = Cost!Pattern
  BY <1>2 DEF FileWritten
<1>7. \A r \in Cow!Pages : Cow!Seen("lab", r)' = StartOf(m)
  BY <1>3, <1>6 DEF StartOf
<1>8. costPc' = "first" => ShownFirst(m)'
  BY <1>2, <1>7 DEF ShownFirst, Cow!Pages
<1>9. costPc' = "start" => ShownAtStart(m)'
  <2> SUFFICES ASSUME costPc' = "start", NEW r \in Cow!Pages
               PROVE  /\ Cow!Seen("lab", r)' = IF Prepared(m) THEN ValueOf(m) ELSE StartOf(m)
                      /\ Cow!Present("lab", r)' <=> Prepared(m)
                      /\ ~Prepared(m) => ~Cow!Writable("lab", r)'
    BY DEF ShownAtStart
  <2>1. CASE m = "file_read_populate"
    BY <1>3, <1>7, <2>1, ModeFlags, ModePasses DEF Cow!Present, StartOf, Cost!Pattern
  <2>2. CASE m # "file_read_populate"
    BY <1>2, <1>3, <1>7, <2>2, ModeFlags, ModePasses DEF Cow!Present, Cow!Writable
  <2> QED BY <2>1, <2>2
<1>10. BufferShows' /\ Counted'
  BY <1>2, <1>8, <1>9 DEF BufferShows, Counted
<1>11. Rows'
  BY <1>2, RowsStay
<1>12. \A q \in Cow!Family : flags'[q] = flags[q]
  BY <1>3, TheFamily
<1> QED BY <1>3, <1>4, <1>5, <1>10, <1>11, <1>12 DEF CostGoesOn

\* The pass before the measured section.
LEMMA CostFirstTouches == ASSUME CostKnown, Cost!FirstTouch PROVE CostGoesOn
<1> USE Sizes DEF CostKnown
<1>1. PICK m \in AllModes : m = Cost!Current
  BY CurrentMode DEF Cost!FirstTouch
<1>2. PICK access \in {"load", "update"} : access = Cost!FirstPass(m) /\ Cost!Touch(access)
  BY <1>1, ModePasses DEF Cost!FirstTouch, CostPlace
<1>3. /\ costPc = "first" /\ flags["lab"] = Cost!FlagsOf(m) /\ flags["lab"] # {}
      /\ build \in Cow!Builds /\ costI \in Nat /\ ShownFirst(m)
  BY <1>1, ModeFlags DEF Cost!FirstTouch, CostPlace, BufferShows
<1>4. /\ KernelInvariant' /\ flags' = flags /\ FileKept
      /\ UNCHANGED <<build, costPc, mode, run, costBefore, table>>
      /\ \E page \in Cow!Pages :
           /\ page = costI
           /\ \/ LoadFaulted(page)
              \/ StoreFaulted(page)
              \/ access = "load" /\ Accessed(page, Cow!Seen("lab", page))
              \/ access = "update" /\ Accessed(page, (Cow!Seen("lab", page) + 1) % 256)
  BY <1>2, <1>3, LabTouches
<1>5. PICK page \in Cow!Pages :
        /\ page = costI
        /\ \/ Faulted(page)
           \/ access = "load" /\ Accessed(page, Cow!Seen("lab", page))
           \/ access = "update" /\ Accessed(page, (Cow!Seen("lab", page) + 1) % 256)
  BY <1>4 DEF LoadFaulted, StoreFaulted
<1>6. page \in Nat /\ page < NumPages /\ "lab" \in Processes
  BY DEF Cow!Pages, Processes
<1>7. costI' \in 0 .. NumPages /\ ShownFirst(m)'
  <2>1. CASE Faulted(page)
    BY <1>3, <1>5, <1>6, <2>1 DEF Faulted, SeenAsBefore, ShownFirst
  <2>2. ASSUME NEW value, Accessed(page, value), value = ValueOf(m)
        PROVE  costI' \in 0 .. NumPages /\ ShownFirst(m)'
    <3> SUFFICES ASSUME NEW r \in Cow!Pages
                 PROVE  /\ Cow!Seen("lab", r)' = IF r < costI' THEN ValueOf(m) ELSE StartOf(m)
                        /\ r < costI' => Cow!Present("lab", r)'
      BY <1>6, <2>2 DEF Accessed, ShownFirst
    <3>1. r < page + 1 <=> r < page \/ r = page
      BY <1>6 DEF Cow!Pages
    <3> QED BY <1>3, <1>5, <2>2, <3>1 DEF Accessed, ShownFirst, Cow!Present
  <2>3. Cow!Seen("lab", page) = StartOf(m)
    BY <1>3, <1>5, <1>6 DEF ShownFirst
  <2>4. CASE access = "load" /\ Accessed(page, Cow!Seen("lab", page))
    <3>1. Cow!Seen("lab", page) = ValueOf(m)
      BY <1>2, <2>3, <2>4, ModePasses
    <3> QED BY <2>2, <2>4, <3>1
  <2>5. CASE access = "update" /\ Accessed(page, (Cow!Seen("lab", page) + 1) % 256)
    <3>1. (Cow!Seen("lab", page) + 1) % 256 = ValueOf(m)
      <4>1. PICK b \in {0, 17} : b = StartOf(m)
        BY ModePasses
      <4>2. (b + 1) % 256 = b + 1
        OBVIOUS
      <4>3. ValueOf(m) = b + 1
        BY <1>2, <2>5, <4>1, ModePasses
      <4> QED BY <2>3, <4>1, <4>2, <4>3
    <3> QED BY <2>2, <2>5, <3>1
  <2> QED BY <1>5, <2>1, <2>4, <2>5
<1>8. Cost!Current' = m
  BY <1>1, <1>4 DEF Cost!Current
<1>9. CostPlace'
  BY <1>1, <1>4, <1>7, <1>8 DEF CostPlace
<1>10. FileWritten'
  BY <1>3, <1>4 DEF FileWritten, FileKept
<1>11. BufferShows' /\ Counted'
  BY <1>3, <1>4, <1>7, <1>8 DEF BufferShows, Counted
<1>12. Rows'
  BY <1>3, <1>4, RowsStay
<1> QED BY <1>4, <1>9, <1>10, <1>11, <1>12 DEF CostGoesOn

\* The end of that pass: every page is there, with the byte of the mode.
LEMMA CostFirstDone == ASSUME CostKnown, Cost!FirstDone PROVE CostGoesOn
<1> USE Sizes DEF CostKnown
<1>1. PICK m \in AllModes : m = Cost!Current
  BY CurrentMode DEF Cost!FirstDone
<1>2. /\ costPc = "first" /\ costPc' = "start" /\ costI = NumPages
      /\ UNCHANGED <<flags, pt, byte, minflt>>
      /\ UNCHANGED <<build, mode, run, costI, costBefore, sum, table>>
      /\ Cost!Current' = m
  BY <1>1 DEF Cost!FirstDone, Cost!kernel, Cost!Current
<1>3. KernelInvariant'
  BY <1>2 DEF KernelInvariant, KernelTypes, Sharing, Sole
<1>4. CostPlace'
  BY <1>1, <1>2 DEF CostPlace
<1>5. FileWritten'
  BY <1>2 DEF FileWritten
<1>6. ShownAtStart(m)'
  <2>1. Prepared(m) /\ ShownFirst(m)
    BY <1>1, <1>2, ModePasses DEF CostPlace, BufferShows
  <2>2. \A r \in Cow!Pages : r < NumPages
    BY DEF Cow!Pages
  <2>3. ShownAtStart(m)
    BY <1>2, <2>1, <2>2 DEF ShownAtStart, ShownFirst
  <2> QED BY <1>2, <2>3 DEF ShownAtStart, Cow!Seen, Cow!Present, Cow!Writable
<1>7. BufferShows' /\ Counted'
  BY <1>2, <1>6 DEF BufferShows, Counted
<1>8. Rows'
  BY <1>2, RowsStay
<1> QED BY <1>2, <1>3, <1>4, <1>5, <1>7, <1>8 DEF CostGoesOn

\* The section starts from the counter as it is and a sum of 0.
LEMMA CostStarts == ASSUME CostKnown, Cost!StartMeasuring PROVE CostGoesOn
<1> USE Sizes DEF CostKnown
<1>1. PICK m \in AllModes : m = Cost!Current
  BY CurrentMode DEF Cost!StartMeasuring
<1>2. /\ costPc = "start" /\ costPc' = "measured" /\ costI' = 0 /\ costBefore' = minflt["lab"]
      /\ sum' = 0
      /\ UNCHANGED <<flags, pt, byte, minflt>> /\ UNCHANGED <<build, mode, run, table>>
      /\ Cost!Current' = m
  BY <1>1, OneKernel DEF Cost!StartMeasuring, Cost!SumReset, Cost!kernel, Cost!Current
<1>3. KernelInvariant'
  BY <1>2 DEF KernelInvariant, KernelTypes, Sharing, Sole
<1>4. CostPlace'
  <2>1. minflt["lab"] \in Nat
    BY DEF KernelInvariant, KernelTypes, Processes
  <2> QED BY <1>1, <1>2, <2>1 DEF CostPlace
<1>5. FileWritten'
  BY <1>2 DEF FileWritten
<1>6. ShownAtStart(m) /\ flags["lab"] = Cost!FlagsOf(m)
  BY <1>1, <1>2 DEF BufferShows, CostPlace
<1>7. ShownMeasured(m)'
  <2> SUFFICES ASSUME NEW r \in Cow!Pages
               PROVE  /\ Cow!Seen("lab", r)' = IF Prepared(m) \/ r < costI' THEN ValueOf(m)
                                               ELSE StartOf(m)
                      /\ Prepared(m) \/ r < costI' => Cow!Present("lab", r)'
                      /\ ~Prepared(m) /\ r > costI' => ~Cow!Writable("lab", r)'
                      /\ ~Prepared(m) /\ r > costI' /\ "MAP_ANONYMOUS" \in Cost!FlagsOf(m) =>
                           ~Cow!Present("lab", r)'
    BY DEF ShownMeasured
  <2>1. ~(r < 0)
    BY DEF Cow!Pages
  <2> QED BY <1>2, <1>6, <2>1 DEF ShownAtStart, Cow!Seen, Cow!Present, Cow!Writable
<1>8. CountedAs(m)'
  <2>1. 0 \in Cow!Pages /\ minflt["lab"] \in Nat
    BY DEF Cow!Pages, KernelInvariant, KernelTypes, Processes
  <2>2. StoreFaults(m)' = 0
    <3>1. CASE Cost!MeasuredPass(m) # "update"
      BY <3>1 DEF StoreFaults
    <3>2. CASE Cost!MeasuredPass(m) = "update"
      <4>1. ~Cow!Writable("lab", 0)
        BY <1>6, <2>1, <3>2, ModePasses DEF ShownAtStart
      <4> QED BY <1>2, <4>1 DEF StoreFaults, Mine, One, Cow!Writable, Cow!Present
    <3> QED BY <3>1, <3>2
  <2>3. ~NoLoads(m)' => Here' = 0 /\ DOMAIN pt'["lab"] = {}
    <3>1. SUFFICES ASSUME ~Prepared(m) PROVE Here' = 0 /\ DOMAIN pt'["lab"] = {}
      BY DEF NoLoads
    <3>2. \A r \in Cow!Pages : r \notin DOMAIN pt["lab"]
      BY <1>6, <3>1 DEF ShownAtStart, Cow!Present
    <3>3. DOMAIN pt["lab"] \subseteq Cow!Pages
      BY DEF KernelInvariant, KernelTypes, Processes
    <3> QED BY <1>2, <3>2, <3>3 DEF Here, One, Cow!Present
  <2>4. LoadFaults(m, 0)'
    BY <1>2, <2>1, <2>2, <2>3 DEF LoadFaults
  <2>5. 0 \in 0 .. costI' + Here'
    BY <1>2 DEF Here, One
  <2>6. sum' = costI' * ValueOf(m)
    BY <1>2, ModePasses
  <2> QED BY <2>4, <2>5, <2>6 DEF CountedAs
<1>9. BufferShows' /\ Counted'
  BY <1>2, <1>7, <1>8 DEF BufferShows, Counted
<1>10. Rows'
  BY <1>2, RowsStay
<1> QED BY <1>2, <1>3, <1>4, <1>5, <1>9, <1>10 DEF CostGoesOn

\* One touch of the measured section.
LEMMA CostMeasures == ASSUME CostKnown, Cost!MeasuredTouch PROVE CostGoesOn
<1> USE Sizes DEF CostKnown
<1>1. PICK m \in AllModes : m = Cost!Current
  BY CurrentMode DEF Cost!MeasuredTouch
<1>2. PICK access \in {"load", "update"} : access = Cost!MeasuredPass(m) /\ Cost!Touch(access)
  BY <1>1, ModePasses DEF Cost!MeasuredTouch
<1>3. /\ costPc = "measured" /\ flags["lab"] = Cost!FlagsOf(m) /\ flags["lab"] # {}
      /\ build \in Cow!Builds /\ costI \in Nat /\ costBefore \in Nat
      /\ ShownMeasured(m) /\ CountedAs(m)
  BY <1>1, ModeFlags DEF Cost!MeasuredTouch, CostPlace, BufferShows, Counted
<1>4. /\ KernelInvariant' /\ flags' = flags /\ FileKept
      /\ UNCHANGED <<build, costPc, mode, run, costBefore, table>>
      /\ \E page \in Cow!Pages :
              /\ page = costI
              /\ \/ LoadFaulted(page) /\ (access = "load" \/ build = "load_and_store")
                 \/ /\ StoreFaulted(page) /\ access = "update"
                    /\ build = "one_instruction" \/ Cow!Present("lab", page)
                 \/ access = "load" /\ Accessed(page, Cow!Seen("lab", page))
                 \/ /\ access = "update" /\ Cow!Writable("lab", page)
                    /\ Accessed(page, (Cow!Seen("lab", page) + 1) % 256)
  BY <1>2, <1>3, LabTouches
<1>5. PICK page \in Cow!Pages :
              /\ page = costI
              /\ \/ LoadFaulted(page) /\ (access = "load" \/ build = "load_and_store")
                 \/ /\ StoreFaulted(page) /\ access = "update"
                    /\ build = "one_instruction" \/ Cow!Present("lab", page)
                 \/ access = "load" /\ Accessed(page, Cow!Seen("lab", page))
                 \/ /\ access = "update" /\ Cow!Writable("lab", page)
                    /\ Accessed(page, (Cow!Seen("lab", page) + 1) % 256)
  BY <1>4
<1>6. page \in Nat /\ page < NumPages
  BY DEF Cow!Pages
<1>7. Measuring(m, page)
  BY <1>3, <1>4, <1>5 DEF Measuring
<1>8. ShownMeasured(m)' /\ CountedAs(m)'
  BY <1>2, <1>5, <1>7, MeasuredLoadFaults, MeasuredStoreFaults, MeasuredAccesses
<1>9. costI' \in 0 .. NumPages
  BY <1>5, <1>6 DEF LoadFaulted, StoreFaulted, Faulted, Accessed
<1>10. Cost!Current' = m
  BY <1>1, <1>4 DEF Cost!Current
<1>11. CostPlace'
  BY <1>1, <1>4, <1>9, <1>10 DEF CostPlace
<1>12. FileWritten'
  BY <1>3, <1>4 DEF FileWritten, FileKept
<1>13. BufferShows' /\ Counted'
  BY <1>3, <1>4, <1>8, <1>10 DEF BufferShows, Counted
<1>14. Rows'
  BY <1>3, <1>4, RowsStay
<1> QED BY <1>4, <1>11, <1>12, <1>13, <1>14 DEF CostGoesOn

\* The end of the section: the row of a mode has its faults and its sum.
LEMMA CostRecords == ASSUME CostKnown, Cost!Record PROVE CostGoesOn
<1> USE Sizes DEF CostKnown
<1>1. PICK m \in AllModes : m = Cost!Current
  BY CurrentMode DEF Cost!Record
<1>2. /\ costPc = "measured" /\ costPc' = "unmap" /\ costI = NumPages
      /\ \/ run < Warmup /\ table' = table
         \/ /\ ~(run < Warmup)
            /\ \E other \in 0 .. OtherFaults :
                 table' = Append(table, [mode |-> m, minflt |-> minflt["lab"] - costBefore + other,
                                         checksum |-> sum])
      /\ UNCHANGED <<flags, pt, byte, minflt>>
      /\ UNCHANGED <<build, mode, run, costI, costBefore, sum>>
  <2>1. costPc = "measured" /\ run \in Nat
    BY DEF Cost!Record, CostPlace
  <2>2. (run >= Warmup) <=> ~(run < Warmup)
    BY <2>1
  <2> QED BY <1>1, <2>2, OneKernel DEF Cost!Record, Cost!kernel, Cost!P, Cost!Grown
<1>3. KernelInvariant'
  <2>1. UNCHANGED <<flags, pt, byte, minflt>>
    BY <1>2
  <2> QED BY <2>1 DEF KernelInvariant, KernelTypes, Sharing, Sole
<1>4. CostPlace'
  BY <1>2 DEF CostPlace
<1>5. FileWritten'
  BY <1>2 DEF FileWritten
<1>6. /\ flags["lab"] = Cost!FlagsOf(m) /\ ShownMeasured(m) /\ CountedAs(m)
      /\ build \in Cow!Builds /\ costBefore \in Nat /\ run \in Nat /\ mode \in 1 .. 7
  BY <1>1, <1>2 DEF CostPlace, BufferShows, Counted
<1>7. Here = 0 /\ Mine = 0
  <2>1. ~Cow!Present("lab", NumPages)
    BY DEF KernelInvariant, KernelTypes, Processes, Cow!Pages, Cow!Present
  <2> QED BY <1>2, <2>1 DEF Here, Mine, One, Cow!Writable
<1>8. DOMAIN pt["lab"] # {}
  <2>1. 0 \in Cow!Pages /\ 0 < NumPages
    BY DEF Cow!Pages
  <2> QED BY <1>2, <1>6, <2>1 DEF ShownMeasured, Cow!Present
<1>9. PICK loads \in 0 .. NumPages : LoadFaults(m, loads)
  BY <1>2, <1>6, <1>7 DEF CountedAs
<1>10. PICK faults \in Nat : /\ faults = minflt["lab"] - costBefore
                             /\ faults = loads + (IF Cost!MeasuredPass(m) = "update" THEN NumPages ELSE 0)
  <2>1. PICK s \in Nat, b \in Nat :
          s = StoreFaults(m) /\ b = costBefore
          /\ s = IF Cost!MeasuredPass(m) = "update" THEN NumPages ELSE 0
    BY <1>2, <1>6, <1>7 DEF StoreFaults
  <2>2. minflt["lab"] = b + loads + s
    BY <1>9, <2>1 DEF LoadFaults
  <2>3. loads + s \in Nat /\ (b + loads + s) - b = loads + s
    OBVIOUS
  <2> QED BY <2>1, <2>2, <2>3
<1>11. /\ Cost!FewestFaults(m) \in Nat /\ Cost!MostFaults(m) \in Nat
       /\ faults \in Cost!FewestFaults(m) .. Cost!MostFaults(m)
  <2> USE DEF Cost!FewestFaults, Cost!MostFaults
  <2>1. /\ NoLoads(m) => loads = 0
        /\ ~NoLoads(m) /\ "MAP_ANONYMOUS" \in Cost!FlagsOf(m) => loads = NumPages
        /\ ~NoLoads(m) => loads # 0
    BY <1>2, <1>7, <1>8, <1>9 DEF LoadFaults
  <2>2. build \in {"one_instruction", "load_and_store"}
    BY <1>6 DEF Cow!Builds
  <2>3. CASE m = "anon_read_first"
    BY <1>10, <2>1, <2>3 DEF NoLoads, Prepared, Cost!MeasuredPass, Cost!FlagsOf
  <2>4. CASE m = "anon_write_first"
    BY <1>10, <2>1, <2>2, <2>4 DEF NoLoads, Prepared, Cost!MeasuredPass, Cost!FlagsOf, Cost!Updates
  <2>5. CASE m = "file_read_first"
    BY <1>10, <2>1, <2>5 DEF NoLoads, Prepared, Cost!MeasuredPass
  <2>6. CASE m = "file_write_private_first"
    BY <1>10, <2>1, <2>2, <2>6 DEF NoLoads, Prepared, Cost!MeasuredPass, Cost!Updates
  <2>7. CASE Prepared(m)
    BY <1>10, <2>1, <2>7 DEF NoLoads, Prepared, Cost!MeasuredPass
  <2> QED BY <2>3, <2>4, <2>5, <2>6, <2>7 DEF AllModes, Prepared
<1>12. sum = NumPages * ValueOf(m) /\ sum \in Nat
  <2>1. PICK v \in Nat : v = ValueOf(m)
    BY ModePasses
  <2>2. NumPages * v \in Nat
    OBVIOUS
  <2> QED BY <1>2, <1>6, <2>1, <2>2 DEF CountedAs
<1>13. CASE run < Warmup
  <2>1. /\ ~(RunsDone > Warmup) /\ ~(RunsDone' > Warmup) /\ table' = table
    BY <1>2, <1>6, <1>13 DEF RunsDone
  <2>2. Rows'
    BY <1>2, <2>1 DEF Rows, Cost!FaultsPerMode, Cost!FewestFaults, Cost!MostFaults, Cost!Updates
  <2> QED BY <1>2, <1>3, <1>4, <1>5, <2>2 DEF CostGoesOn, BufferShows, Counted
<1>14. CASE ~(run < Warmup)
  <2>0. PICK other \in 0 .. OtherFaults :
          table' = Append(table, [mode |-> m, minflt |-> faults + other, checksum |-> sum])
    BY <1>2, <1>10, <1>14
  <2>1. PICK row \in [mode : AllModes, minflt : Nat, checksum : Nat] :
          /\ row = [mode |-> m, minflt |-> faults + other, checksum |-> sum]
          /\ row.mode = m /\ row.minflt = faults + other /\ row.checksum = sum
    <3>1. PICK c \in Nat, n \in Nat : c = sum /\ n = faults + other
      BY <1>12
    <3>2. [mode |-> m, minflt |-> n, checksum |-> c]
            \in [mode : AllModes, minflt : Nat, checksum : Nat]
      OBVIOUS
    <3> QED BY <3>1, <3>2
  <2>2. table' = Append(table, row) /\ table \in Seq([mode : AllModes, minflt : Nat, checksum : Nat])
    BY <2>0, <2>1 DEF Rows
  <2>3. /\ table' \in Seq([mode : AllModes, minflt : Nat, checksum : Nat])
        /\ Len(table') = Len(table) + 1 /\ Len(table) \in Nat
    BY <2>2
  <2>4. ASSUME NEW r \in DOMAIN table'
        PROVE  (r \in DOMAIN table /\ table'[r] = table[r]) \/ table'[r] = row
    <3>1. ASSUME NEW S, NEW t \in Seq(S), NEW x \in S, NEW q \in DOMAIN Append(t, x)
          PROVE  (q \in DOMAIN t /\ Append(t, x)[q] = t[q]) \/ Append(t, x)[q] = x
      OBVIOUS
    <3> QED BY ONLY <2>2, <2>4, <3>1, row \in [mode : AllModes, minflt : Nat, checksum : Nat]
  <2>5. Cost!FaultsPerMode'
    <3> SUFFICES ASSUME NEW r \in DOMAIN table'
                 PROVE  table'[r].minflt \in Cost!FewestFaults(table'[r].mode)
                                            .. Cost!MostFaults(table'[r].mode) + OtherFaults
      BY <1>2 DEF Cost!FaultsPerMode, Cost!FewestFaults, Cost!MostFaults, Cost!Updates
    <3>1. CASE r \in DOMAIN table /\ table'[r] = table[r]
      BY <3>1 DEF Rows, Cost!FaultsPerMode
    <3>2. CASE table'[r] = row
      <4>1. PICK low \in Nat, high \in Nat :
              low = Cost!FewestFaults(m) /\ high = Cost!MostFaults(m) /\ faults \in low .. high
        BY <1>11
      <4>2. faults + other \in low .. high + OtherFaults
        BY <4>1
      <4> QED BY <2>1, <3>2, <4>1, <4>2
    <3> QED BY <2>4, <3>1, <3>2
  <2>6. \A r \in DOMAIN table' : table'[r].checksum = NumPages * ValueOf(table'[r].mode)
    <3> SUFFICES ASSUME NEW r \in DOMAIN table'
                 PROVE  table'[r].checksum = NumPages * ValueOf(table'[r].mode)
      OBVIOUS
    <3>1. CASE r \in DOMAIN table /\ table'[r] = table[r]
      BY <3>1 DEF Rows
    <3>2. CASE table'[r] = row
      BY <1>12, <2>1, <3>2
    <3> QED BY <2>4, <3>1, <3>2
  <2>7. Len(table') = (mode' - 1) * Repeats
                      + (IF RunsDone' > Warmup THEN RunsDone' - Warmup ELSE 0)
    <3>1. PICK k \in Nat : k = (mode - 1) * Repeats
      <4>1. PICK j \in Nat : j = mode - 1
        BY <1>6
      <4>2. j * Repeats \in Nat
        OBVIOUS
      <4> QED BY <4>1, <4>2
    <3>2. Len(table) = k + (run - Warmup)
      <4>1. Len(table) = k + (IF run > Warmup THEN run - Warmup ELSE 0)
        BY <1>2, <3>1 DEF Rows, RunsDone
      <4> QED BY <1>6, <1>14, <4>1
    <3>3. RunsDone' = run + 1 /\ mode' = mode
      BY <1>2 DEF RunsDone
    <3> QED BY <1>6, <1>14, <2>3, <3>1, <3>2, <3>3
  <2>8. \A x : (ValueOf(x))' = ValueOf(x)
    BY DEF ValueOf, StartOf
  <2>9. Rows'
    BY <2>3, <2>5, <2>6, <2>7, <2>8 DEF Rows
  <2> QED BY <1>2, <1>3, <1>4, <1>5, <2>9 DEF CostGoesOn, BufferShows, Counted
<1> QED BY <1>13, <1>14

\* The end of a run: the next run, the next mode, or the end.
LEMMA CostUnmaps == ASSUME CostKnown, Cost!UnmapBuffer PROVE CostGoesOn
<1> USE Sizes DEF CostKnown
<1>1. /\ costPc = "unmap" /\ Cow!Unmap("lab")
      /\ UNCHANGED <<build, costI, costBefore, sum, table>>
  BY OneKernel, OneKernelActs DEF Cost!UnmapBuffer
<1>2. /\ KernelInvariant' /\ UNCHANGED <<byte, minflt>>
      /\ \A q \in Processes : q # "lab" => flags'[q] = flags[q] /\ pt'[q] = pt[q]
  <2>1. "lab" \in Processes
    BY DEF Processes
  <2> QED BY <1>1, <2>1, UnmapShows
<1>3. /\ mode \in 1 .. 7 /\ run \in 0 .. Warmup + Repeats - 1
  BY <1>1 DEF CostPlace
<1>4. \/ /\ run + 1 = Warmup + Repeats /\ run' = 0 /\ mode' = mode + 1
         /\ costPc' = IF mode = 7 THEN "done" ELSE "map"
      \/ run + 1 # Warmup + Repeats /\ run' = run + 1 /\ mode' = mode /\ costPc' = "map"
  BY TheModes DEF Cost!UnmapBuffer, Cost!LastRun
<1>5. CostPlace'
  BY <1>1, <1>3, <1>4 DEF CostPlace
<1>6. FileWritten'
  BY <1>1, <1>2, <1>4 DEF FileWritten
<1>7. Len(table) = (mode' - 1) * Repeats
                   + (IF RunsDone' > Warmup THEN RunsDone' - Warmup ELSE 0)
  <2>1. PICK k \in Nat, d \in Nat :
          /\ k = (mode - 1) * Repeats /\ d = RunsDone /\ d = run + 1
          /\ Len(table) = k + (IF d > Warmup THEN d - Warmup ELSE 0)
    <3>1. PICK d \in Nat : d = RunsDone /\ d = run + 1
      BY <1>1, <1>3 DEF RunsDone
    <3>2. PICK j \in Nat : j = mode - 1
      BY <1>3
    <3>3. PICK k \in Nat : k = j * Repeats
      OBVIOUS
    <3>4. Len(table) = k + (IF d > Warmup THEN d - Warmup ELSE 0)
      BY <1>1, <3>1, <3>2, <3>3 DEF Rows
    <3> QED BY <3>1, <3>2, <3>3, <3>4
  <2>2. RunsDone' = run'
    BY <1>4 DEF RunsDone
  <2>3. CASE run + 1 # Warmup + Repeats
    <3>1. mode' = mode /\ RunsDone' = d
      BY <1>4, <2>1, <2>2, <2>3
    <3> QED BY <2>1, <3>1
  <2>4. CASE run + 1 = Warmup + Repeats
    <3>1. PICK j \in Nat : j = mode - 1
      BY <1>3
    <3>2. k = j * Repeats
      BY <2>1, <3>1
    <3>3. Len(table) = k + Repeats
      BY <2>1, <2>4
    <3>4. (j + 1) * Repeats = j * Repeats + Repeats
      OBVIOUS
    <3>5. mode' - 1 = j + 1 /\ RunsDone' = 0
      BY <1>3, <1>4, <2>2, <2>4, <3>1
    <3>6. (mode' - 1) * Repeats = k + Repeats /\ ~(RunsDone' > Warmup)
      BY <3>2, <3>4, <3>5
    <3> QED BY <3>3, <3>6
  <2> QED BY <2>3, <2>4
<1>8. Rows'
  BY <1>1, <1>7 DEF Rows, Cost!FaultsPerMode, Cost!FewestFaults, Cost!MostFaults, Cost!Updates
<1>9. \A q \in Cow!Family : flags'[q] = flags[q]
  BY <1>2, TheFamily
<1> QED BY <1>2, <1>4, <1>5, <1>6, <1>8, <1>9 DEF CostGoesOn, BufferShows, Counted

\* All of page_fault_cost_breakdown.c.
LEMMA CostStep == ASSUME CostKnown, Cost!Next PROVE CostGoesOn
<1>1. ASSUME Cost!Terminated PROVE CostGoesOn
  <2> USE DEF CostKnown
  <2>1. /\ UNCHANGED <<flags, pt, byte, minflt>>
        /\ UNCHANGED <<build, costPc, mode, run, costI, costBefore, sum, table>>
        /\ costPc \in {"done", "failed"}
    BY <1>1 DEF Cost!Terminated, Cost!vars, Cost!kernel, Cost!cost
  <2>2. KernelInvariant'
    BY <2>1 DEF KernelInvariant, KernelTypes, Sharing, Sole
  <2>3. CostPlace' /\ FileWritten'
    BY <2>1 DEF CostPlace, FileWritten
  <2>4. Rows'
    BY <2>1 DEF Rows, RunsDone, Cost!FaultsPerMode, Cost!FewestFaults, Cost!MostFaults, Cost!Updates
  <2> QED BY <2>1, <2>2, <2>3, <2>4 DEF CostGoesOn, BufferShows, Counted
<1> QED BY <1>1, CostWrites, CostFileDone, CostMaps, CostFirstTouches, CostFirstDone, CostStarts,
           CostMeasures, CostRecords, CostUnmaps DEF Cost!Next

\* The start.
LEMMA CostStarted == Init => CostMemory
<1> SUFFICES ASSUME Init PROVE CostMemory
  OBVIOUS
<1> USE Sizes
<1>1. /\ costPc = "create" /\ mode = 1 /\ run = 0 /\ costI = 0 /\ costBefore = 0 /\ sum = 0
      /\ table = <<>> /\ build \in Cow!Builds
  BY OneKernel DEF Init, Cost!Init
<1>2. CostPlace /\ BufferShows /\ Counted
  BY <1>1 DEF CostPlace, BufferShows, Counted
<1>3. FileWritten
  BY <1>1 DEF FileWritten, Cow!Pages
<1>4. Rows
  <2>1. Len(table) = 0 /\ DOMAIN table = {} /\ table \in Seq([mode : AllModes, minflt : Nat, checksum : Nat])
    BY <1>1
  <2>2. (mode - 1) * Repeats + (IF RunsDone > Warmup THEN RunsDone - Warmup ELSE 0) = 0
    <3>1. RunsDone = 0 /\ mode - 1 = 0 /\ 0 * Repeats = 0
      BY <1>1 DEF RunsDone
    <3> QED BY <3>1
  <2> QED BY <2>1, <2>2 DEF Rows, Cost!FaultsPerMode
<1> QED BY <1>1, <1>2, <1>3, <1>4 DEF CostMemory

-----------------------------------------------------------------------------
(* The theorems.                                                            *)

MemoryInvariant == KernelInvariant /\ CowMemory /\ CostMemory

\* A step of a lab that forks nothing.
LEMMA OtherLabs ==
  ASSUME CowMemory, lab # "cow", lab' = lab, UNCHANGED cowVars,
         \A q \in Cow!Family : flags'[q] = flags[q]
  PROVE  CowMemory' /\ PrivateStep
<1> USE TheFamily
<1>1. flags["parent"] = {} /\ flags["child"] = {}
  BY DEF CowMemory
<1>2. /\ pc["parent"] \notin {"warmup", "fork", "wait"}
      /\ pc["child"] \notin {"getrusage", "touch", "munmap"}
  BY <1>1 DEF CowMemory, CowBuffers
<1>3. CowMemory'
  BY <1>1, <1>2 DEF cowVars, CowMemory, CowBuffers, ParentTable, ChildTable, Cow!FaultsPerMode, Cow!BufferFaults
<1>4. Memory' = Memory
  <2>1. Buffers = {} /\ Buffers' = {}
    BY <1>1 DEF Buffers
  <2> QED BY <2>1 DEF Memory
<1> QED BY <1>3, <1>4 DEF PrivateStep

\* Every step keeps the invariant and is one of private memory.
LEMMA MemoryStep ==
  ASSUME CowInvariant, MemoryInvariant, [Next]_vars
  PROVE  MemoryInvariant' /\ PrivateStep
<1> USE DEF MemoryInvariant
<1>1. CASE Cow!Next /\ OfCow
  <2>1. lab = "cow" /\ lab' = lab /\ UNCHANGED costVars
    BY <1>1 DEF OfCow
  <2>2. KernelInvariant' /\ CowMemory' /\ PrivateStep
    BY <1>1, <2>1, CowMemoryStep DEF CowKnown
  <2>3. CostMemory'
    BY <2>1 DEF CostMemory, costVars
  <2> QED BY <2>2, <2>3
<1>2. CASE lab = "cost" /\ Cost!Next /\ UNCHANGED <<lab, cowVars, samplingVars, switchVars>>
  <2>1. CostGoesOn
    BY <1>2, CostStep DEF CostKnown, CostMemory
  <2>2. CostMemory'
    BY <1>2, <2>1 DEF CostGoesOn, CostMemory
  <2>3. CowMemory' /\ PrivateStep
    BY <1>2, <2>1, OtherLabs DEF CostGoesOn
  <2> QED BY <2>1, <2>2, <2>3 DEF CostGoesOn
<1>3. CASE UNCHANGED <<lab, kernelVars, cowVars, costVars>>
  <2>1. /\ UNCHANGED <<flags, pt, byte, minflt>> /\ lab' = lab
        /\ UNCHANGED <<option, pc, i, before, rows, exit>>
        /\ UNCHANGED <<build, costPc, mode, run, costI, costBefore, sum, table>>
    BY <1>3 DEF kernelVars, cowVars, costVars
  <2>2. KernelInvariant'
    BY <2>1 DEF KernelInvariant, KernelTypes, Sharing, Sole
  <2>3. CowMemory'
    BY <2>1 DEF CowMemory, CowBuffers, ParentTable, ChildTable, AsForked, ChildLoads,
                ChildStores, StoresOnly, One, Cow!Present, Cow!Writable, Cow!FaultsPerMode, Cow!BufferFaults
  <2>4. PrivateStep
    BY <2>1 DEF PrivateStep, Memory, Buffers, Cow!Seen, Cow!Present
  <2>5. ASSUME lab = "cost" PROVE CostMemory'
    <3>1. CostPlace' /\ FileWritten' /\ Rows'
      BY <2>1, <2>5 DEF CostMemory, CostPlace, Cost!Current, FileWritten, Rows, RunsDone,
                        Cost!FaultsPerMode, Cost!FewestFaults, Cost!MostFaults, Cost!Updates
    <3>2. BufferShows'
      BY <2>1, <2>5 DEF CostMemory, BufferShows, Cost!Current, ShownFirst, ShownAtStart,
                        ShownMeasured, Cow!Seen, Cow!Present, Cow!Writable
    <3>3. Counted'
      BY <2>1, <2>5 DEF CostMemory, Counted, Cost!Current, CountedAs, LoadFaults, StoreFaults,
                        NoLoads, Here, Mine, One, Cow!Present, Cow!Writable
    <3> QED BY <2>1, <2>5, <3>1, <3>2, <3>3 DEF CostMemory
  <2>6. ASSUME lab # "cost" PROVE CostMemory'
    BY <2>1, <2>6 DEF CostMemory
  <2> QED BY <2>2, <2>3, <2>4, <2>5, <2>6
<1>4. UNCHANGED vars \/ (lab = "sampling" /\ UNCHANGED <<lab, kernelVars, cowVars, costVars, switchVars>>)
        \/ OfSwitch => UNCHANGED <<lab, kernelVars, cowVars, costVars>>
  BY DEF vars, OfSwitch
<1> QED BY <1>1, <1>2, <1>3, <1>4 DEF Next

\* The kernel's frames and page tables, and what both labs have mapped and
\* counted so far, are always consistent.
THEOREM MemoryHolds == Spec => []MemoryInvariant
<1>1. Init => MemoryInvariant
  BY KernelStarts, CowMemoryStarts, CostStarted DEF MemoryInvariant
<1>2. BoundaryInvariant => CowInvariant
  BY DEF BoundaryInvariant
<1>3. CowInvariant /\ MemoryInvariant /\ [Next]_vars => MemoryInvariant'
  BY MemoryStep
<1> QED BY <1>1, <1>2, <1>3, BoundaryHolds, PTL DEF Spec

\* The faults that a lab prints are at least those that its mode causes in the
\* buffer, and at most OtherFaults more, those of the rest of the process:
\* whatever the number of pages, however many pages around a fault the kernel
\* maps, and whatever ran before.
THEOREM FaultsAreThoseOfTheMode == Spec => []FaultsPerMode
<1>1. MemoryInvariant => FaultsPerMode
  <2> SUFFICES ASSUME MemoryInvariant PROVE FaultsPerMode
    OBVIOUS
  <2>1. Cost!FaultsPerMode
    <3>1. CASE lab = "cost"
      BY <3>1 DEF MemoryInvariant, CostMemory, Rows
    <3>2. CASE lab # "cost"
      BY <3>2, EmptyTable DEF MemoryInvariant, CostMemory, Cost!FaultsPerMode
    <3> QED BY <3>1, <3>2
  <2> QED BY <2>1 DEF MemoryInvariant, CowMemory, FaultsPerMode
<1> QED BY <1>1, MemoryHolds, PTL

\* Every row of page-fault-cost-breakdown has the checksum of a fresh buffer or
\* of the file as it was written: no mode sees what another mode wrote.
THEOREM ModesSeeFreshBuffers == Spec => []ModesDoNotInterfere
<1>1. MemoryInvariant => ModesDoNotInterfere
  <2> SUFFICES ASSUME MemoryInvariant PROVE Cost!ModesDoNotInterfere
    BY DEF ModesDoNotInterfere
  <2>1. CASE lab # "cost"
    BY <2>1, EmptyTable DEF MemoryInvariant, CostMemory, Cost!ModesDoNotInterfere
  <2>2. CASE lab = "cost"
    <3>1. CostPlace /\ Rows
      BY <2>2 DEF MemoryInvariant, CostMemory
    <3>2. ASSUME NEW r \in DOMAIN table
          PROVE  table[r].checksum = NumPages *
                   CASE table[r].mode = "anon_read_first" -> 0
                     [] table[r].mode \in {"anon_write_first", "anon_read_second"} -> 1
                     [] table[r].mode = "file_write_private_first" -> Cost!Pattern + 1
                     [] OTHER -> Cost!Pattern
      <4>1. PICK m \in AllModes : m = table[r].mode
        <5>1. PICK S : /\ S = [mode : AllModes, minflt : Nat, checksum : Nat]
                       /\ table \in Seq(S)
          BY <3>1 DEF Rows
        <5>2. \A seq \in Seq(S) : \A k \in DOMAIN seq : seq[k] \in S
          OBVIOUS
        <5>3. table[r] \in S
          BY ONLY <3>2, <5>1, <5>2, Zenon
        <5> QED BY <5>1, <5>3
      <4>2. ValueOf(m) = CASE m = "anon_read_first" -> 0
                           [] m \in {"anon_write_first", "anon_read_second"} -> 1
                           [] m = "file_write_private_first" -> Cost!Pattern + 1
                           [] OTHER -> Cost!Pattern
        BY DEF AllModes, ValueOf, StartOf, Cost!FlagsOf, Cost!FirstPass, Cost!MeasuredPass
      <4> QED BY <3>1, <4>1, <4>2 DEF Rows
    <3>3. costPc = "done" => Len(table) = Len(Cost!Modes) * Repeats
      <4> SUFFICES ASSUME costPc = "done" PROVE Len(table) = 7 * Repeats
        BY TheModes
      <4>1. mode = 8 /\ run = 0 /\ RunsDone = 0
        BY <3>1 DEF CostPlace, RunsDone
      <4>2. Len(table) = 7 * Repeats + 0
        BY <3>1, <4>1, Sizes DEF Rows
      <4> QED BY <4>2, Sizes
    <3> QED BY <3>2, <3>3 DEF Cost!ModesDoNotInterfere
  <2> QED BY <2>1, <2>2
<1> QED BY <1>1, MemoryHolds, PTL

\* copy-on-write implements memory that fork copies at once and that is each
\* process's own from then on.
THEOREM ForkGivesPrivateMemory == Spec => ImplementsPrivateMemory
<1>1. Init => Cow!Private!Init
  BY CowMemoryStarts
<1>2. CowInvariant /\ MemoryInvariant /\ [Next]_vars =>
        [Cow!Private!Next]_[p \in {q \in Cow!Family : flags[q] # {}} |->
                              [page \in Cow!Pages |-> Cow!Seen(p, page)]]
  BY MemoryStep DEF PrivateStep, Memory, Buffers
<1>3. BoundaryInvariant => CowInvariant
  BY DEF BoundaryInvariant
<1> QED BY <1>1, <1>2, <1>3, BoundaryHolds, MemoryHolds, PTL
        DEF Spec, ImplementsPrivateMemory, Cow!ImplementsPrivateMemory, Cow!Private!Spec
=============================================================================
