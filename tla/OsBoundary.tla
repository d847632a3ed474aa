------------------------------ MODULE OsBoundary ------------------------------
(***************************************************************************)
(* The labs of 03-os-boundary on one machine.  A behaviour is one of them, *)
(* as its run.sh starts it; the others keep their initial state.  copy-on- *)
(* write and page-fault-cost-breakdown share the kernel's memory.          *)
(***************************************************************************)
EXTENDS Naturals

CONSTANTS
  NumPages, OtherFaults, Warmup, Repeats,  \* of the two labs that count faults
  Buffer, MaxMB, MaxSpan, Iterations, MaxStarts,  \* of mmap-vs-read
  WarmupTrips, RoundTrips              \* of context-switch

\* What the programs accept: cow.c's main, page_fault_cost_breakdown.c's
\* main, mmap-vs-read's, and context_switch.c's parse_args.
ASSUME OsAssumption ==
  /\ {NumPages, Repeats, Buffer, Iterations, RoundTrips} \subseteq Nat \ {0}
  /\ {OtherFaults, Warmup, MaxMB, MaxSpan, MaxStarts, WarmupTrips} \subseteq Nat

VARIABLES
  lab,
  flags, pt, byte, minflt,                     \* the kernel
  option, pc, i, before, rows, exit,           \* copy-on-write
  build, costPc, mode, run, costI, costBefore, sum, table,  \* page-fault-cost-breakdown
  file, starts, cfg, samplingPc, remaining, pos, iter, result, \* mmap-vs-read
  open, bytes, rounds, timer, timed, switchPc, status          \* context-switch

Processes == {"parent", "child", "lab"}
Cow == INSTANCE CopyOnWrite
Cost == INSTANCE PageFaultCost WITH pc <- costPc, i <- costI, before <- costBefore
Sampling == INSTANCE MmapRead WITH pc <- samplingPc, Repeats <- Iterations
Switch == INSTANCE PingPong WITH
            pc <- switchPc, exit <- status, Warmup <- WarmupTrips, Iterations <- RoundTrips

kernelVars == <<flags, pt, byte, minflt>>
cowVars == <<option, pc, i, before, rows, exit>>
costVars == <<build, costPc, mode, run, costI, costBefore, sum, table>>
samplingVars == <<file, starts, cfg, samplingPc, remaining, pos, iter, result>>
switchVars == <<open, bytes, rounds, timer, timed, switchPc, status>>
vars == <<lab, kernelVars, cowVars, costVars, samplingVars, switchVars>>

Init ==
  /\ lab \in {"cow", "cost", "sampling", "switch"}
  /\ Cow!Init
  /\ lab # "cow" => option = [mode |-> "read", warmup |-> TRUE, build |-> "one_instruction"]
  /\ Cost!Init
  /\ lab # "cost" => build = "one_instruction"
  /\ Sampling!Init
  /\ Switch!Init

OfCow == lab = "cow" /\ UNCHANGED <<lab, costVars, samplingVars, switchVars>>
OfSwitch == lab = "switch" /\ UNCHANGED <<lab, kernelVars, cowVars, costVars, samplingVars>>
CowParent == Cow!Parent /\ OfCow
CowChild == Cow!Child /\ OfCow
SwitchParent == Switch!ParentStep /\ OfSwitch
SwitchChild == Switch!ChildStep /\ OfSwitch
Next ==
  \/ Cow!Next /\ OfCow
  \/ lab = "cost" /\ Cost!Next /\ UNCHANGED <<lab, cowVars, samplingVars, switchVars>>
  \/ lab = "sampling" /\ Sampling!Next /\ UNCHANGED <<lab, kernelVars, cowVars, costVars, switchVars>>
  \/ Switch!Next /\ OfSwitch

\* The two processes of cow.c, and those of context_switch.c, are scheduled.
Spec ==
  /\ Init /\ [][Next]_vars
  /\ WF_vars(CowParent) /\ WF_vars(CowChild)
  /\ WF_vars(SwitchParent) /\ WF_vars(SwitchChild)

-----------------------------------------------------------------------------
(* Properties, explained where the labs' modules define them.               *)

\* context_switch.c: one byte goes round.
Lockstep == Switch!Lockstep

\* context_switch.c and cow.c: a parent that succeeds has measured all that it
\* says, and its child has succeeded too.
SuccessIsHonest == Switch!ReportHonest /\ Cow!SuccessHasRow

\* cow.c: fork gives the child memory of its own.
ImplementsPrivateMemory == Cow!ImplementsPrivateMemory

\* cow.c and context_switch.c: nobody waits for ever.
ProcessesEnd == (lab = "cow" => <>Cow!Ended) /\ (lab = "switch" => Switch!BothEnd)

\* cow.c and page_fault_cost_breakdown.c: the faults in a row are those that
\* its mode causes in the buffer, and at most OtherFaults more.
FaultsPerMode == Cow!FaultsPerMode /\ Cost!FaultsPerMode

\* page_fault_cost_breakdown.c: private writes reach no later mode.
ModesDoNotInterfere == Cost!ModesDoNotInterfere

\* mmap-vs-read: a file that is trusted for its size is complete.
SampledFileIsComplete == Sampling!SampledFileIsComplete

\* mmap-vs-read: aligned chunks give both modes the same work.
SameWorkloadWhenAligned == Sampling!SameWorkloadWhenAligned
=============================================================================
