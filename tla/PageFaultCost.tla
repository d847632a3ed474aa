---------------------------- MODULE PageFaultCost -----------------------------
(***************************************************************************)
(* 03-os-boundary/04-page-fault-cost-breakdown: write a backing file, then *)
(* for each of seven modes map a buffer, touch its pages in a measured     *)
(* section, and record the faults and the sum of the bytes; each mode runs *)
(* a number of times to warm up and a number of times for the table.       *)
(*                                                                         *)
(* Any call that the program checks may fail, which ends it.  The page     *)
(* size of the options is that of the machine, the default.                *)
(***************************************************************************)
EXTENDS VirtualMemory, Sequences

CONSTANTS Warmup, Repeats   \* --warmup, --repeats

VARIABLES
  build,   \* how `p[off] = p[off] + 1u` was built
  pc,
  mode,    \* the index of the mode that runs
  run,     \* its warm-up runs and repeats so far
  i,       \* the loop index, here and in create_backing_file
  before,  \* min_before, the buffer's part
  sum,
  table    \* the rows of the CSV file
cost == <<build, pc, mode, run, i, before, sum, table>>
vars == <<kernel, cost>>

P == "lab"
Modes == <<"anon_read_first", "anon_write_first", "anon_read_second", "file_read_first",
           "file_read_second", "file_write_private_first", "file_read_populate">>
Current == Modes[mode]

Init ==
  /\ KernelInit
  /\ build \in Builds
  /\ pc = "create"
  /\ mode = 1 /\ run = 0 /\ i = 0 /\ before = 0 /\ sum = 0
  /\ table = <<>>

-----------------------------------------------------------------------------
\* The first byte of the pattern that fill_pattern puts into every page.
Pattern == 17

\* One pwrite of create_backing_file, and the fsync after the last.
WriteFile ==
  /\ pc = "create"
  /\ i < NumPages
  /\ byte' = [byte EXCEPT ![Cached(i)] = Pattern]
  /\ i' = i + 1
  /\ UNCHANGED <<flags, pt, minflt, build, pc, mode, run, before, sum, table>>

FileWritten ==
  /\ pc = "create"
  /\ i = NumPages
  /\ pc' = "map"
  /\ UNCHANGED <<kernel, build, mode, run, i, before, sum, table>>

\* die_perror: a pwrite, an open, a mmap, a munmap fails.
Fail ==
  /\ pc \in {"create", "map", "unmap"}
  /\ pc' = "failed"
  /\ UNCHANGED <<kernel, build, mode, run, i, before, sum, table>>

-----------------------------------------------------------------------------
(* One run of a mode.                                                       *)

FlagsOf(m) ==
  CASE m \in {"anon_read_first", "anon_write_first", "anon_read_second"} ->
         {"MAP_PRIVATE", "MAP_ANONYMOUS"}
    [] m = "file_read_populate" -> {"MAP_PRIVATE", "MAP_POPULATE"}
    [] OTHER -> {"MAP_PRIVATE"}

\* What a mode does to every page before its measured section, and in it.
FirstPassForgotten(m) == "nothing"
FirstPass(m) == CASE m = "anon_read_second" -> "update"
                  [] m = "file_read_second" -> "load"
                  [] OTHER -> "nothing"
MeasuredPass(m) == IF m \in {"anon_write_first", "file_write_private_first"} THEN "update"
                   ELSE "load"

MapBuffer ==
  /\ pc = "map"
  /\ Map(P, FlagsOf(Current))
  /\ pc' = IF FirstPass(Current) = "nothing" THEN "start" ELSE "first"
  /\ i' = 0
  /\ UNCHANGED <<build, mode, run, before, sum, table>>

\* One round of touch_read_pages or touch_write_pages, or a fault.
Touch(access) ==
  LET value == IF access = "load" THEN Seen(P, i) ELSE (Seen(P, i) + 1) % 256 IN
  /\ i < NumPages
  /\ \/ /\ IF access = "load" THEN LoadFault(P, i) ELSE UpdateFault(P, i, build)
        /\ UNCHANGED cost
     \/ /\ IF access = "load" THEN Present(P, i) /\ UNCHANGED kernel
                              ELSE Store(P, i, value)
        /\ sum' = sum + value
        /\ i' = i + 1
        /\ UNCHANGED <<build, pc, mode, run, before, table>>

FirstTouch == pc = "first" /\ Touch(FirstPass(Current))
FirstDone ==
  /\ pc = "first"
  /\ i = NumPages
  /\ pc' = "start"
  /\ UNCHANGED <<kernel, build, mode, run, i, before, sum, table>>

\* Where the sum starts.
SumKept == sum
SumReset == 0

StartMeasuring ==
  /\ pc = "start"
  /\ before' = minflt[P]
  /\ i' = 0
  /\ sum' = SumReset
  /\ pc' = "measured"
  /\ UNCHANGED <<kernel, build, mode, run, table>>

MeasuredTouch == pc = "measured" /\ Touch(MeasuredPass(Current))

\* The end of the section, and the count of the whole process; a repeat goes
\* into the table, a warm-up does not.
Record ==
  /\ pc = "measured"
  /\ i = NumPages
  /\ \/ run < Warmup /\ UNCHANGED table
     \/ /\ run >= Warmup
        /\ \E faults \in Grown(minflt[P], before) :
             table' = Append(table, [mode |-> Current, minflt |-> faults, checksum |-> sum])
  /\ pc' = "unmap"
  /\ UNCHANGED <<kernel, build, mode, run, i, before, sum>>

LastRun == run + 1 = Warmup + Repeats
UnmapBuffer ==
  /\ pc = "unmap"
  /\ Unmap(P)
  /\ run' = IF LastRun THEN 0 ELSE run + 1
  /\ mode' = IF LastRun THEN mode + 1 ELSE mode
  /\ pc' = IF LastRun /\ mode = Len(Modes) THEN "done" ELSE "map"
  /\ UNCHANGED <<build, i, before, sum, table>>

-----------------------------------------------------------------------------
Terminated == pc \in {"done", "failed"} /\ UNCHANGED vars
Next ==
  \/ WriteFile \/ FileWritten \/ Fail \/ MapBuffer \/ FirstTouch \/ FirstDone
  \/ StartMeasuring \/ MeasuredTouch \/ Record \/ UnmapBuffer \/ Terminated
Spec == Init /\ [][Next]_vars

-----------------------------------------------------------------------------
(* Properties.                                                              *)

\* "Not all page faults are equal" (result.md 4.1): what each mode counts, of
\* its own measured section only, whatever ran before it.  The buffer takes a
\* fault per page for first loads, one or two for first updates as the compiler
\* built them, fewer when the kernel maps the pages around a fault, and none
\* the second time or when it was populated; the rest of the process adds a few
\* that do not depend on the pages (the "~" of result.md's table).
Updates == IF build = "load_and_store" THEN 2 * NumPages ELSE NumPages
FewestFaults(m) ==
  CASE m = "anon_read_first" -> NumPages
    [] m = "anon_write_first" -> Updates
    [] m = "file_read_first" -> 1
    [] m = "file_write_private_first" -> IF build = "load_and_store" THEN NumPages + 1 ELSE Updates
    [] OTHER -> 0
MostFaults(m) ==
  CASE m \in {"anon_read_first", "file_read_first"} -> NumPages
    [] m \in {"anon_write_first", "file_write_private_first"} -> Updates
    [] OTHER -> 0
FaultsPerMode ==
  \A r \in DOMAIN table :
    table[r].minflt \in FewestFaults(table[r].mode) .. MostFaults(table[r].mode) + OtherFaults

\* The file is only ever mapped privately: the modes that write do not change
\* what the modes after them, and their own repeats, read.  Every row of a
\* mode has the checksum of a fresh buffer or of the file as it was written.
ModesDoNotInterfere ==
  /\ \A r \in DOMAIN table :
       table[r].checksum = NumPages *
         CASE table[r].mode = "anon_read_first" -> 0
           [] table[r].mode \in {"anon_write_first", "anon_read_second"} -> 1
           [] table[r].mode = "file_write_private_first" -> Pattern + 1
           [] OTHER -> Pattern
  /\ pc = "done" => Len(table) = Len(Modes) * Repeats
=============================================================================
