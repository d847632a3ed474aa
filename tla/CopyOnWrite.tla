----------------------------- MODULE CopyOnWrite ------------------------------
(***************************************************************************)
(* 03-os-boundary/03-copy-on-write: the parent maps a private buffer,      *)
(* touches its pages if asked to, and forks; the child reads or writes one *)
(* byte of each page, counts its page faults, prints one row and exits;    *)
(* the parent waits for it and passes its failure on.                      *)
(*                                                                         *)
(* mmap and fork may fail, and either process may be killed at any point,  *)
(* the child by the kernel too when no frame is left for a copy.           *)
(***************************************************************************)
EXTENDS VirtualMemory, Sequences

Values == 0 .. 255
Family == {"parent", "child"}   \* this lab's processes

VARIABLES
  option,  \* mode, WARMUP, and how the compiler built `^= 1u`
  pc,
  i,       \* the loop index of each process
  before,  \* ru_before.ru_minflt, the buffer's part
  rows,    \* the fault counts printed
  exit     \* how each process ended
cow == <<option, pc, i, before, rows, exit>>
vars == <<kernel, cow>>

Alive(p) == exit[p] = "running"

Init ==
  /\ KernelInit
  /\ option \in [mode : {"read", "write"}, warmup : BOOLEAN, build : Builds]
  /\ pc = [p \in Family |-> IF p = "parent" THEN "mmap" ELSE "not_forked"]
  /\ i = [p \in Family |-> 0]
  /\ before = 0
  /\ rows = <<>>
  /\ exit = [p \in Family |-> "running"]

Goto(p, label) == pc' = [pc EXCEPT ![p] = label]

\* The process ends, and the kernel takes its memory back.
End(p, status) ==
  /\ exit' = [exit EXCEPT ![p] = status]
  /\ Goto(p, "ended")
  /\ Unmap(p)
  /\ UNCHANGED <<option, i, before, rows>>

Kill(p) == Alive(p) /\ pc[p] # "not_forked" /\ End(p, "killed")

-----------------------------------------------------------------------------
(* The parent, before the fork.                                             *)

MapFlagsShared == {"MAP_SHARED", "MAP_ANONYMOUS"}
MapFlags == {"MAP_PRIVATE", "MAP_ANONYMOUS"}

MapBuffer ==
  /\ pc["parent"] = "mmap"
  /\ Map("parent", MapFlags)
  /\ Goto("parent", IF option.warmup THEN "warmup" ELSE "fork")
  /\ UNCHANGED <<option, i, before, rows, exit>>

\* mmap or fork fails: main fails.
SetupFails ==
  /\ pc["parent"] \in {"mmap", "fork"}
  /\ End("parent", "failure")

\* The pages that warmup_pages touches.
WarmedAllButLast == Pages \ {NumPages - 1}
Warmed == Pages

\* One store of warmup_pages, or the fault it meets.
WarmupPage ==
  /\ pc["parent"] = "warmup"
  /\ i["parent"] \in Warmed
  /\ \/ StoreFault("parent", i["parent"]) /\ UNCHANGED cow
     \/ /\ Store("parent", i["parent"], i["parent"] % 256)
        /\ i' = [i EXCEPT !["parent"] = @ + 1]
        /\ UNCHANGED <<option, pc, before, rows, exit>>

WarmupDone ==
  /\ pc["parent"] = "warmup"
  /\ i["parent"] \notin Warmed
  /\ Goto("parent", "fork")
  /\ UNCHANGED <<kernel, option, i, before, rows, exit>>

Fork ==
  /\ pc["parent"] = "fork"
  /\ ForkMemory("parent", "child")
  /\ pc' = [p \in Family |-> IF p = "parent" THEN "wait" ELSE "getrusage"]
  /\ UNCHANGED <<option, i, before, rows, exit>>

-----------------------------------------------------------------------------
(* run_child, and what the child does after it.                             *)

MeasureBefore ==
  /\ pc["child"] = "getrusage"
  /\ before' = minflt["child"]
  /\ Goto("child", "touch")
  /\ UNCHANGED <<kernel, option, i, rows, exit>>

Flip(b) == IF b % 2 = 0 THEN b + 1 ELSE b - 1

\* One round of touch_read_each_page or touch_write_each_page, or a fault.
TouchRead(page) == Present("child", page) /\ UNCHANGED kernel
TouchWrite(page) == Store("child", page, Flip(Seen("child", page)))
Touch ==
  /\ pc["child"] = "touch"
  /\ i["child"] \in Pages
  /\ LET page == i["child"] IN
     \/ /\ IF option.mode = "read" THEN LoadFault("child", page)
                                   ELSE UpdateFault("child", page, option.build)
        /\ UNCHANGED cow
     \/ /\ IF option.mode = "read" THEN TouchRead(page) ELSE TouchWrite(page)
        /\ i' = [i EXCEPT !["child"] = @ + 1]
        /\ UNCHANGED <<option, pc, before, rows, exit>>

\* The second getrusage, of the whole child, and print_csv_row, which flushes.
PrintRow ==
  /\ pc["child"] = "touch"
  /\ i["child"] \notin Pages
  /\ \E faults \in Grown(minflt["child"], before) : rows' = Append(rows, faults)
  /\ Goto("child", "munmap")
  /\ UNCHANGED <<kernel, option, i, before, exit>>

ChildExit == pc["child"] = "munmap" /\ End("child", "success")

\* exit(1): either getrusage or munmap fails, the last after the row.
ChildFails ==
  /\ pc["child"] \in {"getrusage", "munmap"} \/ (pc["child"] = "touch" /\ i["child"] \notin Pages)
  /\ End("child", "failure")

-----------------------------------------------------------------------------
(* The parent, after the fork.                                              *)

\* What main returns: `!WIFEXITED(status) || WEXITSTATUS(status) != 0`.
StatusIgnored == "success"
Status == IF exit["child"] = "success" THEN "success" ELSE "failure"

\* What waitpid waits for.
ChildExited == exit["child"] \in {"success", "failure"}
ChildEnded == ~Alive("child")

\* waitpid returns once the child has ended; munmap, which may fail, and the
\* exit.
Reap ==
  /\ pc["parent"] = "wait"
  /\ ChildEnded
  /\ \E status \in {Status, "failure"} : End("parent", status)

-----------------------------------------------------------------------------
Parent == MapBuffer \/ SetupFails \/ WarmupPage \/ WarmupDone \/ Fork \/ Reap
Child == MeasureBefore \/ Touch \/ PrintRow \/ ChildExit \/ ChildFails
Ended == ~Alive("parent") /\ (Alive("child") => pc["child"] = "not_forked")
Terminated == Ended /\ UNCHANGED vars
Next == Parent \/ Child \/ (\E p \in Family : Kill(p)) \/ Terminated

\* Both processes are scheduled; nothing has to fail or to be killed.
Fairness == WF_vars(Parent) /\ WF_vars(Child)
Spec == Init /\ [][Next]_vars /\ Fairness

-----------------------------------------------------------------------------
(* Properties.                                                              *)

\* "Parent and child logically have the same address space" after the fork,
\* and from then on each has its own, though the frames are shared until one
\* of them writes: sharing, write protection, copies and the reuse of a frame
\* whose other user is gone implement a copy made at once.
Private == INSTANCE PrivateMemory WITH
  Processes <- Family,
  Bytes <- Values,
  memory <- [p \in {q \in Family : flags[q] # {}} |-> [page \in Pages |-> Seen(p, page)]]
ImplementsPrivateMemory == Private!Spec

\* What the row says of the mode: the faults of the child's buffer are in it,
\* and the rest is the "small constant offset" from "runtime/library overhead"
\* of result.md, which does not depend on the pages.  "Read-only access should
\* usually avoid COW copies", a write costs "typically one" fault "per touched
\* page", and without the warm-up a load and a store of a page are a fault each.
BufferFaults ==
  CASE option.mode = "read" -> IF option.warmup THEN 0 ELSE NumPages
    [] option.mode = "write" ->
         IF ~option.warmup /\ option.build = "load_and_store" THEN 2 * NumPages ELSE NumPages
FaultsPerMode == rows # <<>> => rows[1] \in BufferFaults .. BufferFaults + OtherFaults

\* The parent's exit status, which is all run.sh looks at: a success means
\* that the child printed its row and left nothing half done.
SuccessHasRow ==
  exit["parent"] = "success" => Len(rows) = 1 /\ i["child"] = NumPages
=============================================================================
