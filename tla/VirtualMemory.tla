---------------------------- MODULE VirtualMemory -----------------------------
(***************************************************************************)
(* The part of the kernel that the memory labs of 03-os-boundary measure:  *)
(* page tables, page faults and frames.  It is external to the repository  *)
(* and modelled from how copy-on-write/src/cow.c and                       *)
(* page_fault_cost_breakdown.c use it.                                     *)
(*                                                                         *)
(* A process maps at most one buffer.  The one byte of a page that the     *)
(* labs touch stands for the page.  There is no memory pressure: a page    *)
(* that is present stays present, and the file stays in the page cache.    *)
(*                                                                         *)
(* getrusage counts the faults of a whole process: those of its buffer,    *)
(* which are modelled, and those of its stack and its libraries, which are *)
(* any number up to OtherFaults in a measured section.                     *)
(***************************************************************************)
EXTENDS Naturals, FiniteSets

CONSTANTS
  Processes,
  NumPages,    \* of a buffer, and of the file
  OtherFaults  \* the most that a process takes beside its buffer in a measured section

Pages == 0 .. NumPages - 1
Zero == <<"zero", 0>>                  \* the frame of zeroes that all may share
Cached(page) == <<"cache", page>>      \* the page of the file in the page cache
AnonFrames == {"anon"} \X (1 .. NumPages * Cardinality(Processes))
Frames == {Zero} \cup {Cached(page) : page \in Pages} \cup AnonFrames

VARIABLES
  flags,   \* the mmap flags of each process's buffer; {} when it has none
  pt,      \* the page-table entries present in each process
  byte,    \* what is in each frame
  minflt   \* the part of each process's ru_minflt that its buffer has caused
kernel == <<flags, pt, byte, minflt>>

KernelInit ==
  /\ flags = [p \in Processes |-> {}]
  /\ pt = [p \in Processes |-> <<>>]
  /\ byte = [f \in Frames |-> 0]
  /\ minflt = [p \in Processes |-> 0]

Entry(frame, writable) == [frame |-> frame, writable |-> writable]
\* The page table `table` with the entries `new`, which replace older ones.
Updated(table, new) == [page \in DOMAIN table \cup DOMAIN new |->
                         IF page \in DOMAIN new THEN new[page] ELSE table[page]]
Present(p, page) == page \in DOMAIN pt[p]
Writable(p, page) == Present(p, page) /\ pt[p][page].writable
Mappers(frame) == {m \in Processes \X Pages : Present(m[1], m[2]) /\ pt[m[1]][m[2]].frame = frame}

\* What process p sees at a page of its buffer.
Seen(p, page) ==
  IF Present(p, page) THEN byte[pt[p][page].frame]
  ELSE IF "MAP_ANONYMOUS" \in flags[p] THEN 0
  ELSE byte[Cached(page)]

\* What ru_minflt may have grown by since `buffer` was `before`.
Grown(buffer, before) == {buffer - before + other : other \in 0 .. OtherFaults}

-----------------------------------------------------------------------------
(* System calls.  Each leaves minflt alone: what they fault in is not in    *)
(* the measured sections.                                                   *)

Map(p, how) ==
  /\ flags' = [flags EXCEPT ![p] = how]
  /\ pt' = [pt EXCEPT ![p] = IF "MAP_POPULATE" \in how
                               THEN [page \in Pages |-> Entry(Cached(page), FALSE)]
                               ELSE <<>>]
  /\ UNCHANGED <<byte, minflt>>

\* munmap, and the end of a process.
Unmap(p) ==
  /\ flags' = [flags EXCEPT ![p] = {}]
  /\ pt' = [pt EXCEPT ![p] = <<>>]
  /\ UNCHANGED <<byte, minflt>>

\* fork: a private buffer is write-protected on both sides.
ForkMemory(p, child) ==
  LET copy == [page \in DOMAIN pt[p] |->
                 [pt[p][page] EXCEPT !.writable = @ /\ "MAP_PRIVATE" \notin flags[p]]]
  IN /\ flags' = [flags EXCEPT ![child] = flags[p]]
     /\ pt' = [pt EXCEPT ![p] = copy, ![child] = copy]
     /\ minflt' = [minflt EXCEPT ![child] = 0]
     /\ UNCHANGED byte

-----------------------------------------------------------------------------
(* Faults.  The access that faulted is made again afterwards.               *)

\* A load from a page that is not present.  The kernel may map the cached
\* pages around it as well.
LoadFault(p, page) ==
  /\ ~Present(p, page)
  /\ \/ /\ "MAP_ANONYMOUS" \in flags[p]
        /\ pt' = [pt EXCEPT ![p] = Updated(@, [q \in {page} |-> Entry(Zero, FALSE)])]
     \/ /\ "MAP_ANONYMOUS" \notin flags[p]
        /\ \E around \in SUBSET (Pages \ DOMAIN pt[p]) :
             /\ page \in around
             /\ pt' = [pt EXCEPT ![p] = Updated(@, [q \in around |-> Entry(Cached(q), FALSE)])]
  /\ minflt' = [minflt EXCEPT ![p] = @ + 1]
  /\ UNCHANGED <<flags, byte>>

\* A store to a page that is absent or write-protected: the sole user of a
\* frame keeps it, the others get a copy in a free frame.
StoreFault(p, page) ==
  /\ ~Writable(p, page)
  /\ \/ /\ Present(p, page)
        /\ pt[p][page].frame \in AnonFrames
        /\ Mappers(pt[p][page].frame) = {<<p, page>>}
        /\ pt' = [pt EXCEPT ![p][page].writable = TRUE]
        /\ UNCHANGED byte
     \/ /\ Present(p, page) => pt[p][page].frame \notin AnonFrames
                               \/ Mappers(pt[p][page].frame) # {<<p, page>>}
        /\ LET new == CHOOSE f \in AnonFrames : Mappers(f) = {}
           IN /\ byte' = [byte EXCEPT ![new] = Seen(p, page)]
              /\ pt' = [pt EXCEPT ![p] = Updated(@, [q \in {page} |-> Entry(new, TRUE)])]
  /\ minflt' = [minflt EXCEPT ![p] = @ + 1]
  /\ UNCHANGED flags

Store(p, page, value) ==
  /\ Writable(p, page)
  /\ byte' = [byte EXCEPT ![pt[p][page].frame] = value]
  /\ UNCHANGED <<flags, pt, minflt>>

\* A read-modify-write of one byte, as one instruction or as a load and a
\* store: with a load, the page is there before the store faults.
Builds == {"one_instruction", "load_and_store"}
UpdateFault(p, page, build) ==
  \/ build = "load_and_store" /\ LoadFault(p, page)
  \/ (build = "one_instruction" \/ Present(p, page)) /\ StoreFault(p, page)
=============================================================================
