------------------------------ MODULE MmapRead --------------------------------
(***************************************************************************)
(* 03-os-boundary/02-mmap-vs-read: create a test file unless one of the    *)
(* wanted size is there, then sample it through read and through a mapping.*)
(* The program is started again and again, with other options, on the file *)
(* that earlier processes left: they may have been killed at any point, or *)
(* stopped by a short write.  The machine itself does not crash.           *)
(*                                                                         *)
(* A position of the file stands for a run of bytes.  1 MiB, the size of   *)
(* the buffer that is written again and again, is Buffer positions, and    *)
(* the bytes of the buffer are 0 .. Buffer - 1.                            *)
(***************************************************************************)
EXTENDS Naturals, Sequences, Functions, FiniteSetsExt

CONSTANTS
  Buffer,
  MaxMB,     \* FILE_MB, at most
  MaxSpan,   \* CHUNK_KB and STRIDE_BYTES, at most
  Repeats,   \* REPEATS
  MaxStarts  \* bound: how often the program is started

VARIABLES
  file,       \* what is in the file; nothing if there is none
  starts,
  cfg,        \* the options of the process that runs
  pc,
  remaining,  \* of the file to be written
  pos,        \* the file offset of the descriptor
  iter,       \* the iteration, the warm-up included
  result      \* by mode, the positions sampled and the sum of their bytes
vars == <<file, starts, cfg, pc, remaining, pos, iter, result>>

Options == [size : {Buffer * mb : mb \in 0 .. MaxMB}, chunk : 1 .. MaxSpan,
            stride : 1 .. MaxSpan, warmup : 0 .. 1]
Nothing == [mode \in {"read", "mmap"} |-> [at |-> {}, samples |-> 0, checksum |-> 0]]
FullBuffer == [k \in 1 .. Buffer |-> k - 1]

Init ==
  /\ file = <<>>
  /\ starts = 0
  /\ cfg = CHOOSE o \in Options : TRUE
  /\ pc = "ended"
  /\ remaining = 0 /\ pos = 0 /\ iter = 0
  /\ result = Nothing

\* main, to the end of the option checks.
Start ==
  /\ pc = "ended"
  /\ starts < MaxStarts
  /\ starts' = starts + 1
  /\ cfg' \in Options
  /\ pc' = "prepare"
  /\ remaining' = 0 /\ pos' = 0 /\ iter' = 0
  /\ result' = Nothing
  /\ UNCHANGED file

\* exit, whatever the status, or a signal.
End == pc' = "ended" /\ UNCHANGED <<starts, cfg, remaining, pos, iter, result>>
Killed == pc # "ended" /\ End /\ UNCHANGED file

-----------------------------------------------------------------------------
(* create_test_file                                                         *)

\* What O_CREAT | O_TRUNC leaves of an old file.
NotTruncated == file
Truncated == <<>>

\* file_exists_with_size, and the open.
Prepare ==
  /\ pc = "prepare"
  /\ IF Len(file) = cfg.size
       THEN pc' = "read" /\ UNCHANGED <<file, remaining>>
       ELSE pc' = "write" /\ file' = Truncated /\ remaining' = cfg.size
  /\ UNCHANGED <<starts, cfg, pos, iter, result>>

Wanted == Min({remaining, Buffer})

WriteChunk ==
  /\ pc = "write"
  /\ remaining > 0
  /\ file' = file \o SubSeq(FullBuffer, 1, Wanted)
  /\ remaining' = remaining - Wanted
  /\ UNCHANGED <<starts, cfg, pc, pos, iter, result>>

\* write fails or writes less: the program gives up.
ShortWrite ==
  /\ pc = "write"
  /\ \E n \in 0 .. Wanted - 1 : file' = file \o SubSeq(FullBuffer, 1, n)
  /\ End

\* fsync, which may fail, and close.
FileComplete ==
  /\ pc = "write"
  /\ remaining = 0
  /\ \/ pc' = "read" /\ UNCHANGED <<starts, cfg, remaining, pos, iter, result>>
     \/ End
  /\ UNCHANGED file

-----------------------------------------------------------------------------
(* The two modes.                                                           *)

\* The offsets 0, stride, ... below n.
StridesAfterFirst(n) == {off \in 1 .. n - 1 : off % cfg.stride = 0}
Strides(n) == {off \in 0 .. n - 1 : off % cfg.stride = 0}

\* A loop that samples n bytes from a base on, added to a result.
Sample(r, base, n) ==
  [at |-> r.at \cup {base + off : off \in Strides(n)},
   samples |-> r.samples + Cardinality(Strides(n)),
   checksum |-> r.checksum + SumFunction([off \in Strides(n) |-> file[base + off + 1]])]

\* One read of bench_read_mode and the loop over what it returned.
ReadChunk ==
  /\ pc = "read"
  /\ pos < Len(file)
  /\ LET n == Min({cfg.chunk, Len(file) - pos})
     IN /\ result' = [result EXCEPT !["read"] = Sample(@, pos, n)]
        /\ pos' = pos + n
  /\ UNCHANGED <<file, starts, cfg, pc, remaining, iter>>

ReadEnd ==
  /\ pc = "read"
  /\ pos = Len(file)
  /\ pc' = "mmap"
  /\ UNCHANGED <<file, starts, cfg, remaining, pos, iter, result>>

\* bench_mmap_mode, and the two rows unless this was the warm-up.
MapAndSample ==
  /\ pc = "mmap"
  /\ Len(file) = cfg.size
  /\ cfg.size > 0
  /\ result' = [result EXCEPT !["mmap"] = Sample(@, 0, cfg.size)]
  /\ pc' = "rows"
  /\ UNCHANGED <<file, starts, cfg, remaining, pos, iter>>

\* "File size mismatch", and mmap, which takes no length of 0.
MapFails ==
  /\ pc = "mmap"
  /\ Len(file) # cfg.size \/ cfg.size = 0
  /\ End
  /\ UNCHANGED file

\* The next iteration, which opens the file again, or the end.
NextIteration ==
  /\ pc = "rows"
  /\ IF iter + 1 < cfg.warmup + Repeats
       THEN /\ iter' = iter + 1
            /\ pos' = 0
            /\ result' = Nothing
            /\ pc' = "read"
            /\ UNCHANGED <<starts, cfg, remaining>>
       ELSE End
  /\ UNCHANGED file

-----------------------------------------------------------------------------
NoMoreStarts == pc = "ended" /\ starts = MaxStarts /\ UNCHANGED vars
Next ==
  \/ Start \/ Killed \/ Prepare \/ WriteChunk \/ ShortWrite \/ FileComplete
  \/ ReadChunk \/ ReadEnd \/ MapAndSample \/ MapFails \/ NextIteration
  \/ NoMoreStarts
Spec == Init /\ [][Next]_vars

-----------------------------------------------------------------------------
(* Properties.                                                              *)

\* "A deterministic pattern": file_exists_with_size trusts any file that has
\* the size, and rightly so: whatever earlier processes, wanting whatever
\* sizes, were killed or stopped half-way, a file of the wanted size has the
\* wanted bytes when it is sampled, and the size is the one that is mapped.
SampledFileIsComplete ==
  pc \in {"read", "mmap", "rows"} =>
    file = [k \in 1 .. cfg.size |-> (k - 1) % Buffer]

\* "Both modes scan the same offsets to ensure identical workload": they do
\* when a chunk is a whole number of strides, each offset once, up to the end.
SameWorkloadWhenAligned ==
  pc = "rows" /\ cfg.chunk % cfg.stride = 0 =>
    /\ result["read"] = result["mmap"]
    /\ result["mmap"].at = {k \in 0 .. cfg.size - 1 : \E m \in 0 .. cfg.size : k = m * cfg.stride}
    /\ result["mmap"].samples = Cardinality(result["mmap"].at)

\* "Both modes scan the same offsets to ensure identical workload" (result.md),
\* whatever the chunk.
SameOffsets == pc = "rows" => result["read"].at = result["mmap"].at
=============================================================================
