---------------------------- MODULE PrivateMemory -----------------------------
(***************************************************************************)
(* What fork promises to a process: the memory it has is its own.  The     *)
(* child starts with a copy of its parent's memory, made at once, and no   *)
(* write of one process is ever seen by another.                           *)
(***************************************************************************)
CONSTANTS Processes, Pages, Bytes

VARIABLE memory  \* of each process that has any

Init == memory = <<>>

Allocate(p) ==
  /\ p \notin DOMAIN memory
  /\ memory' = [q \in DOMAIN memory \cup {p} |->
                  IF q = p THEN [page \in Pages |-> 0] ELSE memory[q]]
Fork(p, child) ==
  /\ p \in DOMAIN memory /\ child \notin DOMAIN memory
  /\ memory' = [q \in DOMAIN memory \cup {child} |-> memory[IF q = child THEN p ELSE q]]
Write(p, page, value) ==
  /\ p \in DOMAIN memory
  /\ memory' = [memory EXCEPT ![p][page] = value]
Release(p) ==
  /\ p \in DOMAIN memory
  /\ memory' = [q \in DOMAIN memory \ {p} |-> memory[q]]

Next ==
  \E p \in Processes :
    \/ Allocate(p)
    \/ \E child \in Processes : Fork(p, child)
    \/ \E page \in Pages, value \in Bytes : Write(p, page, value)
    \/ Release(p)
Spec == Init /\ [][Next]_memory
=============================================================================
