---------------------------- MODULE TinySegmenter -----------------------------
(***************************************************************************)
(* tinyseg.js: the Japanese segmenter of the site's search.  It slides a   *)
(* window of six characters over the padded input and decides from their   *)
(* score, and from its last three decisions, whether a word ends.          *)
(*                                                                         *)
(* The score is a sum of some forty table entries; here it is any function *)
(* of what they are looked up by that a constant picks.                    *)
(***************************************************************************)
EXTENDS Naturals, SequencesExt

CONSTANTS
  Inputs,
  Scorers,          \* of tables
  Positive(_, _, _) \* score > 0, with a scorer, for a window and the decisions

VARIABLES
  scorer, input,
  pc, at,      \* the loop index i
  word, result,
  decisions    \* p1, p2, p3
vars == <<scorer, input, pc, at, word, result, decisions>>

\* seg.
Padding == 3
PaddedAtEnd(s) == <<"B1">> \o s \o <<"E1", "E2", "E3">>
Padded(s) == <<"B3", "B2", "B1">> \o s \o <<"E1", "E2", "E3">>
seg(k) == Padded(input)[k + 1]   \* from 0, as in the code

Init ==
  /\ scorer \in Scorers
  /\ input \in Inputs
  /\ pc = "start"
  /\ at = 0
  /\ word = <<>>
  /\ result = <<>>
  /\ decisions = <<"U", "U", "U">>

\* segment, up to the loop.
Start ==
  /\ pc = "start"
  /\ IF input = <<>>
       THEN pc' = "returned" /\ UNCHANGED <<at, word>>
       ELSE /\ pc' = "scan"
            /\ word' = <<seg(Padding)>>
            /\ at' = Padding + 1
  /\ UNCHANGED <<scorer, input, result, decisions>>

Window == [k \in 1 .. 6 |-> seg(at - 4 + k)]   \* w1 .. w6

\* One round of the loop.
Scan ==
  /\ pc = "scan"
  /\ at < Len(Padded(input)) - 3
  /\ LET ends == Positive(scorer, Window, decisions) IN
     /\ result' = IF ends THEN Append(result, word) ELSE result
     /\ word' = (IF ends THEN <<>> ELSE word) \o <<seg(at)>>
     /\ decisions' = Append(Tail(decisions), IF ends THEN "B" ELSE "O")
  /\ at' = at + 1
  /\ UNCHANGED <<scorer, input, pc>>

Return ==
  /\ pc = "scan"
  /\ at >= Len(Padded(input)) - 3
  /\ result' = Append(result, word)
  /\ pc' = "returned"
  /\ UNCHANGED <<scorer, input, at, word, decisions>>

Finished == pc = "returned" /\ UNCHANGED vars
Next == Start \/ Scan \/ Return \/ Finished
Spec == Init /\ [][Next]_vars

-----------------------------------------------------------------------------
(* Property.                                                                *)

\* Whatever the tables decide, the words of an input are not empty and make
\* up the input: the window's offsets and the padding fit each other.
WordsJoinToInput ==
  pc = "returned" =>
    /\ FlattenSeq(result) = input
    /\ \A k \in DOMAIN result : result[k] # <<>>
=============================================================================
