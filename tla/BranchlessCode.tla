--------------------------- MODULE BranchlessCode ----------------------------
(***************************************************************************)
(* 05-cpu-microarchitecture/04-branchless-code: fill an array whose        *)
(* elements fall on a chosen side of a threshold, count those at or above  *)
(* it, and add up their weights with a branch or with arithmetic.          *)
(*                                                                         *)
(* Words are unsigned and wrap at UINT32_MAX, which is a parameter.        *)
(* xorshift32 is some word that is not 0 (it maps the nonzero words onto   *)
(* themselves, and its seed is one of them).  Timing is left out.          *)
(***************************************************************************)
EXTENDS Naturals, Sequences, FiniteSets, Functions

CONSTANTS
  UINT32_MAX,
  Rare,        \* one element in Rare is the exception of a mostly_ pattern: 64
  MaxWeight,   \* the weights are 1 .. MaxWeight: 1024
  Elements,    \* --elements
  Repeats,     \* --repeats
  Warmup       \* --warmup

ASSUME BranchlessAssumption ==
  /\ UINT32_MAX \in Nat \ {0} /\ Rare \in Nat \ {0} /\ MaxWeight \in Nat \ {0}
  /\ Elements \in Nat /\ Repeats \in Nat /\ Warmup \in Nat

Patterns == {"random50", "mostly_false", "mostly_true", "alternating"}
Modes == {"branchy", "branchless"}
Words == 0 .. UINT32_MAX
Random == 1 .. UINT32_MAX

VARIABLES
  my_mode, pattern, threshold,  \* the options
  place,     \* where main is
  data, weights,                \* the arrays, as far as they are filled
  takes,     \* the indices filled with take
  hits,      \* what count_hits returned
  checksum,  \* main's checksum, as the set of sums XORed in an odd number
             \* of times
  passes     \* the warm-up passes made
branchVars ==
  <<my_mode, pattern, threshold, place, data, weights, takes, hits, checksum, passes>>

BranchInit ==
  /\ my_mode \in Modes
  /\ pattern \in Patterns
  /\ threshold \in Words
  /\ place = "fill"
  /\ data = <<>>
  /\ weights = <<>>
  /\ takes = {}
  /\ hits = 0
  /\ checksum = {}
  /\ passes = 0

-----------------------------------------------------------------------------
(* fill_pattern.                                                            *)

\* The values of take that the pattern allows for element i; xorshift32 is
\* called for all but the last.
Take(i) ==
  CASE pattern = "random50" -> {r % 2 = 1 : r \in Random}
    [] pattern = "mostly_false" -> {r % Rare = 0 : r \in Random}
    [] pattern = "mostly_true" -> {r % Rare # 0 : r \in Random}
    [] pattern = "alternating" -> {i % 2 = 1}

\* span, and the modulus that the remainder is taken by: a 32-bit sum.
Span == UINT32_MAX - threshold
ModulusOneMore == Span + 2
Modulus == (Span + 1) % (UINT32_MAX + 1)

\* `r % Modulus` or `r % threshold` is there to be evaluated.
Divides(take) ==
  take /\ threshold # UINT32_MAX /\ Span # 0 => Modulus # 0

\* The value of an element that is to be taken, or not to be.
Above(r) == IF threshold = UINT32_MAX THEN UINT32_MAX
            ELSE (threshold + (IF Span # 0 THEN r % Modulus ELSE 0)) % (UINT32_MAX + 1)
Below(r) == IF threshold = 0 THEN 0 ELSE r % threshold

\* One round of the loop.
Fill ==
  /\ place = "fill"
  /\ Len(data) < Elements
  /\ \E take \in Take(Len(data)), r \in Random, w \in 1 .. MaxWeight :
       /\ Divides(take)
       /\ data' = Append(data, IF take THEN Above(r) ELSE Below(r))
       /\ weights' = Append(weights, w)
       /\ takes' = IF take THEN takes \cup {Len(data) + 1} ELSE takes
  /\ UNCHANGED <<my_mode, pattern, threshold, place, hits, checksum, passes>>

\* A division by zero ends the program.
Trap ==
  /\ place = "fill"
  /\ Len(data) < Elements
  /\ \E take \in Take(Len(data)) : ~Divides(take)
  /\ place' = "trapped"
  /\ UNCHANGED <<my_mode, pattern, threshold, data, weights, takes, hits, checksum, passes>>

-----------------------------------------------------------------------------
(* The passes over the array.                                               *)

AtLeast(x) == x >= threshold

CountHits ==
  /\ place = "fill"
  /\ Len(data) = Elements
  /\ hits' = Cardinality({i \in 1 .. Elements : AtLeast(data[i])})
  /\ place' = "warmup"
  /\ UNCHANGED <<my_mode, pattern, threshold, data, weights, takes, checksum, passes>>

RunBranchy(n) ==
  n * SumFunction([i \in {j \in 1 .. Elements : data[j] >= threshold} |-> weights[i]])
RunBranchless(n) ==
  n * SumFunction([i \in 1 .. Elements |->
                     (IF data[i] >= threshold THEN 1 ELSE 0) * weights[i]])
Run(n) == IF my_mode = "branchy" THEN RunBranchy(n) ELSE RunBranchless(n)

\* checksum ^= x.
Xor(x) == checksum' = IF x \in checksum THEN checksum \ {x} ELSE checksum \cup {x}

WarmupPass ==
  /\ place = "warmup"
  /\ passes < Warmup
  /\ passes' = passes + 1
  /\ Xor(Run(1))
  /\ UNCHANGED <<my_mode, pattern, threshold, place, data, weights, takes, hits>>

\* The timed call, and the report.
Measure ==
  /\ place = "warmup"
  /\ passes = Warmup
  /\ Xor(Run(Repeats))
  /\ place' = "reported"
  /\ UNCHANGED <<my_mode, pattern, threshold, data, weights, takes, hits, passes>>

-----------------------------------------------------------------------------
Returned == place \in {"reported", "trapped"} /\ UNCHANGED branchVars
BranchNext == Fill \/ Trap \/ CountHits \/ WarmupPass \/ Measure \/ Returned
BranchSpec == BranchInit /\ [][BranchNext]_branchVars

-----------------------------------------------------------------------------
(* Properties.                                                              *)

\* "Build a value guaranteed to be either below threshold or at/above
\* threshold" (fill_pattern): the elements counted as hits, and those whose
\* weights are added in either mode, are the ones the pattern chose.  With
\* threshold 0 "everything is >= threshold".
HitsMatchPattern ==
  place \in {"warmup", "reported"} =>
    /\ hits = IF threshold = 0 THEN Elements ELSE Cardinality(takes)
    /\ \A n \in {1, Repeats} : RunBranchy(n) = RunBranchless(n)
    /\ threshold > 0 =>
         RunBranchy(1) = SumFunction([i \in takes |-> weights[i]])

\* "Edge-case handling: threshold == 0 => everything is >= threshold": the
\* array is filled whatever the threshold.
EveryThresholdHandled == place # "trapped"
=============================================================================
