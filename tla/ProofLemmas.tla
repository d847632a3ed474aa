----------------------------- MODULE ProofLemmas ------------------------------
(***************************************************************************)
(* Facts that the proofs about several components need.                    *)
(*                                                                         *)
(* Ring indices: advancing and comparing slots modulo a capacity.          *)
(*                                                                         *)
(* Sums over finite sets: the loops in which a program adds up its         *)
(* threads' counters are modelled with SumFunction of the community        *)
(* modules, which folds in whatever order CHOOSE gives; these lemmas say   *)
(* that the order does not matter, and how one counter that moves moves    *)
(* the sum.                                                                *)
(***************************************************************************)
EXTENDS Integers, Functions, FiniteSetTheorems, TLAPS

(* Ring indices.                                                            *)

\* An index in range is its own remainder, and one past the end is 0.
LEMMA ModSmall ==
  ASSUME NEW i \in Nat, NEW n \in Nat \ {0}
  PROVE  /\ i < n => i % n = i
         /\ n <= i /\ i < 2 * n => i % n = i - n
<1>1. ASSUME i < n PROVE i % n = i
  BY <1>1
<1>2. ASSUME n <= i, i < 2 * n PROVE i % n = i - n
  BY <1>2
<1> QED BY <1>1, <1>2

\* Advancing the tail after a push, and the head after a pop, keeps the tail
\* as many slots ahead of the head as there are items.
LEMMA RingIndices ==
  ASSUME NEW C \in Nat \ {0}, NEW h \in 0 .. C - 1, NEW n \in 0 .. C
  PROVE  /\ (h + 1) % C \in 0 .. C - 1
         /\ (h + n) % C \in 0 .. C - 1
         /\ n < C => (((h + n) % C) + 1) % C = (h + (n + 1)) % C
         /\ n > 0 => (((h + 1) % C) + (n - 1)) % C = (h + n) % C
<1> DEFINE g == (h + 1) % C
<1>0. C \in Nat \ {0} /\ h \in Nat /\ h < C /\ n \in Nat /\ n <= C
  OBVIOUS
<1>1. \A i \in Nat : /\ i < C => i % C = i
                     /\ C <= i /\ i < 2 * C => i % C = i - C
  BY <1>0, ModSmall
<1>2. g = (IF h + 1 < C THEN h + 1 ELSE 0)
  BY <1>0, <1>1
<1>3. (h + n) % C = (IF h + n < C THEN h + n ELSE h + n - C)
  BY <1>0, <1>1
<1> HIDE DEF g
<1>4. ASSUME n < C PROVE (((h + n) % C) + 1) % C = (h + (n + 1)) % C
  <2>1. CASE h + n < C
    BY <1>3, <2>1
  <2>2. CASE C <= h + n
    <3>1. ((h + n) % C) + 1 = h + n + 1 - C
      BY <1>0, <1>3, <2>2
    <3>2. (h + n + 1 - C) \in Nat /\ h + n + 1 - C < C
      BY <1>0, <1>4, <2>2
    <3>3. h + (n + 1) \in Nat /\ C <= h + (n + 1) /\ h + (n + 1) < 2 * C
      BY <1>0, <1>4, <2>2
    <3> QED BY <1>0, <1>1, <3>1, <3>2, <3>3
  <2> QED BY <1>0, <2>1, <2>2
<1>5. ASSUME n > 0 PROVE (g + (n - 1)) % C = (h + n) % C
  <2>1. CASE h + 1 < C
    BY <1>0, <1>2, <2>1
  <2>2. CASE h + 1 = C
    <3>1. g + (n - 1) = n - 1 /\ n - 1 \in Nat /\ n - 1 < C
      BY <1>0, <1>2, <1>5, <2>2
    <3>2. h + n \in Nat /\ C <= h + n /\ h + n < 2 * C /\ h + n - C = n - 1
      BY <1>0, <1>5, <2>2
    <3> QED BY <1>0, <1>1, <3>1, <3>2
  <2> QED BY <1>0, <2>1, <2>2
<1>6. g \in 0 .. C - 1
  BY <1>0, <1>2
<1>7. (h + n) % C \in 0 .. C - 1
  BY <1>0, <1>3
<1> QED BY <1>0, <1>4, <1>5, <1>6, <1>7 DEF g

\* Fewer than a whole turn apart, two places are two slots.
LEMMA RingDistinct ==
  ASSUME NEW C \in Nat \ {0}, NEW h \in 0 .. C - 1,
         NEW n \in 0 .. C - 1, NEW k \in 0 .. C - 1, n # k
  PROVE  (h + n) % C # (h + k) % C
<1>1. \A i \in Nat : /\ i < C => i % C = i
                     /\ C <= i /\ i < 2 * C => i % C = i - C
  BY ModSmall
<1>2. (h + n) % C = (IF h + n < C THEN h + n ELSE h + n - C)
  BY <1>1
<1>3. (h + k) % C = (IF h + k < C THEN h + k ELSE h + k - C)
  BY <1>1
<1> QED BY <1>2, <1>3

\* A number of turns and a remainder are the only ones.
LEMMA ModUnique ==
  ASSUME NEW n \in Nat \ {0}, NEW q \in Nat, NEW r \in 0 .. n - 1
  PROVE  (q * n + r) % n = r
OBVIOUS

\* Every number has some.
LEMMA ModTurns ==
  ASSUME NEW n \in Nat \ {0}, NEW i \in Nat
  PROVE  /\ i % n \in 0 .. n - 1
         /\ \E q \in Nat : i = q * n + (i % n)
<1>1. i \div n \in Nat /\ i = (i \div n) * n + (i % n) /\ i % n \in 0 .. n - 1
  OBVIOUS
<1> QED BY <1>1

\* Turns of one ring are turns of a ring that fits into it k times.
LEMMA ModMod ==
  ASSUME NEW n \in Nat \ {0}, NEW k \in Nat \ {0}, NEW i \in Nat
  PROVE  (i % (k * n)) % n = i % n
<1>0. k * n \in Nat \ {0}
  OBVIOUS
<1>1. PICK q \in Nat : i = q * (k * n) + (i % (k * n))
  BY <1>0, ModTurns
<1> DEFINE r == i % (k * n)
<1>2. r \in Nat
  BY <1>0, ModTurns
<1>3. PICK p \in Nat : r = p * n + (r % n)
  BY <1>2, ModTurns
<1>4. r % n \in 0 .. n - 1
  BY <1>2, ModTurns
<1> HIDE DEF r
<1>5. i = (q * k + p) * n + (r % n)
  <2>1. q * (k * n) = (q * k) * n
    OBVIOUS
  <2>2. (q * k + p) * n = (q * k) * n + p * n
    OBVIOUS
  <2>3. i = q * (k * n) + r
    BY <1>1 DEF r
  <2>4. (q * k) * n \in Nat /\ p * n \in Nat
    OBVIOUS
  <2> QED BY <1>2, <1>3, <1>4, <2>1, <2>2, <2>3, <2>4
<1>6. q * k + p \in Nat
  OBVIOUS
<1>7. i % n = r % n
  BY <1>4, <1>5, <1>6, ModUnique
<1> QED BY <1>7 DEF r

\* Going on for less than a turn passes the end of the ring at most once.
LEMMA ModAhead ==
  ASSUME NEW n \in Nat \ {0}, NEW i \in Nat, NEW d \in 0 .. n - 1
  PROVE  (i + d) % n = (IF (i % n) + d < n THEN (i % n) + d ELSE (i % n) + d - n)
<1>1. PICK q \in Nat : i = q * n + (i % n)
  BY ModTurns
<1> DEFINE r == i % n
<1>2. r \in Nat /\ r < n /\ r \in 0 .. n - 1
  BY ModTurns
<1>3. i = q * n + r /\ q * n \in Nat
  BY <1>1
<1> HIDE DEF r
<1>4. CASE r + d < n
  <2>1. i + d = q * n + (r + d) /\ r + d \in 0 .. n - 1
    BY <1>2, <1>3, <1>4
  <2>2. (i + d) % n = r + d
    BY <2>1, ModUnique
  <2> QED BY <1>2, <1>4, <2>2 DEF r
<1>5. CASE n <= r + d
  <2>1. i + d = (q + 1) * n + (r + d - n)
    <3>1. (q + 1) * n = q * n + n
      OBVIOUS
    <3> QED BY <1>2, <1>3, <3>1
  <2>2. r + d - n \in 0 .. n - 1 /\ q + 1 \in Nat
    BY <1>2, <1>5
  <2>3. (i + d) % n = r + d - n
    BY <2>1, <2>2, ModUnique
  <2> QED BY <1>2, <1>5, <2>3 DEF r
<1> QED BY <1>2, <1>4, <1>5

\* The remainders of two counts less than a turn apart show how far apart
\* they are.
LEMMA ModDistance ==
  ASSUME NEW n \in Nat \ {0}, NEW i \in Nat, NEW d \in 0 .. n - 1
  PROVE  (((i + d) % n) + n - (i % n)) % n = d
<1> DEFINE r == i % n
           s == (i + d) % n
<1>1. r \in Nat /\ r < n
  BY ModTurns
<1>2. s = (IF r + d < n THEN r + d ELSE r + d - n)
  BY ModAhead
<1> HIDE DEF r, s
<1>3. s + n - r = n + d \/ s + n - r = d
  BY <1>1, <1>2
<1>4. (n + d) % n = d /\ d % n = d
  OBVIOUS
<1>5. (s + n - r) % n = d
  BY <1>3, <1>4
<1> QED BY <1>5 DEF r, s

\* Two counts less than a turn apart with the same remainder are the same.
LEMMA ModApart ==
  ASSUME NEW n \in Nat \ {0}, NEW i \in Nat, NEW d \in 0 .. n - 1, (i + d) % n = i % n
  PROVE  d = 0
<1> DEFINE r == i % n
           s == (i + d) % n
<1>1. r \in Nat /\ r < n
  BY ModTurns
<1>2. s = (IF r + d < n THEN r + d ELSE r + d - n)
  BY ModAhead
<1>3. s = r
  OBVIOUS
<1> HIDE DEF r, s
<1> QED BY <1>1, <1>2, <1>3

\* A remainder stands for the whole count in a sum.
LEMMA ModSum ==
  ASSUME NEW n \in Nat \ {0}, NEW i \in Nat, NEW d \in Nat
  PROVE  ((i % n) + d) % n = (i + d) % n
<1> DEFINE r == i % n
<1>1. PICK q \in Nat : i = q * n + r
  BY ModTurns
<1>2. r \in Nat
  BY ModTurns
<1> HIDE DEF r
<1> DEFINE x == r + d
<1>3. x \in Nat /\ x % n \in 0 .. n - 1
  BY <1>2, ModTurns
<1>4. PICK p \in Nat : x = p * n + (x % n)
  BY <1>3, ModTurns
<1>5. i + d = (q + p) * n + (x % n)
  <2>1. (q + p) * n = q * n + p * n /\ q * n \in Nat /\ p * n \in Nat
    OBVIOUS
  <2>2. i + d = q * n + x
    BY <1>1, <1>2, <2>1
  <2> HIDE DEF x
  <2> QED BY <1>3, <1>4, <2>1, <2>2
<1> HIDE DEF x
<1>6. q + p \in Nat
  OBVIOUS
<1>7. (i + d) % n = x % n
  BY <1>3, <1>5, <1>6, ModUnique
<1> QED BY <1>7 DEF x, r

\* The same for a difference of counts, which may be negative.
LEMMA IntUnique ==
  ASSUME NEW n \in Nat \ {0}, NEW q \in Int, NEW r \in 0 .. n - 1
  PROVE  (q * n + r) % n = r
OBVIOUS

\* A number of turns, back or forth, and a remainder.
LEMMA IntTurns ==
  ASSUME NEW n \in Nat \ {0}, NEW i \in Int
  PROVE  /\ i % n \in 0 .. n - 1
         /\ \E q \in Int : i = q * n + (i % n)
<1>1. i \div n \in Int /\ i = (i \div n) * n + (i % n) /\ i % n \in 0 .. n - 1
  OBVIOUS
<1> QED BY <1>1

\* Two counts that differ by whole turns have the same remainder.
LEMMA ModSame ==
  ASSUME NEW n \in Nat \ {0}, NEW i \in Int, NEW j \in Int, (i - j) % n = 0
  PROVE  i % n = j % n
<1>1. PICK q \in Int : i - j = q * n
  <2>1. PICK d \in Int : d = i - j /\ d % n = 0
    OBVIOUS
  <2>2. PICK q \in Int : d = q * n + (d % n)
    BY IntTurns
  <2>3. d = q * n
    BY <2>1, <2>2
  <2> QED BY <2>1, <2>3
<1>2. PICK p \in Int : j = p * n + (j % n)
  BY IntTurns
<1>3. j % n \in 0 .. n - 1
  BY IntTurns
<1> DEFINE r == j % n
<1>4. r \in 0 .. n - 1 /\ j = p * n + r
  BY <1>2, <1>3
<1> HIDE DEF r
<1>5. i = (q + p) * n + r /\ q + p \in Int
  <2>1. (q + p) * n = q * n + p * n /\ q * n \in Int /\ p * n \in Int
    OBVIOUS
  <2> QED BY <1>1, <1>4, <2>1
<1>6. i % n = r
  BY <1>4, <1>5, IntUnique
<1> QED BY <1>6 DEF r

\* Whole turns may be left out of a difference.
LEMMA ModShift ==
  ASSUME NEW n \in Nat \ {0}, NEW i \in Int, i % n = 0
  PROVE  (i - n) % n = 0
<1>1. PICK q \in Int : i = q * n + (i % n)
  BY IntTurns
<1>2. i - n = (q - 1) * n + 0 /\ q - 1 \in Int /\ 0 \in 0 .. n - 1
  <2>1. (q - 1) * n = q * n - n /\ q * n \in Int
    OBVIOUS
  <2> QED BY <1>1, <2>1
<1> QED BY <1>2, IntUnique

-----------------------------------------------------------------------------
(* Sums over finite sets.                                                   *)

\* Induction on subsets, for a set of counterexamples: one has none below it.
LEMMA LeastSubset ==
  ASSUME NEW S, IsFiniteSet(S), NEW Bad \in SUBSET SUBSET S, Bad # {}
  PROVE  \E T \in Bad : \A U \in SUBSET T : U # T => U \notin Bad
<1>1. IsWellFoundedOn(StrictSubsetOrdering(S), SUBSET S)
  BY FS_StrictSubsetOrderingWellFounded, FS_FiniteSubsetsOfFinite
<1>2. PICK T \in Bad : \A U \in Bad : <<U, T>> \notin StrictSubsetOrdering(S)
  BY <1>1, WFMin
<1>3. ASSUME NEW U \in SUBSET T, U # T PROVE U \notin Bad
  BY <1>2, <1>3 DEF StrictSubsetOrdering
<1> QED BY <1>3

\* Of the numbers in a set, one is the least: induction on numbers, for the
\* set of the counterexamples.
LEMMA NatLeast ==
  ASSUME NEW S \in SUBSET Nat, S # {}
  PROVE  \E m \in S : \A n \in S : m <= n
<1>1. PICK k \in S : TRUE
  OBVIOUS
<1> DEFINE Bad == {T \in SUBSET (0 .. k) : \E j \in S : T = 0 .. j}
<1>2. IsFiniteSet(0 .. k) /\ Bad \in SUBSET SUBSET (0 .. k) /\ 0 .. k \in Bad
  BY <1>1, FS_Interval
<1>3. PICK T \in Bad : \A U \in SUBSET T : U # T => U \notin Bad
  <2> HIDE DEF Bad
  <2>1. Bad # {}
    BY <1>2
  <2>2. PICK I : I = 0 .. k
    OBVIOUS
  <2>3. IsFiniteSet(I) /\ Bad \in SUBSET SUBSET I
    BY <1>2, <2>2
  <2> QED BY ONLY <2>1, <2>3, LeastSubset
<1>4. PICK m \in S : T = 0 .. m
  BY <1>3
<1>5. ASSUME NEW n \in S, n < m PROVE FALSE
  <2>1. 0 .. n \in SUBSET T /\ 0 .. n # T /\ 0 .. n \in SUBSET (0 .. k)
    BY <1>3, <1>4, <1>5
  <2> QED BY <1>3, <2>1
<1> QED BY <1>4, <1>5

\* And one is the greatest, if there is a bound.
LEMMA NatGreatest ==
  ASSUME NEW N \in Nat, NEW S \in SUBSET (0 .. N), S # {}
  PROVE  \E m \in S : \A n \in S : n <= m
<1> DEFINE R == {N - n : n \in S}
<1>1. R \in SUBSET Nat /\ R # {}
  OBVIOUS
<1>2. PICK r \in R : \A q \in R : r <= q
  <2> HIDE DEF R
  <2> QED BY <1>1, NatLeast
<1>3. PICK m \in S : r = N - m
  BY <1>2
<1>4. ASSUME NEW n \in S PROVE n <= m
  <2>1. N - n \in R /\ n \in 0 .. N /\ m \in 0 .. N
    OBVIOUS
  <2>2. r <= N - n
    BY <1>2, <2>1
  <2> QED BY <1>3, <2>1, <2>2
<1> QED BY <1>4

-----------------------------------------------------------------------------
(* The recursion of the fold, and that exactly one function satisfies it.   *)

Pick(s) == CHOOSE x \in s : TRUE
Rest(s) == s \ {Pick(s)}
Adds(g, f, S) ==
  g = [s \in SUBSET S |-> IF s = {} THEN 0 ELSE f[Pick(s)] + g[Rest(s)]]

\* What the fold's LET stands for.
LEMMA SumIsChosen ==
  ASSUME NEW f, NEW S
  PROVE  SumFunctionOnSet(f, S) = (CHOOSE g : Adds(g, f, S))[S]
BY DEF SumFunctionOnSet, FoldFunctionOnSet, MapThenFoldSet, Adds, Pick, Rest

\* A set that is not empty is more than what is left of it.
LEMMA RestSmaller ==
  ASSUME NEW s, s # {}
  PROVE  Pick(s) \in s /\ Rest(s) \subseteq s /\ Rest(s) # s
<1>1. Pick(s) \in s
  BY DEF Pick
<1> QED BY <1>1 DEF Rest

\* Two such functions agree on the sets that both are defined on.
LEMMA AddsUnique ==
  ASSUME NEW f, NEW S, IsFiniteSet(S), NEW T \in SUBSET S,
         NEW g, Adds(g, f, S), NEW h, Adds(h, f, T)
  PROVE  g[T] = h[T]
<1> DEFINE Bad == {s \in SUBSET T : g[s] # h[s]}
<1>1. SUFFICES ASSUME Bad # {} PROVE FALSE
  OBVIOUS
<1>2. IsFiniteSet(T) /\ Bad \in SUBSET SUBSET T
  BY FS_Subset
<1>3. PICK s \in Bad : \A u \in SUBSET s : u # s => u \notin Bad
  <2> HIDE DEF Bad
  <2> QED BY <1>1, <1>2, LeastSubset
<1>4. s \in SUBSET T /\ s \in SUBSET S /\ g[s] # h[s]
  OBVIOUS
<1>5. /\ g[s] = IF s = {} THEN 0 ELSE f[Pick(s)] + g[Rest(s)]
      /\ h[s] = IF s = {} THEN 0 ELSE f[Pick(s)] + h[Rest(s)]
  BY <1>4, Zenon DEF Adds
<1>6. s # {}
  BY <1>4, <1>5
<1>7. Rest(s) \in SUBSET s /\ Rest(s) # s
  BY <1>6, RestSmaller
<1>8. g[Rest(s)] = h[Rest(s)]
  BY <1>3, <1>4, <1>7
<1> QED BY <1>4, <1>5, <1>8

\* There is such a function for every finite set.
LEMMA AddsExists ==
  ASSUME NEW f, NEW S, IsFiniteSet(S)
  PROVE  \E g : Adds(g, f, S)
<1> DEFINE Bad == {T \in SUBSET S : ~ \E g : Adds(g, f, T)}
<1>1. SUFFICES ASSUME Bad # {} PROVE FALSE
  OBVIOUS
<1>2. PICK T \in Bad : \A U \in SUBSET T : U # T => U \notin Bad
  <2>1. Bad \in SUBSET SUBSET S
    OBVIOUS
  <2> HIDE DEF Bad
  <2> QED BY <1>1, <2>1, LeastSubset
<1>3. T \in SUBSET S /\ IsFiniteSet(T) /\ ~ \E g : Adds(g, f, T)
  BY FS_Subset
<1> DEFINE G(s) == CHOOSE g : Adds(g, f, s)
<1>4. ASSUME NEW s \in SUBSET T, s # T PROVE Adds(G(s), f, s) /\ IsFiniteSet(s)
  <2>1. s \in SUBSET S /\ s \notin Bad
    BY <1>2, <1>3, <1>4
  <2> QED BY <1>3, <2>1, FS_Subset
<1> HIDE DEF G, Bad
<1> DEFINE g == [s \in SUBSET T |->
                   IF s = T THEN (IF T = {} THEN 0 ELSE f[Pick(T)] + G(Rest(T))[Rest(T)])
                   ELSE G(s)[s]]
<1>5. ASSUME NEW s \in SUBSET T
      PROVE  g[s] = IF s = {} THEN 0 ELSE f[Pick(s)] + g[Rest(s)]
  <2>1. CASE s = {}
    <3>1. CASE T = {}
      BY <2>1, <3>1
    <3>2. CASE T # {}
      <4>1. g[s] = G(s)[s]
        BY <2>1, <3>2
      <4>2. Adds(G(s), f, s)
        BY <1>4, <2>1, <3>2
      <4>3. G(s)[s] = 0
        BY <2>1, <4>2, Zenon DEF Adds
      <4> QED BY <2>1, <4>1, <4>3
    <3> QED BY <3>1, <3>2
  <2>2. CASE s # {}
    <3>1. /\ Rest(s) \in SUBSET s /\ Rest(s) # s /\ Rest(s) \in SUBSET T /\ Rest(s) # T
      BY <2>2, RestSmaller
    <3>2. g[Rest(s)] = G(Rest(s))[Rest(s)]
      BY <3>1
    <3>3. CASE s = T
      BY <2>2, <3>2, <3>3
    <3>4. CASE s # T
      <4>1. Adds(G(s), f, s) /\ IsFiniteSet(s) /\ Adds(G(Rest(s)), f, Rest(s))
        BY <1>4, <3>1, <3>4
      <4>2. G(s)[s] = IF s = {} THEN 0 ELSE f[Pick(s)] + G(s)[Rest(s)]
        <5>1. s \in SUBSET s
          OBVIOUS
        <5> QED BY <4>1, <5>1, Zenon DEF Adds
      <4>3. G(s)[Rest(s)] = G(Rest(s))[Rest(s)]
        BY <3>1, <4>1, AddsUnique
      <4>4. g[s] = G(s)[s]
        BY <3>4
      <4> QED BY <2>2, <3>2, <4>2, <4>3, <4>4
    <3> QED BY <3>3, <3>4
  <2> QED BY <2>1, <2>2
<1>6. g = [s \in SUBSET T |-> g[s]]
  OBVIOUS
<1> HIDE DEF g
<1>7. Adds(g, f, T)
  BY <1>5, <1>6 DEF Adds
<1> QED BY <1>3, <1>7

\* The fold takes one element after the other.
LEMMA SumUnfold ==
  ASSUME NEW f, NEW S, IsFiniteSet(S)
  PROVE  SumFunctionOnSet(f, S)
         = IF S = {} THEN 0 ELSE f[Pick(S)] + SumFunctionOnSet(f, Rest(S))
<1> DEFINE G(s) == CHOOSE g : Adds(g, f, s)
<1>1. \A s : IsFiniteSet(s) => Adds(G(s), f, s)
  BY AddsExists
<1>2. \A s : SumFunctionOnSet(f, s) = G(s)[s]
  BY SumIsChosen
<1>3. Rest(S) \in SUBSET S /\ S \in SUBSET S /\ IsFiniteSet(Rest(S))
  BY FS_Subset DEF Rest
<1> HIDE DEF G
<1>4. G(S)[S] = IF S = {} THEN 0 ELSE f[Pick(S)] + G(S)[Rest(S)]
  BY <1>1, <1>3, Zenon DEF Adds
<1>5. G(S)[Rest(S)] = G(Rest(S))[Rest(S)]
  BY <1>1, <1>3, AddsUnique
<1> QED BY <1>2, <1>4, <1>5

-----------------------------------------------------------------------------
(* What the models use.                                                     *)

\* Sums of natural numbers are natural numbers.
LEMMA SumType ==
  ASSUME NEW S, IsFiniteSet(S), NEW f, \A x \in S : f[x] \in Nat
  PROVE  SumFunctionOnSet(f, S) \in Nat
<1> DEFINE Bad == {T \in SUBSET S : SumFunctionOnSet(f, T) \notin Nat}
<1>1. SUFFICES ASSUME Bad # {} PROVE FALSE
  OBVIOUS
<1>2. PICK T \in Bad : \A U \in SUBSET T : U # T => U \notin Bad
  <2>1. Bad \in SUBSET SUBSET S
    OBVIOUS
  <2> HIDE DEF Bad
  <2> QED BY <1>1, <2>1, LeastSubset
<1>3. T \in SUBSET S /\ IsFiniteSet(T) /\ SumFunctionOnSet(f, T) \notin Nat
  BY FS_Subset
<1>4. T # {} /\ SumFunctionOnSet(f, T) = f[Pick(T)] + SumFunctionOnSet(f, Rest(T))
  BY <1>3, SumUnfold
<1>5. SumFunctionOnSet(f, Rest(T)) \in Nat /\ f[Pick(T)] \in Nat
  BY <1>2, <1>3, <1>4, RestSmaller
<1> QED BY <1>3, <1>4, <1>5

\* Any element may be the first to be added.
LEMMA SumRemove ==
  ASSUME NEW S, IsFiniteSet(S), NEW f, \A y \in S : f[y] \in Nat, NEW x \in S
  PROVE  SumFunctionOnSet(f, S) = f[x] + SumFunctionOnSet(f, S \ {x})
<1> DEFINE Sum(s) == SumFunctionOnSet(f, s)
           Bad == {T \in SUBSET S : \E y \in T : Sum(T) # f[y] + Sum(T \ {y})}
<1>1. SUFFICES ASSUME Bad # {} PROVE FALSE
  OBVIOUS
<1>2. PICK T \in Bad : \A U \in SUBSET T : U # T => U \notin Bad
  <2>1. Bad \in SUBSET SUBSET S
    OBVIOUS
  <2> HIDE DEF Bad
  <2> QED BY <1>1, <2>1, LeastSubset
<1>3. PICK y \in T : Sum(T) # f[y] + Sum(T \ {y})
  OBVIOUS
<1>4. T \in SUBSET S /\ IsFiniteSet(T)
  BY FS_Subset
<1> DEFINE z == Pick(T)
<1>5. z \in T /\ Rest(T) = T \ {z} /\ IsFiniteSet(T \ {y}) /\ IsFiniteSet(T \ {z})
  BY <1>3, <1>4, RestSmaller, FS_Subset DEF Rest
<1>6. Sum(T) = f[z] + Sum(T \ {z})
  BY <1>4, <1>5, SumUnfold
<1>7. \A U \in SUBSET T : \A u \in U : U # T => Sum(U) = f[u] + Sum(U \ {u})
  BY <1>2, <1>4
<1> HIDE DEF z, Bad, Sum
<1>8. y # z
  BY <1>3, <1>6
<1>9. /\ Sum(T \ {z}) = f[y] + Sum((T \ {z}) \ {y})
      /\ Sum(T \ {y}) = f[z] + Sum((T \ {y}) \ {z})
  BY <1>3, <1>5, <1>7, <1>8
<1>10. (T \ {z}) \ {y} = (T \ {y}) \ {z}
  OBVIOUS
<1>11. f[y] \in Nat /\ f[z] \in Nat /\ Sum((T \ {y}) \ {z}) \in Nat
  <2>1. IsFiniteSet((T \ {y}) \ {z}) /\ \A u \in (T \ {y}) \ {z} : f[u] \in Nat
    BY <1>4, FS_Subset
  <2> QED BY <1>3, <1>4, <1>5, <2>1, SumType DEF Sum
<1> QED BY <1>3, <1>6, <1>9, <1>10, <1>11

\* A sum depends on the summands only.
LEMMA SumSame ==
  ASSUME NEW S, IsFiniteSet(S), NEW f, NEW g, \A x \in S : f[x] = g[x]
  PROVE  SumFunctionOnSet(f, S) = SumFunctionOnSet(g, S)
<1> DEFINE Bad == {T \in SUBSET S : SumFunctionOnSet(f, T) # SumFunctionOnSet(g, T)}
<1>1. SUFFICES ASSUME Bad # {} PROVE FALSE
  OBVIOUS
<1>2. PICK T \in Bad : \A U \in SUBSET T : U # T => U \notin Bad
  <2>1. Bad \in SUBSET SUBSET S
    OBVIOUS
  <2> HIDE DEF Bad
  <2> QED BY <1>1, <2>1, LeastSubset
<1>3. /\ T \in SUBSET S /\ IsFiniteSet(T)
      /\ SumFunctionOnSet(f, T) # SumFunctionOnSet(g, T)
  BY FS_Subset
<1>4. T # {}
  BY <1>3, SumUnfold
<1>5. /\ SumFunctionOnSet(f, T) = f[Pick(T)] + SumFunctionOnSet(f, Rest(T))
      /\ SumFunctionOnSet(g, T) = g[Pick(T)] + SumFunctionOnSet(g, Rest(T))
  BY <1>3, <1>4, SumUnfold
<1>6. /\ f[Pick(T)] = g[Pick(T)]
      /\ SumFunctionOnSet(f, Rest(T)) = SumFunctionOnSet(g, Rest(T))
  BY <1>2, <1>3, <1>4, RestSmaller
<1> QED BY <1>3, <1>5, <1>6

\* A counter that moves takes the sum with it.
LEMMA SumUpdate ==
  ASSUME NEW S, IsFiniteSet(S), NEW x \in S,
         NEW f, \A y \in S : f[y] \in Nat,
         NEW g, g[x] \in Nat, \A y \in S : y # x => g[y] = f[y]
  PROVE  SumFunctionOnSet(g, S) = SumFunctionOnSet(f, S) + (g[x] - f[x])
<1>1. IsFiniteSet(S \ {x})
  BY FS_Subset
<1>2. SumFunctionOnSet(g, S \ {x}) = SumFunctionOnSet(f, S \ {x})
  BY <1>1, SumSame
<1>3. SumFunctionOnSet(f, S) = f[x] + SumFunctionOnSet(f, S \ {x})
  BY SumRemove
<1>4. SumFunctionOnSet(g, S) = g[x] + SumFunctionOnSet(g, S \ {x})
  BY SumRemove
<1>5. SumFunctionOnSet(f, S \ {x}) \in Nat /\ f[x] \in Nat
  BY <1>1, SumType
<1> QED BY <1>2, <1>3, <1>4, <1>5

\* No summand exceeds the sum.
LEMMA SumBound ==
  ASSUME NEW S, IsFiniteSet(S), NEW f, \A y \in S : f[y] \in Nat, NEW x \in S
  PROVE  f[x] <= SumFunctionOnSet(f, S)
<1>1. SumFunctionOnSet(f, S) = f[x] + SumFunctionOnSet(f, S \ {x})
  BY SumRemove
<1>2. SumFunctionOnSet(f, S \ {x}) \in Nat /\ f[x] \in Nat
  BY FS_Subset, SumType
<1> QED BY <1>1, <1>2

\* Sums grow with their summands.
LEMMA SumMonotone ==
  ASSUME NEW S, IsFiniteSet(S), NEW f, NEW g,
         \A x \in S : f[x] \in Nat /\ g[x] \in Nat /\ f[x] <= g[x]
  PROVE  SumFunctionOnSet(f, S) <= SumFunctionOnSet(g, S)
<1> DEFINE Bad == {T \in SUBSET S : ~(SumFunctionOnSet(f, T) <= SumFunctionOnSet(g, T))}
<1>1. SUFFICES ASSUME Bad # {} PROVE FALSE
  OBVIOUS
<1>2. PICK T \in Bad : \A U \in SUBSET T : U # T => U \notin Bad
  <2>1. Bad \in SUBSET SUBSET S
    OBVIOUS
  <2> HIDE DEF Bad
  <2> QED BY <1>1, <2>1, LeastSubset
<1>3. /\ T \in SUBSET S /\ IsFiniteSet(T)
      /\ ~(SumFunctionOnSet(f, T) <= SumFunctionOnSet(g, T))
  BY FS_Subset
<1>4. T # {}
  BY <1>3, SumUnfold
<1>5. /\ SumFunctionOnSet(f, T) = f[Pick(T)] + SumFunctionOnSet(f, Rest(T))
      /\ SumFunctionOnSet(g, T) = g[Pick(T)] + SumFunctionOnSet(g, Rest(T))
  BY <1>3, <1>4, SumUnfold
<1>6. /\ Rest(T) \in SUBSET T /\ Rest(T) # T /\ IsFiniteSet(Rest(T)) /\ Pick(T) \in S
      /\ \A x \in Rest(T) : f[x] \in Nat /\ g[x] \in Nat
  BY <1>3, <1>4, RestSmaller, FS_Subset
<1>7. SumFunctionOnSet(f, Rest(T)) <= SumFunctionOnSet(g, Rest(T))
  BY <1>2, <1>3, <1>6
<1>8. SumFunctionOnSet(f, Rest(T)) \in Nat /\ SumFunctionOnSet(g, Rest(T)) \in Nat
  BY <1>6, SumType
<1> QED BY <1>3, <1>5, <1>6, <1>7, <1>8

\* The sum of equal summands is their number times one of them.
LEMMA SumConst ==
  ASSUME NEW S, IsFiniteSet(S), NEW n \in Nat, NEW f, \A x \in S : f[x] = n
  PROVE  SumFunctionOnSet(f, S) = Cardinality(S) * n
<1> DEFINE Bad == {T \in SUBSET S : SumFunctionOnSet(f, T) # Cardinality(T) * n}
<1>1. SUFFICES ASSUME Bad # {} PROVE FALSE
  OBVIOUS
<1>2. PICK T \in Bad : \A U \in SUBSET T : U # T => U \notin Bad
  <2>1. Bad \in SUBSET SUBSET S
    OBVIOUS
  <2> HIDE DEF Bad
  <2> QED BY <1>1, <2>1, LeastSubset
<1>3. /\ T \in SUBSET S /\ IsFiniteSet(T) /\ Cardinality(T) \in Nat
      /\ SumFunctionOnSet(f, T) # Cardinality(T) * n
  BY FS_Subset, FS_CardinalityType
<1>4. T # {}
  <2>1. 0 * n = 0
    OBVIOUS
  <2> QED BY <1>3, <2>1, SumUnfold, FS_EmptySet
<1>5. SumFunctionOnSet(f, T) = n + SumFunctionOnSet(f, Rest(T))
  BY <1>3, <1>4, SumUnfold, RestSmaller
<1>6. SumFunctionOnSet(f, Rest(T)) = Cardinality(Rest(T)) * n
  BY <1>2, <1>3, <1>4, RestSmaller
<1>7. Cardinality(Rest(T)) = Cardinality(T) - 1 /\ Cardinality(T) - 1 \in Nat
  <2>1. Pick(T) \in T /\ Cardinality(T) # 0
    BY <1>3, <1>4, RestSmaller, FS_EmptySet
  <2>2. Rest(T) = T \ {Pick(T)}
    BY DEF Rest
  <2>3. Cardinality(T \ {Pick(T)}) = Cardinality(T) - 1
    BY <1>3, <2>1, FS_RemoveElement
  <2> HIDE DEF Bad
  <2> QED BY <1>3, <2>1, <2>2, <2>3
<1>8. \A k \in Nat : n + k * n = (k + 1) * n
  OBVIOUS
<1> DEFINE k == Cardinality(T) - 1
<1>9. k \in Nat /\ Cardinality(T) = k + 1
  BY <1>3, <1>7
<1>10. SumFunctionOnSet(f, T) = (k + 1) * n
  BY <1>5, <1>6, <1>7, <1>8, <1>9
<1> QED BY <1>3, <1>9, <1>10

\* The sum over two sets that share nothing is that of the two sums.
LEMMA SumUnion ==
  ASSUME NEW A, IsFiniteSet(A), NEW B, IsFiniteSet(B), A \cap B = {},
         NEW f, \A x \in A \cup B : f[x] \in Nat
  PROVE  SumFunctionOnSet(f, A \cup B) = SumFunctionOnSet(f, A) + SumFunctionOnSet(f, B)
<1> DEFINE Sum(s) == SumFunctionOnSet(f, s)
           Bad == {T \in SUBSET B : Sum(A \cup T) # Sum(A) + Sum(T)}
<1>1. SUFFICES ASSUME Bad # {} PROVE FALSE
  OBVIOUS
<1>2. PICK T \in Bad : \A U \in SUBSET T : U # T => U \notin Bad
  <2>1. Bad \in SUBSET SUBSET B
    OBVIOUS
  <2> HIDE DEF Bad
  <2> QED BY <1>1, <2>1, LeastSubset
<1>3. T \in SUBSET B /\ Sum(A \cup T) # Sum(A) + Sum(T)
  OBVIOUS
<1>4. IsFiniteSet(T) /\ IsFiniteSet(A \cup T)
  BY <1>3, FS_Subset, FS_Union
<1>5. Sum(A) \in Nat /\ Sum({}) = 0
  <2>1. \A x \in A : f[x] \in Nat
    OBVIOUS
  <2> QED BY <2>1, SumType, SumUnfold, FS_EmptySet
<1>6. T # {}
  <2>1. A \cup {} = A
    OBVIOUS
  <2> HIDE DEF Sum
  <2> QED BY <1>3, <1>5, <2>1
<1>7. PICK x \in T : x \in B /\ x \notin A
  BY <1>3, <1>6
<1> DEFINE U == T \ {x}
<1>8. U \in SUBSET T /\ U # T /\ IsFiniteSet(U) /\ (A \cup T) \ {x} = A \cup U
  BY <1>4, <1>7, FS_Subset
<1>9. Sum(A \cup U) = Sum(A) + Sum(U)
  BY <1>2, <1>3, <1>8
<1>10. Sum(A \cup T) = f[x] + Sum(A \cup U)
  <2>1. \A y \in A \cup T : f[y] \in Nat
    BY <1>3
  <2>2. x \in A \cup T
    OBVIOUS
  <2> HIDE DEF U, Bad
  <2> QED BY <1>4, <1>8, <2>1, <2>2, SumRemove
<1>11. Sum(T) = f[x] + Sum(U)
  <2>1. \A y \in T : f[y] \in Nat
    BY <1>3
  <2> HIDE DEF Bad
  <2> QED BY <1>4, <2>1, SumRemove
<1>12. f[x] \in Nat /\ Sum(U) \in Nat
  <2>1. \A y \in U : f[y] \in Nat
    BY <1>3
  <2> HIDE DEF Bad, U
  <2> QED BY <1>7, <1>8, <2>1, SumType
<1> HIDE DEF Sum, U, Bad
<1> QED BY <1>3, <1>5, <1>9, <1>10, <1>11, <1>12

\* Summands may be renumbered: b + x for x.
Moved(b, S) == {b + x : x \in S}

\* The renumbered summands are finite in number, and as many.
LEMMA MovedFinite ==
  ASSUME NEW b \in Int, NEW S \in SUBSET Int, IsFiniteSet(S)
  PROVE  IsFiniteSet(Moved(b, S)) /\ Cardinality(Moved(b, S)) = Cardinality(S)
<1> DEFINE g == [x \in S |-> b + x]
<1>1. g \in [S -> Moved(b, S)]
  BY DEF Moved
<1>2. \A x, y \in S : g[x] = g[y] => x = y
  OBVIOUS
<1>3. \A y \in Moved(b, S) : \E x \in S : g[x] = y
  BY DEF Moved
<1> HIDE DEF g
<1>4. g \in Bijection(S, Moved(b, S))
  BY <1>1, <1>2, <1>3 DEF Bijection, Injection, Surjection, IsInjective
<1>5. ExistsBijection(S, Moved(b, S))
  BY <1>4 DEF ExistsBijection
<1> QED BY <1>5, FS_Bijection

\* A sum over the old numbers is the sum over the new.
LEMMA SumMoved ==
  ASSUME NEW b \in Int, NEW S \in SUBSET Int, IsFiniteSet(S),
         NEW f, NEW g, \A x \in S : g[x] \in Nat /\ f[b + x] = g[x]
  PROVE  SumFunctionOnSet(f, Moved(b, S)) = SumFunctionOnSet(g, S)
<1> DEFINE Bad == {T \in SUBSET S :
                     SumFunctionOnSet(f, Moved(b, T)) # SumFunctionOnSet(g, T)}
<1>1. SUFFICES ASSUME Bad # {} PROVE FALSE
  OBVIOUS
<1>2. PICK T \in Bad : \A U \in SUBSET T : U # T => U \notin Bad
  <2>1. Bad \in SUBSET SUBSET S
    OBVIOUS
  <2> HIDE DEF Bad
  <2> QED BY <1>1, <2>1, LeastSubset
<1>3. /\ T \in SUBSET S
      /\ SumFunctionOnSet(f, Moved(b, T)) # SumFunctionOnSet(g, T)
  OBVIOUS
<1>4. IsFiniteSet(T) /\ IsFiniteSet(Moved(b, T))
  <2>1. IsFiniteSet(T) /\ T \in SUBSET Int
    BY <1>3, FS_Subset
  <2> QED BY <2>1, MovedFinite
<1>5. T # {}
  <2>1. Moved(b, {}) = {}
    BY DEF Moved
  <2>2. SumFunctionOnSet(f, {}) = 0 /\ SumFunctionOnSet(g, {}) = 0
    BY SumUnfold, FS_EmptySet
  <2> QED BY <1>3, <2>1, <2>2
<1>6. PICK x \in T : x \in S
  BY <1>3, <1>5
<1> DEFINE U == T \ {x}
           y == b + x
<1>7. U \in SUBSET T /\ U # T
  OBVIOUS
<1>8. SumFunctionOnSet(f, Moved(b, U)) = SumFunctionOnSet(g, U)
  BY <1>2, <1>3, <1>7
<1>9. SumFunctionOnSet(g, T) = g[x] + SumFunctionOnSet(g, U)
  <2>1. \A z \in T : g[z] \in Nat
    BY <1>3
  <2> HIDE DEF Bad
  <2> QED BY <1>4, <2>1, SumRemove
<1>10. Moved(b, U) = Moved(b, T) \ {y}
  <2>1. T \subseteq Int /\ x \in Int
    BY <1>3, <1>6
  <2> HIDE DEF Bad
  <2> QED BY <2>1 DEF Moved
<1>11. y \in Moved(b, T) /\ \A z \in Moved(b, T) : f[z] \in Nat
  <2>1. \A z \in T : f[b + z] \in Nat
    BY <1>3
  <2> QED BY <2>1 DEF Moved
<1>12. f[y] = g[x]
  BY <1>6
<1> HIDE DEF y, U, Bad
<1>13. SumFunctionOnSet(f, Moved(b, T)) = f[y] + SumFunctionOnSet(f, Moved(b, T) \ {y})
  BY <1>4, <1>11, SumRemove
<1> QED BY <1>3, <1>8, <1>9, <1>10, <1>12, <1>13

\* Counting pairs one first component at a time: the sum of the sizes of the
\* sets F[x] is the size of their disjoint union.
LEMMA SumOfCardinalities ==
  ASSUME NEW S, IsFiniteSet(S), NEW K, IsFiniteSet(K), NEW F \in [S -> SUBSET K],
         NEW f, \A x \in S : f[x] = Cardinality(F[x])
  PROVE  /\ IsFiniteSet({s \in S \X K : s[2] \in F[s[1]]})
         /\ SumFunctionOnSet(f, S) = Cardinality({s \in S \X K : s[2] \in F[s[1]]})
<1> DEFINE P(T) == {s \in T \X K : s[2] \in F[s[1]]}
           Bad == {T \in SUBSET S : SumFunctionOnSet(f, T) # Cardinality(P(T))}
<1>0. \A T \in SUBSET S : IsFiniteSet(T) /\ IsFiniteSet(P(T)) /\ Cardinality(P(T)) \in Nat
  <2> SUFFICES ASSUME NEW T \in SUBSET S
               PROVE  IsFiniteSet(T) /\ IsFiniteSet(P(T)) /\ Cardinality(P(T)) \in Nat
    OBVIOUS
  <2>1. IsFiniteSet(T)
    BY FS_Subset
  <2>2. IsFiniteSet(T \X K)
    BY <2>1, FS_Product
  <2>3. P(T) \in SUBSET (T \X K)
    OBVIOUS
  <2> HIDE DEF P
  <2> QED BY <2>1, <2>2, <2>3, FS_Subset, FS_CardinalityType
<1>1. SUFFICES ASSUME Bad # {} PROVE FALSE
  BY <1>0
<1>2. PICK T \in Bad : \A U \in SUBSET T : U # T => U \notin Bad
  <2>1. Bad \in SUBSET SUBSET S
    OBVIOUS
  <2> HIDE DEF Bad
  <2> QED BY <1>1, <2>1, LeastSubset
<1>3. /\ T \in SUBSET S /\ IsFiniteSet(T) /\ SumFunctionOnSet(f, T) # Cardinality(P(T))
  BY <1>0
<1>4. T # {}
  <2>1. P({}) = {}
    OBVIOUS
  <2> HIDE DEF P
  <2> QED BY <1>3, <2>1, SumUnfold, FS_EmptySet
<1> DEFINE x == Pick(T)
           R == {x} \X F[x]
<1>5. x \in T /\ Rest(T) = T \ {x}
  BY <1>4, RestSmaller DEF Rest
<1>6. SumFunctionOnSet(f, T) = f[x] + SumFunctionOnSet(f, Rest(T))
  BY <1>3, <1>4, SumUnfold
<1>7. SumFunctionOnSet(f, Rest(T)) = Cardinality(P(Rest(T)))
  BY <1>2, <1>3, <1>4, RestSmaller
<1>8. IsFiniteSet(R) /\ Cardinality(R) = f[x] /\ f[x] \in Nat
  <2> HIDE DEF x
  <2>1. IsFiniteSet(F[x])
    BY <1>3, <1>5, FS_Subset
  <2>2. Cardinality(F[x]) = f[x] /\ f[x] \in Nat
    BY <1>3, <1>5, <2>1, FS_CardinalityType
  <2>3. IsFiniteSet({x}) /\ Cardinality({x}) = 1
    BY FS_Singleton
  <2>4. 1 * f[x] = f[x]
    BY <2>2
  <2> QED BY <2>1, <2>2, <2>3, <2>4, FS_Product
<1>9. P(T) = P(Rest(T)) \cup R /\ P(Rest(T)) \cap R = {}
  <2> HIDE DEF x
  <2>1. F[x] \subseteq K
    BY <1>3, <1>5
  <2> QED BY <1>5, <2>1
<1>10. Rest(T) \in SUBSET S
  BY <1>3, <1>5
<1> HIDE DEF P, R, x
<1>11. /\ IsFiniteSet(P(Rest(T))) /\ Cardinality(P(Rest(T))) \in Nat
  BY <1>0, <1>10
<1>12. Cardinality(P(T)) = Cardinality(P(Rest(T))) + f[x]
  <2>1. Cardinality(P(Rest(T)) \cup R)
          = Cardinality(P(Rest(T))) + Cardinality(R) - Cardinality(P(Rest(T)) \cap R)
    BY <1>8, <1>11, FS_Union
  <2>2. Cardinality(P(Rest(T)) \cap R) = 0
    BY <1>9, FS_EmptySet
  <2>3. Cardinality(P(T)) = Cardinality(P(Rest(T)) \cup R)
    BY <1>9
  <2> HIDE DEF Bad
  <2> QED BY <1>8, <1>11, <2>1, <2>2, <2>3
<1> QED BY <1>3, <1>6, <1>7, <1>8, <1>11, <1>12
=============================================================================
