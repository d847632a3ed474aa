------------------------------- MODULE SiteText -------------------------------
(***************************************************************************)
(* The text half of the site's search, on small inputs: texts for the two  *)
(* segmenters of SiteState, and the pure functions of the bundle, paths,   *)
(* brace expansion and minimatch.  A behaviour is two calls of wordcut,    *)
(* one of TinySegmenter, or one sample for a function; part says which,    *)
(* and may be another part of SiteSearch.                                  *)
(***************************************************************************)
EXTENDS SiteState, Integers, SequencesExt

VARIABLE sample   \* of a function

-----------------------------------------------------------------------------
(* Inputs.  Code points: a, space, and the Thai ko kai, sara aa, mai tho,   *)
(* sara e and thanthakhat; tone marks and vowels are what the rules tell    *)
(* apart.                                                                   *)

Rule0Word == <<3648, 3627, 3585, 3655, 3617>>
ThaiFileWords == <<<<3585, 3634, 3585>>, <<3585>>, <<3585, 3585>>, <<3585, 3634>>>>
ThaiWordLists == {<<>>, <<<<3617>>, <<3585, 3634>>, <<97, 3585>>, <<3585>>>>}
ThaiAlphabet == {97, 32, 3585, 3634, 3657}
ThaiTexts ==
  BoundedSeq(ThaiAlphabet, 3) \cup [1 .. 4 -> {97, 3585, 3634}]
  \cup {Rule0Word, <<48, 49>> \o Rule0Word, Rule0Word \o <<46, 32, 46>>,
        <<3648, 3585, 3660, 3585, 3585, 3660, 97>>}
ThaiFirstTexts == BoundedSeq(ThaiAlphabet, 1)

\* Tables that never end a word, always do, do between different characters,
\* and do unless they have just done so.
Ends(tables, window, last) ==
  CASE tables = "never" -> FALSE
    [] tables = "always" -> TRUE
    [] tables = "where it changes" -> window[3] # window[4]
    [] tables = "every other time" -> last[3] # "B"
JapaneseInputs == BoundedSeq({"i", "ro"}, 5)
JapaneseScorers == {"never", "always", "where it changes", "every other time"}

Paths == INSTANCE Paths
SomePaths == (BoundedSeq({"a", "b", "..", ".", ""}, 3) \cup [1 .. 4 -> {"a", "..", ""}]) \ {<<>>}
OtherPaths == BoundedSeq({"a", "..", ""}, 2) \ {<<>>}

Braces == INSTANCE BraceExpansion
BraceTexts == BoundedSeq({123, 125, 97, 44}, 4) \cup [1 .. 5 -> {123, 125, 44}]
Text(s) == [is |-> "text", text |-> s]
Numbers(from, to) == [is |-> "numbers", from |-> from, to |-> to]
OneOf(patterns) == [is |-> "set", of |-> patterns]
Literals == {Text(<<97>>), Text(<<>>), Text(<<92, 44>>)}   \* a, nothing, an escaped comma
Ranges == {Numbers(1, 2), Numbers(11, 9)}
Braced == {OneOf(<<<<x>>, <<y>>>>) : x \in Literals, y \in Literals \cup Ranges}
Nested == {OneOf(<<<<x>>, <<y, z>>>>) : x \in Literals \cup Ranges, y \in Braced, z \in Literals}
BracePatterns ==
  {<<x>> : x \in Nested}
  \cup {<<x, y, z>> : x \in Literals, y \in Braced \cup Ranges, z \in Literals \cup Ranges}

Mini == INSTANCE Minimatch
NameCharacters == {97, 98, 46, 42, 93}                     \* a b . * ]
One(txt, takes) == [text |-> txt, takes |-> takes, star |-> FALSE]
Many == [text |-> <<42>>, takes |-> {}, star |-> TRUE]
A == One(<<97>>, {97})
Hidden == One(<<46>>, {46})
Pieces == {
  A, Hidden, Many, One(<<63>>, NameCharacters),
  One(<<92, 42>>, {42}), One(<<92, 93>>, {93}),            \* \* \]
  One(<<91, 97, 45, 98, 93>>, {97, 98}),                   \* [a-b]
  One(<<91, 33, 97, 93>>, NameCharacters \ {97}),          \* [!a]
  One(<<91, 93, 97, 93>>, {93, 97}),                       \* []a]
  One(<<91, 94, 92, 93, 46, 93>>, NameCharacters \ {93, 46})}  \* [^\].]
Parts == {<<Many>>, <<Many, Many>>, <<A>>, <<Hidden>>}
EndParts == Parts \cup {<<>>}
PartPatterns == {<<p>> : p \in BoundedSeq(Pieces, 2) \ {<<>>}}
PathPatterns == {<<p>> \o q \o <<r>> : p \in EndParts, r \in EndParts,
                                       q \in {<<>>} \cup [1 .. 1 -> Parts] \cup {<<<<Many, Many>>, <<A>>>>}}
Names == BoundedSeq(NameCharacters, 2)
Files == BoundedSeq({97, 46, 47}, 3) \cup [1 .. 4 -> {97, 47}]   \* of a . and slashes
         \cup {<<97, 47, 46, 97>>, <<97, 47, 46, 46>>, <<46, 97, 47, 97>>, <<97, 46, 47, 97>>}

-----------------------------------------------------------------------------
textVars == <<cutVars, tinyVars, sample>>

Samples ==
  \/ \E a \in SomePaths, b \in OtherPaths : sample = [of |-> "paths", from |-> a, to |-> b]
  \/ \E s \in BraceTexts : sample = [of |-> "balance", str |-> s]
  \/ \E p \in BracePatterns : sample = [of |-> "braces", pattern |-> p]
  \/ \E f \in Names, p \in PartPatterns, d \in BOOLEAN :
       sample = [of |-> "glob", f |-> f, parts |-> p, dot |-> d]
  \/ \E f \in Files, p \in PathPatterns, d \in BOOLEAN :
       sample = [of |-> "glob", f |-> f, parts |-> p, dot |-> d]

TextInit ==
  /\ part # "wordcut" => dict = Cut!Dictionary(<<>>)
  /\ part # "tinyseg" => scorer = "never" /\ input = <<>>
  /\ IF part = "functions" THEN Samples ELSE sample = [of |-> "none"]

Evaluated == part = "functions" /\ UNCHANGED <<stateVars, sample>>

-----------------------------------------------------------------------------
(* Properties, explained where the modules define them.                     *)

\* wordcut.js: a dictionary acceptor stands for the words that start with
\* what it has read, and a text of known pieces is cut into as few of them as
\* possible.
DictionaryCutsBest == Cut!AcceptorsFindWords /\ Cut!KnownTextIsCutBest

\* wordcut.js, path: normalize, join and relative keep where a path leads.
PathsLeadThere ==
  sample.of = "paths" =>
    /\ Paths!NormalizeKeepsThePlace(sample.from)
    /\ Paths!RelativeLeadsThere(sample.from, sample.to)
    /\ Paths!JoinFollowsBoth(sample.from, sample.to)

\* wordcut.js, balanced-match and brace-expansion: braces mean every choice of
\* their alternatives, in order.  minimatch: a path matches a pattern just when
\* its parts are what the pattern's parts ask for, and partially on the way
\* there.
PatternsMean ==
  /\ sample.of = "balance" => Braces!BalancedFindsLeftmostPair(sample.str)
  /\ sample.of = "braces" => Braces!ExpansionIsMeaning(sample.pattern)
  /\ sample.of = "glob" =>
       /\ Mini!MatchIsMeaning(sample.f, sample.parts, sample.dot)
       /\ Mini!NegationAndChoice(sample.f, sample.parts, <<<<Many>>, <<Many>>>>, sample.dot)
       /\ Mini!PrefixesMatchPartially(sample.f, sample.parts, sample.dot)
=============================================================================
