------------------------------- MODULE Wordcut --------------------------------
(***************************************************************************)
(* wordcut.js 1-619: the Thai segmenter of the site's search.  It reads a  *)
(* text character by character with a set of acceptors, keeps the best way *)
(* to cut each prefix, and turns the last one into ranges.                 *)
(*                                                                         *)
(* A character is its code point.  Positions of the text and of the path   *)
(* are counted from 0, as in the code; those of the dictionary from 1.     *)
(* No acceptor has a weight mw, so it is 0 in every path.                  *)
(***************************************************************************)
EXTENDS Integers, SequencesExt

CONSTANTS
  FileWords,      \* the words that addFiles has in one string, in its order
  WordLists,      \* what callers pass as additional words
  FirstTexts,     \* the texts that the first call of cut may get,
  Texts           \* and the second

VARIABLES
  dict,
  calls,         \* of cut, which all use the same acceptors
  pc,
  text, i,
  current,       \* Acceptors.current
  path,          \* from 0: for each prefix of the text how it was cut best
  leftBoundary,
  e, ranges      \* of pathToRanges
vars == <<dict, calls, pc, text, i, current, path, leftBoundary, e, ranges>>

-----------------------------------------------------------------------------
(* The dictionary.                                                          *)

Before(a, b) ==
  \/ IsStrictPrefix(a, b)
  \/ \E k \in 1 .. Len(a) :
       /\ k <= Len(b) /\ a[k] < b[k]
       /\ \A j \in 1 .. k - 1 : a[j] = b[j]

\* The elements of s that are in T, in their order.
Those(s, T) ==
  LET those[n \in 0 .. Len(s)] ==
        IF n = 0 THEN <<>>
        ELSE IF s[n] \in T THEN Append(those[n - 1], s[n]) ELSE those[n - 1]
  IN those[Len(s)]

\* finalizeDict: sorted, without duplicates.
SortUniq(words) ==
  LET set == Range(words) IN
  CHOOSE s \in [1 .. Cardinality(set) -> set] :
    \A j, k \in DOMAIN s : j < k => Before(s[j], s[k])

\* init: one-letter words are dropped from the files only.
Dictionary(words) ==
  SortUniq(Those(FileWords, {w \in Range(FileWords) : Len(w) > 1}) \o words)

\* dictSeek: the first or last word from left to right that has ch at an
\* offset, where those words agree up to there, and 0 for null.  seek[n] is the
\* state after n rounds, the last of which may change nothing.
SeekRound(s, ch, strOffset, pos) ==
  LET m == (s.l + s.r) \div 2
      item == dict[m]
  IN IF s.l > s.r THEN s
     ELSE IF Len(item) <= strOffset THEN [s EXCEPT !.l = m + 1]
     ELSE IF item[strOffset + 1] < ch THEN [s EXCEPT !.l = m + 1]
     ELSE IF item[strOffset + 1] > ch THEN [s EXCEPT !.r = m - 1]
     ELSE IF pos = "LEFT" THEN [s EXCEPT !.r = m - 1, !.ans = m]
     ELSE [s EXCEPT !.l = m + 1, !.ans = m]
DictSeek(left, right, ch, strOffset, pos) ==
  LET seek[n \in 0 .. Len(dict)] ==
        IF n = 0 THEN [l |-> left, r |-> right, ans |-> 0]
        ELSE SeekRound(seek[n - 1], ch, strOffset, pos)
  IN seek[Len(dict)].ans

-----------------------------------------------------------------------------
(* Acceptors.                                                               *)

IsLetter(ch) == ch \in 65 .. 90 \cup 97 .. 122
IsDigit(ch) == ch \in 48 .. 57
IsSpace(ch) == ch \in {32, 9, 13, 10, 160, 8195}
IsSymbol(ch) == ch \in {64, 40, 41, 47, 44, 45, 46, 34, 96}
IsConsonant(ch) == ch \in 3585 .. 3630
IsToneMark(ch) == ch \in 3656 .. 3659

Rule0 == <<3648, 3627, 3585, 3655, 3617>>
Parts == {<<3649, 3585>>, <<3648, 3585>>, <<3585, 3657>>, <<3585, 3585, 3660>>,
          <<3585, 3634>>, <<3585, 3637>>, <<3585, 3636>>, <<3585, 3639, 3585>>}

\* isMatch: four of the consonants of a pattern stand for all, a tone mark
\* for all four.
IsMatch(pat, offset, ch) ==
  /\ offset < Len(pat)
  /\ \/ pat[offset + 1] = ch
     \/ pat[offset + 1] \in {3585, 3586, 3610, 3617} /\ IsConsonant(ch)
     \/ pat[offset + 1] = 3657 /\ IsToneMark(ch)

\* The rule objects, in the order of initNoDict and init.
Creators == <<"WORD_RULE", "SPACE_RULE", "SINSYM", "NUMBER_RULE", "THAI_RULE", "PART", "DICT">>
CreateAcceptor(type) ==
  [type |-> type, strOffset |-> 0, isFinal |-> FALSE, l |-> 1, r |-> Len(dict),
   patterns |-> Parts]

\* The rules that start only where no acceptor of theirs is running.
Exclusive == {"WORD_RULE", "SPACE_RULE", "NUMBER_RULE"}
Created ==
  LET tags == {current[k].type : k \in DOMAIN current}
      types == Those(Creators, Range(Creators) \ (Exclusive \cap tags))
  IN [k \in DOMAIN types |-> CreateAcceptor(types[k])]

\* transit of each type, and whether it leaves no error.
Accepts(a, ch) ==
  CASE a.type = "WORD_RULE" -> IsLetter(ch)
    [] a.type = "SPACE_RULE" -> IsSpace(ch)
    [] a.type = "SINSYM" -> a.strOffset = 0 /\ IsSymbol(ch)
    [] a.type = "NUMBER_RULE" -> IsDigit(ch)
    [] a.type = "THAI_RULE" -> IsMatch(Rule0, a.strOffset, ch)
    [] a.type = "PART" -> \E pat \in a.patterns : IsMatch(pat, a.strOffset, ch)
    [] a.type = "DICT" -> DictSeek(a.l, a.r, ch, a.strOffset, "LEFT") # 0
DictTransit(a, ch) ==
  LET left == DictSeek(a.l, a.r, ch, a.strOffset, "LEFT")
  IN [a EXCEPT !.l = left, !.r = DictSeek(left, a.r, ch, a.strOffset, "RIGHT"),
               !.strOffset = @ + 1, !.isFinal = Len(dict[left]) = a.strOffset + 1]
After(a, ch) ==
  LET len == a.strOffset + 1
      matched == {pat \in a.patterns : IsMatch(pat, a.strOffset, ch)}
      next == [a EXCEPT !.strOffset = len]
  IN CASE a.type = "THAI_RULE" -> [next EXCEPT !.isFinal = len = Len(Rule0)]
       [] a.type = "PART" -> [next EXCEPT !.patterns = matched,
                                          !.isFinal = \E pat \in matched : Len(pat) = len]
       [] a.type = "DICT" -> DictTransit(a, ch)
       [] OTHER -> [next EXCEPT !.isFinal = TRUE]

\* Acceptors.transit.
Transit(ch) ==
  LET all == current \o Created
      accepting == Those(all, {a \in Range(all) : Accepts(a, ch)})
  IN [k \in DOMAIN accepting |-> After(accepting[k], ch)]

FinalAcceptors(acceptors) == Those(acceptors, {a \in Range(acceptors) : a.isFinal})

-----------------------------------------------------------------------------
(* Paths.                                                                   *)

None == -1
CreatePath == [j \in {0} |-> [p |-> None, w |-> 0, unk |-> 0, type |-> "INIT", merge |-> None]]

\* buildByAcceptors, for one of them.
StartOf(a) == i - a.strOffset + 1
PathInfo(a) ==
  LET p == StartOf(a) IN
  [p |-> p, w |-> path[p].w + 1,
   unk |-> path[p].unk + (IF a.type = "PART" THEN 1 ELSE 0),
   type |-> a.type,
   merge |-> IF a.type = "PART" THEN p ELSE None]

\* What it does to the paths of the prefixes that end inside a part.
Marked(finals, j) ==
  LET inside == Those(finals, {a \in Range(finals) : a.type = "PART" /\ StartOf(a) < j})
  IN IF inside = <<>> THEN path[j] ELSE [path[j] EXCEPT !.merge = StartOf(Last(inside))]

Fallback(ch) ==
  LET info == path[leftBoundary] IN
  [p |-> IF ch \in 3656 .. 3662 /\ leftBoundary # 0 THEN info.p ELSE leftBoundary,
   w |-> info.w + 1, unk |-> info.unk + 1, type |-> "UNK", merge |-> None]

\* build: what ends at i + 1, or else an unknown piece.
Build(finals, ch) ==
  IF finals = <<>> THEN <<Fallback(ch)>> ELSE [k \in DOMAIN finals |-> PathInfo(finals[k])]

\* selectPath: the first of the best.
FewerPieces(a, b) == a.w < b.w
Better(a, b) == a.unk < b.unk \/ (a.unk = b.unk /\ a.w < b.w)
SelectPath(infos) ==
  infos[CHOOSE k \in DOMAIN infos : \A j \in DOMAIN infos :
          ~Better(infos[j], infos[k]) /\ (j < k => Better(infos[k], infos[j]))]

-----------------------------------------------------------------------------
Init ==
  /\ \E words \in WordLists : dict = Dictionary(words)
  /\ calls = 0
  /\ pc = "idle"
  /\ text = <<>> /\ i = 0
  /\ current = <<>>
  /\ path = CreatePath
  /\ leftBoundary = 0
  /\ e = 0 /\ ranges = <<>>

\* A call of cut, cutIntoRanges or cutIntoArray, up to the loop of buildPath.
Cut ==
  /\ pc = "idle"
  /\ calls < 2
  /\ calls' = calls + 1
  /\ text' \in IF calls = 0 THEN FirstTexts ELSE Texts
  /\ i' = 0
  /\ current' = <<>>
  /\ path' = CreatePath
  /\ leftBoundary' = 0
  /\ pc' = "read"
  /\ e' = 0 /\ ranges' = <<>>
  /\ UNCHANGED dict

\* One round of the loop.
ReadCharacter ==
  /\ pc = "read"
  /\ i < Len(text)
  /\ LET ch == text[i + 1]
         next == Transit(ch)
         finals == FinalAcceptors(next)
         selected == SelectPath(Build(finals, ch))
     IN /\ current' = next
        /\ path' = [j \in 0 .. i + 1 |-> IF j > i THEN selected ELSE Marked(finals, j)]
        /\ leftBoundary' = IF selected.type = "UNK" THEN leftBoundary ELSE i
  /\ i' = i + 1
  /\ UNCHANGED <<dict, calls, pc, text, e, ranges>>

BuildRanges ==
  /\ pc = "read"
  /\ i = Len(text)
  /\ e' = i
  /\ pc' = "ranges"
  /\ UNCHANGED <<dict, calls, text, i, current, path, leftBoundary, ranges>>

\* Where pathToRanges goes on after a merge.
FromItsOwnPiece(info) == info.p
FromMerge(info) == info.merge

\* One round of pathToRanges; a range is added on the left, which the final
\* reverse amounts to.
AddRange ==
  /\ pc = "ranges"
  /\ e > 0
  /\ LET info == path[e] IN
     \/ /\ info.merge # None /\ ranges # <<>>
        /\ ranges' = [ranges EXCEPT ![1].s = info.merge]
        /\ e' = FromMerge(info)
     \/ /\ info.merge = None \/ ranges = <<>>
        /\ ranges' = <<[s |-> info.p, e |-> e]>> \o ranges
        /\ e' = info.p
  /\ UNCHANGED <<dict, calls, pc, text, i, current, path, leftBoundary>>

Return ==
  /\ pc = "ranges"
  /\ e = 0
  /\ pc' = "idle"
  /\ UNCHANGED <<dict, calls, text, i, current, path, leftBoundary, e, ranges>>

Finished == pc = "idle" /\ calls = 2 /\ UNCHANGED vars
Next == Cut \/ ReadCharacter \/ BuildRanges \/ AddRange \/ Return \/ Finished
Spec == Init /\ [][Next]_vars

-----------------------------------------------------------------------------
(* Properties.                                                              *)

\* The ranges of a text are never empty, and follow each other from its start
\* to its end, whatever mixture of known words, parts that are merged to the
\* right, and unknown characters it is: no character is lost or doubled.
RangesCoverText ==
  pc = "idle" /\ calls > 0 =>
    /\ text # <<>> => ranges # <<>> /\ ranges[1].s = 0 /\ Last(ranges).e = Len(text)
    /\ \A k \in DOMAIN ranges :
         /\ ranges[k].s < ranges[k].e
         /\ k > 1 => ranges[k].s = ranges[k - 1].e

\* An acceptor of the dictionary that has read a string stands for exactly
\* the words that start with it, and is final if it is one of them: the
\* binary searches by character agree with the definition.
AcceptorsFindWords ==
  \A k \in DOMAIN current :
    LET a == current[k]
        read == SubSeq(text, i - a.strOffset + 1, i)
    IN a.type = "DICT" =>
         /\ a.l .. a.r = {d \in DOMAIN dict : IsPrefix(read, dict[d])}
         /\ a.isFinal <=> read \in Range(dict)

\* A piece that one acceptor takes whole: a word, a symbol, or letters, digits
\* or spaces from the start of their run on.
Known(s, t) ==
  \/ SubSeq(text, s + 1, t) \in Range(dict) \cup {Rule0}
  \/ t = s + 1 /\ IsSymbol(text[t])
  \/ \E class \in {{c \in Range(text) : IsLetter(c)}, {c \in Range(text) : IsDigit(c)},
                   {c \in Range(text) : IsSpace(c)}} :
       Range(SubSeq(text, s + 1, t)) \subseteq class /\ (s = 0 \/ text[s] \notin class)
KnownCuts ==
  {cut \in SUBSET (0 .. Len(text)) :
     /\ {0, Len(text)} \subseteq cut
     /\ \A s, t \in cut : s < t /\ ~(\E u \in cut : s < u /\ u < t) => Known(s, t)}

\* A text that can be cut into known pieces is, and into as few as possible.
\* The words of the dictionaries here, as Thai words, neither start nor end
\* inside one of the parts.
KnownTextIsCutBest ==
  pc = "idle" /\ calls > 0 /\ KnownCuts # {} =>
    LET cut == {ranges[k].s : k \in DOMAIN ranges} \cup {Len(text)}
    IN cut \in KnownCuts /\ \A other \in KnownCuts : Cardinality(cut) <= Cardinality(other)
=============================================================================
