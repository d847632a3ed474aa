---------------------------- MODULE BraceExpansion ----------------------------
(***************************************************************************)
(* wordcut.js 980-1241: balanced-match and brace-expansion, which turn the *)
(* pattern a{b,c}d of minimatch into abd and acd.                          *)
(*                                                                         *)
(* A string is a sequence of code points, at positions counted from 0 as   *)
(* in the code.  The placeholder of an escaped character c is -c.  A       *)
(* sequence with a step of 0, {1..2..0}, is not in the inputs: the code's  *)
(* loop does not end on it.                                                *)
(***************************************************************************)
EXTENDS Integers, SequencesExt

OpenBrace == 123
CloseBrace == 125
Comma == 44
Dot == 46
Dash == 45
Dollar == 36
Backslash == 92

-----------------------------------------------------------------------------
(* balanced-match, of { and }.                                              *)

None == -1
IndexOf(str, c, from) ==
  LET at == {k \in from .. Len(str) - 1 : str[k + 1] = c}
  IN IF at = {} THEN None ELSE Min(at)
Slice(str, from, to) == SubSeq(str, from + 1, to)

\* The loop of range; <<>> for undefined.
RECURSIVE RangeLoop(_, _, _, _, _, _)
RangeLoop(str, i, ai, bi, begs, best) ==
  LET nextOpen == IndexOf(str, OpenBrace, i + 1)
      nextClose == IndexOf(str, CloseBrace, i + 1)
      Nearer(open, close) == IF open < close /\ open >= 0 THEN open ELSE close
      beg == Last(begs)
  IN IF i < 0 THEN IF begs = <<>> THEN <<>> ELSE best
     ELSE IF i = ai
       THEN RangeLoop(str, Nearer(nextOpen, bi), nextOpen, bi, Append(begs, i), best)
     ELSE IF Len(begs) = 1 THEN <<beg, bi>>
     ELSE RangeLoop(str, Nearer(ai, nextClose), ai, nextClose, Front(begs),
                    IF beg < best[1] THEN <<beg, bi>> ELSE best)

BalancedRange(str) ==
  LET ai == IndexOf(str, OpenBrace, 0)
      bi == IndexOf(str, CloseBrace, ai + 1)
  IN IF ai >= 0 /\ bi > 0 THEN RangeLoop(str, ai, ai, bi, <<>>, <<Len(str), None>>) ELSE <<>>

\* balanced, where there is a match.
CutAt(str, r) ==
  [pre |-> Slice(str, 0, r[1]), body |-> Slice(str, r[1] + 1, r[2]),
   post |-> Slice(str, r[2] + 1, Len(str))]
Balanced(str) == CutAt(str, BalancedRange(str))

-----------------------------------------------------------------------------
(* brace-expansion.                                                         *)

\* str.split(sep).
RECURSIVE Split(_, _)
Split(str, sep) ==
  LET at == {k \in 0 .. Len(str) - Len(sep) : Slice(str, k, k + Len(sep)) = sep}
  IN IF at = {} THEN <<str>>
     ELSE <<Slice(str, 0, Min(at))>> \o Split(Slice(str, Min(at) + Len(sep), Len(str)), sep)

RECURSIVE EscapeBraces(_)
EscapeBraces(str) ==
  IF str = <<>> THEN <<>>
  ELSE IF Len(str) > 1 /\ str[1] = Backslash
            /\ str[2] \in {Backslash, OpenBrace, CloseBrace, Comma, Dot}
    THEN <<-str[2]>> \o EscapeBraces(SubSeq(str, 3, Len(str)))
  ELSE <<str[1]>> \o EscapeBraces(Tail(str))
UnescapeBraces(str) == [k \in DOMAIN str |-> IF str[k] < 0 THEN -str[k] ELSE str[k]]

\* Split at the commas that are outside nested braces.
EveryComma(str) == Split(str, <<Comma>>)
RECURSIVE ParseCommaParts(_), PartsAround(_)
ParseCommaParts(str) ==
  IF str = <<>> THEN <<<<>>>>
  ELSE IF BalancedRange(str) = <<>> THEN EveryComma(str)
  ELSE PartsAround(Balanced(str))
\* The last part before a pair of braces goes on with it, and after it.
JoinParts(before, braces, after) ==
  Front(before) \o <<Last(before) \o braces \o Head(after)>> \o Tail(after)
PartsAround(m) ==
  JoinParts(Split(m.pre, <<Comma>>), <<OpenBrace>> \o m.body \o <<CloseBrace>>,
            ParseCommaParts(m.post))

Digits == 48 .. 57
Letters == 65 .. 90 \cup 97 .. 122
IsNumber(str) ==
  LET unsigned == IF str # <<>> /\ str[1] = Dash THEN Tail(str) ELSE str
  IN unsigned # <<>> /\ Range(unsigned) \subseteq Digits
IsSequenceOf(IsEnd(_), parts) ==
  /\ Len(parts) \in 2 .. 3
  /\ IsEnd(parts[1]) /\ IsEnd(parts[2])
  /\ Len(parts) = 3 => IsNumber(parts[3])
IsNumericSequence(parts) == IsSequenceOf(IsNumber, parts)
IsAlphaSequence(parts) == IsSequenceOf(LAMBDA s : Len(s) = 1 /\ s[1] \in Letters, parts)

Numeric(str) ==
  IF ~IsNumber(str) THEN str[1]
  ELSE IF str[1] = Dash THEN -FoldLeft(LAMBDA n, d : 10 * n + d - 48, 0, Tail(str))
  ELSE FoldLeft(LAMBDA n, d : 10 * n + d - 48, 0, str)
RECURSIVE NaturalText(_)
NaturalText(n) == IF n < 10 THEN <<48 + n>> ELSE NaturalText(n \div 10) \o <<48 + (n % 10)>>
IsPadded(str) ==
  LET unsigned == IF str # <<>> /\ str[1] = Dash THEN Tail(str) ELSE str
  IN Len(unsigned) > 1 /\ unsigned[1] = 48 /\ unsigned[2] \in Digits

\* A number of a sequence, padded with zeroes to a width.
NumberText(n, width) ==
  LET sign == IF n < 0 THEN <<Dash>> ELSE <<>>
      text == NaturalText(IF n < 0 THEN -n ELSE n)
  IN sign \o [k \in 1 .. width - Len(sign) - Len(text) |-> 48] \o text

\* The loop over a sequence, n being what is between the dots.
Step(n) == IF Len(n) < 3 THEN 1 ELSE LET s == Numeric(n[3]) IN IF s < 0 THEN -s ELSE s
Steps(x, y, step) ==
  [k \in 1 .. 1 + (IF x < y THEN y - x ELSE x - y) \div step |->
     IF y < x THEN x - (k - 1) * step ELSE x + (k - 1) * step]
Width(n) ==
  IF \E k \in DOMAIN n : IsPadded(n[k]) THEN Max({Len(n[1]), Len(n[2])}) ELSE 0
LetterText(c) == IF c = Backslash THEN <<>> ELSE <<c>>
Each(Op(_), seq) == [k \in DOMAIN seq |-> Op(seq[k])]
SequenceTexts(n) ==
  Each(LAMBDA v : IF IsAlphaSequence(n) THEN LetterText(v) ELSE NumberText(v, Width(n)),
       Steps(Numeric(n[1]), Numeric(n[2]), Step(n)))

\* All of one sequence with all of another, the last varying fastest.
Products(pre, first, second) ==
  FlattenSeq([j \in DOMAIN first |-> [k \in DOMAIN second |-> pre \o first[j] \o second[k]]])

RECURSIVE Expand(_, _), ExpandAt(_, _, _)
Expand(str, isTop) ==
  IF BalancedRange(str) = <<>> THEN <<str>> ELSE ExpandAt(str, Balanced(str), isTop)

\* A single part of a set keeps its braces, whatever is nested in it.
Embrace(parts) == Each(LAMBDA p : <<OpenBrace>> \o p \o <<CloseBrace>>, parts)
Options(parts) == IF Len(parts) = 1 THEN Embrace(Expand(parts[1], FALSE)) ELSE parts
ExpandAll(parts) == FlattenSeq(Each(LAMBDA p : Expand(p, FALSE), parts))
ExpandSet(m, options, post, isTop) ==
  IF Len(options) = 1 THEN Products(m.pre, options, post)
  ELSE SelectSeq(Products(m.pre, ExpandAll(options), post), LAMBDA s : ~isTop \/ s # <<>>)

IsSequence(n) == IsNumericSequence(n) \/ IsAlphaSequence(n)
CommaThenClose(str) ==
  \E j, k \in DOMAIN str : j < k /\ str[j] = Comma /\ str[k] = CloseBrace
ExpandAt(str, m, isTop) ==
  LET post == IF m.post = <<>> THEN <<<<>>>> ELSE Expand(m.post, FALSE)
  IN IF m.pre # <<>> /\ Last(m.pre) = Dollar THEN <<str>>
     ELSE IF IsSequence(Split(m.body, <<Dot, Dot>>))
       THEN Products(m.pre, SequenceTexts(Split(m.body, <<Dot, Dot>>)), post)
     ELSE IF Comma \in Range(m.body)
       THEN ExpandSet(m, Options(ParseCommaParts(m.body)), post, isTop)
     ELSE IF CommaThenClose(m.post)
       THEN Expand(m.pre \o <<OpenBrace>> \o m.body \o <<-CloseBrace>> \o m.post, FALSE)
     ELSE <<str>>

\* expandTop.
ExpandTop(str) ==
  LET safe == IF Len(str) > 1 /\ SubSeq(str, 1, 2) = <<OpenBrace, CloseBrace>>
                THEN <<-OpenBrace, -CloseBrace>> \o EscapeBraces(SubSeq(str, 3, Len(str)))
                ELSE EscapeBraces(str)
  IN IF str = <<>> THEN <<>> ELSE Each(UnescapeBraces, Expand(safe, TRUE))

-----------------------------------------------------------------------------
(* Properties, of a string, and of a pattern given by its structure: a      *)
(* sequence of pieces, each a literal text, a set of two or more patterns,  *)
(* or a sequence of numbers.                                                *)

\* The pairs of braces that close each other, a } with nothing open left out.
RECURSIVE Pairs(_, _, _)
Pairs(str, i, open) ==
  IF i = Len(str) THEN {}
  ELSE IF str[i + 1] = OpenBrace THEN Pairs(str, i + 1, Append(open, i))
  ELSE IF str[i + 1] = CloseBrace /\ open # <<>>
    THEN {<<Last(open), i>>} \cup Pairs(str, i + 1, Front(open))
  ELSE Pairs(str, i + 1, open)

\* range finds the leftmost brace that is ever closed, and where it is.
BalancedFindsLeftmostPair(str) ==
  LET pairs == Pairs(str, 0, <<>>) IN
  IF pairs = {} THEN BalancedRange(str) = <<>>
  ELSE BalancedRange(str) \in pairs /\ \A p \in pairs : BalancedRange(str)[1] <= p[1]

RECURSIVE Written(_), Meaning(_)
WrittenPiece(piece) ==
  CASE piece.is = "text" -> piece.text
    [] piece.is = "numbers" -> <<OpenBrace>> \o NumberText(piece.from, 0) \o <<Dot, Dot>>
                                 \o NumberText(piece.to, 0) \o <<CloseBrace>>
    [] piece.is = "set" ->
         <<OpenBrace>>
         \o FoldLeft(LAMBDA s, pattern : s \o <<Comma>> \o Written(pattern),
                     Written(Head(piece.of)), Tail(piece.of))
         \o <<CloseBrace>>
Written(pattern) == FlattenSeq([k \in DOMAIN pattern |-> WrittenPiece(pattern[k])])
Upward(from, to) == [k \in 1 .. to - from + 1 |-> NumberText(from + k - 1, 0)]
MeaningOfPiece(piece) ==
  CASE piece.is = "text" -> <<SelectSeq(piece.text, LAMBDA c : c # Backslash)>>
    [] piece.is = "numbers" -> IF piece.from <= piece.to THEN Upward(piece.from, piece.to)
                               ELSE Reverse(Upward(piece.to, piece.from))
    [] piece.is = "set" -> FlattenSeq([k \in DOMAIN piece.of |-> Meaning(piece.of[k])])
Meaning(pattern) ==
  FoldRight(LAMBDA piece, rest : Products(<<>>, MeaningOfPiece(piece), rest),
            pattern, <<<<>>>>)

\* "a{b,c{d,e}f}g -> abg acdfg acefg": a well-formed pattern expands to every
\* choice of its sets and sequences, in order, the empty string left out.
ExpansionIsMeaning(pattern) ==
  ExpandTop(Written(pattern)) = SelectSeq(Meaning(pattern), LAMBDA s : s # <<>>)
=============================================================================
