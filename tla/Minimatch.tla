------------------------------ MODULE Minimatch -------------------------------
(***************************************************************************)
(* wordcut.js 3116-4041: minimatch, which decides whether a path matches a *)
(* glob pattern.  A pattern is expanded, split at slashes, and each part   *)
(* is parsed to a string, to GLOBSTAR, or to a regular expression.         *)
(*                                                                         *)
(* A string is a sequence of code points; a regular expression is the      *)
(* sequence of its items.  Options are a record of the ones that are true  *)
(* or false here.  Left out: nocase, nobrace and the separator of Windows, *)
(* makeRe, the extglob lists ?( *( +( @( !(, and the escapes of a letter   *)
(* in a class, of which RegExp understands some.                           *)
(***************************************************************************)
EXTENDS Integers, SequencesExt

Slash == 47
Hash == 35
Bang == 33
Question == 63
Asterisk == 42
OpenClass == 91
CloseClass == 93
Caret == 94
Minus == 45
Period == 46
Escape == 92

Braces == INSTANCE BraceExpansion

-----------------------------------------------------------------------------
(* Regular expressions.                                                     *)

\* c, [...], [^...], [^/]*?, (?!\.), (?!(?:^|\/)\.{1,2}(?:$|\/)) and (?=.).
Char(c) == [is |-> "char", of |-> {c}]
OneOf(set) == [is |-> "class", of |-> set]
NoneOf(set) == [is |-> "except", of |-> set]
Star == [is |-> "star", of |-> {}]
NoDot == [is |-> "nodot", of |-> {}]
NoDots == [is |-> "nodots", of |-> {}]
NotEmpty == [is |-> "notempty", of |-> {}]
Qmark == NoneOf({Slash})

\* The places of a name that are reached from some places by an item.
Advance(name, at, item) ==
  CASE item.is \in {"char", "class"} -> {k + 1 : k \in {j \in at : j <= Len(name) /\ name[j] \in item.of}}
    [] item.is = "except" -> {k + 1 : k \in {j \in at : j <= Len(name) /\ name[j] \notin item.of}}
    [] item.is = "star" -> {k \in 1 .. Len(name) + 1 : \E j \in at : j <= k}
    [] item.is = "nodot" -> {k \in at : k <= Len(name) => name[k] # Period}
    [] item.is = "nodots" -> {k \in at : k = 1 => name \notin {<<Period>>, <<Period, Period>>}}
    [] item.is = "notempty" -> {k \in at : k <= Len(name)}
Test(re, name) ==
  Len(name) + 1 \in FoldLeft(LAMBDA at, item : Advance(name, at, item), {1}, re)

\* What is between [ and ]; an escaped c is -c.
Bare(c) == IF c < 0 THEN -c ELSE c
RECURSIVE ClassMembers(_), ValidRanges(_)
ClassMembers(class) ==
  IF class = <<>> THEN {}
  ELSE IF Len(class) > 2 /\ class[2] = Minus
    THEN Bare(class[1]) .. Bare(class[3]) \cup ClassMembers(SubSeq(class, 4, Len(class)))
  ELSE {Bare(class[1])} \cup ClassMembers(Tail(class))
ValidRanges(class) ==
  IF class = <<>> THEN TRUE
  ELSE IF Len(class) > 2 /\ class[2] = Minus
    THEN Bare(class[1]) <= Bare(class[3]) /\ ValidRanges(SubSeq(class, 4, Len(class)))
  ELSE ValidRanges(Tail(class))
Negated(class) == class # <<>> /\ class[1] = Caret
Listed(class) == IF Negated(class) THEN Tail(class) ELSE class
ValidClass(class) == ValidRanges(Listed(class))
ClassItem(class) ==
  IF Negated(class) THEN NoneOf(ClassMembers(Listed(class))) ELSE OneOf(ClassMembers(Listed(class)))

RECURSIVE AsClass(_)
AsClass(cs) ==
  IF Len(cs) > 1 /\ cs[1] = Escape THEN <<-cs[2]>> \o AsClass(SubSeq(cs, 3, Len(cs)))
  ELSE IF cs = <<>> THEN <<>> ELSE <<cs[1]>> \o AsClass(Tail(cs))

-----------------------------------------------------------------------------
(* parse.                                                                   *)

\* ( ) . * { } + ? [ ] ^ $ \ !
ReSpecials == {40, 41, 46, 42, 123, 125, 43, 63, 91, 93, 94, 36, 92, 33}
StateChars == {Question, Asterisk, 43, 64, Bang}
NoChar == 0

\* The variables of parse; class is what re has after reClassStart.
Start == [re |-> <<>>, magic |-> FALSE, escaping |-> FALSE, stateChar |-> NoChar,
          inClass |-> FALSE, classStart |-> 0, class |-> <<>>, valid |-> TRUE]

ClearStateChar(s) ==
  LET c == s.stateChar IN
  IF c = NoChar THEN s
  ELSE [s EXCEPT !.stateChar = NoChar,
                 !.magic = @ \/ c \in {Asterisk, Question},
                 !.re = Append(@, CASE c = Asterisk -> Star
                                    [] c = Question -> Qmark
                                    [] OTHER -> Char(c))]

\* re += c, escaped or as it is.
Literal(s, c) ==
  IF s.inClass THEN [s EXCEPT !.class = Append(@, -c)] ELSE [s EXCEPT !.re = Append(@, Char(c))]
Plain(s, c) ==
  IF s.inClass THEN [s EXCEPT !.class = Append(@, c)] ELSE [s EXCEPT !.re = Append(@, Char(c))]

GlobUnescape(text) ==
  LET class == AsClass(text) IN [k \in DOMAIN class |-> Bare(class[k])]

\* [...] that is no class: the [, and its contents parsed again.  parse gives
\* those two no pair, so sp[0] is undefined, which is added as a word.
Undefined == <<117, 110, 100, 101, 102, 105, 110, 101, 100>>
HasNoPair(cs, options) == cs = <<>> \/ (cs = <<Asterisk, Asterisk>> /\ ~options.noglobstar)
UndefinedItems == [k \in DOMAIN Undefined |-> Char(Undefined[k])]
AsBracket(s, sub) ==
  [s EXCEPT !.re = @ \o <<Char(OpenClass)>> \o sub.re, !.magic = @ \/ sub.magic,
            !.valid = @ /\ sub.valid, !.inClass = FALSE]

\* A class ends at its first ], the first character of it excepted.
CloseAnyway(s, i) == ~s.inClass
LiteralClose(s, i) == i = s.classStart + 1 \/ ~s.inClass

RECURSIVE ParseFrom(_, _, _, _), SubParse(_, _)
\* The loop of parse.
ParseFrom(pattern, options, i, s) ==
  LET c == pattern[i]
      cs == SubSeq(pattern, s.classStart + 1, i - 1)
      cleared == ClearStateChar(s)
      next ==
        IF s.escaping /\ c \in ReSpecials THEN [Literal(s, c) EXCEPT !.escaping = FALSE]
        ELSE IF c = Escape THEN [cleared EXCEPT !.escaping = TRUE]
        ELSE IF c \in StateChars
          THEN IF s.inClass THEN Plain(s, IF c = Bang /\ i = s.classStart + 1 THEN Caret ELSE c)
               ELSE [cleared EXCEPT !.stateChar = c]
        ELSE IF c \in {40, 41} THEN Literal(s, c)
        ELSE IF c = 124 THEN [Literal(s, c) EXCEPT !.escaping = FALSE]
        ELSE IF c = OpenClass
          THEN IF s.inClass THEN Literal(cleared, c)
               ELSE [cleared EXCEPT !.inClass = TRUE, !.classStart = i, !.class = <<>>]
        ELSE IF c = CloseClass
          THEN IF LiteralClose(s, i) THEN [Literal(s, c) EXCEPT !.escaping = FALSE]
               ELSE IF ~ValidClass(AsClass(cs))
                 THEN [AsBracket(s, SubParse(cs, options)) EXCEPT !.re = Append(@, Char(CloseClass))]
               ELSE [s EXCEPT !.magic = TRUE, !.inClass = FALSE, !.valid = @ /\ ValidClass(s.class),
                              !.re = Append(@, ClassItem(s.class))]
        ELSE IF cleared.escaping THEN [Plain(cleared, c) EXCEPT !.escaping = FALSE]
        ELSE Plain(cleared, c)
  IN IF i > Len(pattern) THEN s ELSE ParseFrom(pattern, options, i + 1, next)

\* What parse does after the loop, with the items before the first one.
Unclosed(pattern, options, s) ==
  IF s.inClass THEN AsBracket(s, SubParse(SubSeq(pattern, s.classStart + 1, Len(pattern)), options))
  ELSE s
Unescaped(s) == IF s.escaping THEN Append(s.re, Char(Escape)) ELSE s.re
Guard(first, pattern, options) ==
  IF first.is \notin {"class", "except", "star"} \/ pattern[1] = Period THEN <<>>
  ELSE IF options.dot THEN <<NoDots>> ELSE <<NoDot>>
Guarded(pattern, options, s, re) ==
  [re |-> Guard(Head(re), pattern, options) \o (IF s.magic THEN <<NotEmpty>> ELSE <<>>) \o re,
   magic |-> s.magic, valid |-> s.valid]
Finished(pattern, options, s) == Guarded(pattern, options, s, Unescaped(s))
Parsed(pattern, options) ==
  Finished(pattern, options,
           ClearStateChar(Unclosed(pattern, options, ParseFrom(pattern, options, 1, Start))))

SubParse(cs, options) ==
  IF HasNoPair(cs, options) THEN [re |-> UndefinedItems, magic |-> FALSE, valid |-> TRUE]
  ELSE Parsed(cs, options)

\* parse, of a part of a pattern, which has no slash; an invalid expression
\* matches nothing.
GLOBSTAR == [is |-> "globstar", re |-> <<>>, text |-> <<>>]
Matcher(part, p) ==
  IF ~p.magic THEN [is |-> "string", re |-> <<>>, text |-> GlobUnescape(part)]
  ELSE IF p.valid THEN [is |-> "regexp", re |-> p.re, text |-> <<>>]
  ELSE [is |-> "nothing", re |-> <<>>, text |-> <<>>]
Parse(part, options) ==
  CASE part = <<Asterisk, Asterisk>> /\ ~options.noglobstar -> GLOBSTAR
    [] part = <<>> -> [is |-> "string", re |-> <<>>, text |-> <<>>]
    [] OTHER -> Matcher(part, Parsed(part, options))

-----------------------------------------------------------------------------
(* Minimatch.                                                               *)

\* split(/\/+/), a run of slashes being one.
RECURSIVE SlashSplit(_)
SlashSplit(text) ==
  LET at == {k \in DOMAIN text : text[k] = Slash}
      after == {k \in Min(at) .. Len(text) + 1 : k \notin at}
  IN IF at = {} THEN <<text>>
     ELSE <<SubSeq(text, 1, Min(at) - 1)>> \o SlashSplit(SubSeq(text, Min(after), Len(text)))

Spaces == {9, 10, 13, 32}
RECURSIVE Trim(_)
Trim(text) ==
  IF text = <<>> THEN text
  ELSE IF Head(text) \in Spaces THEN Trim(Tail(text))
  ELSE IF Last(text) \in Spaces THEN Trim(Front(text))
  ELSE text

\* parseNegate: how many ! there are in front.
NegateOffset(pattern, options) ==
  IF options.nonegate THEN 0
  ELSE CHOOSE n \in 0 .. Len(pattern) :
         /\ Range(SubSeq(pattern, 1, n)) \subseteq {Bang}
         /\ n < Len(pattern) => pattern[n + 1] # Bang

BraceExpand(pattern) ==
  IF \E j, k \in DOMAIN pattern : j < k /\ pattern[j] = Braces!OpenBrace /\ pattern[k] = Braces!CloseBrace
    THEN Braces!ExpandTop(pattern) ELSE <<pattern>>

\* The constructor and make.
ParseAll(parts, options) == [k \in DOMAIN parts |-> Parse(parts[k], options)]
MakeSet(globs, options) == [k \in DOMAIN globs |-> ParseAll(SlashSplit(globs[k]), options)]
Comment(text, options) == ~options.nocomment /\ text # <<>> /\ text[1] = Hash
Make(text, offset, options) ==
  LET busted == Comment(text, options) \/ text = <<>>
  IN [comment |-> Comment(text, options), empty |-> text = <<>>, options |-> options,
      negate |-> ~busted /\ offset % 2 = 1,
      set |-> IF busted THEN <<>>
              ELSE MakeSet(BraceExpand(SubSeq(text, offset + 1, Len(text))), options)]
Minimatch(text, options) == Make(Trim(text), NegateOffset(Trim(text), options), options)

\* What GLOBSTAR may swallow.
Swallows(part, options) ==
  /\ part \notin {<<Period>>, <<Period, Period>>}
  /\ options.dot \/ part = <<>> \/ part[1] # Period

RECURSIVE MatchOne(_, _, _, _)
MatchOne(file, pattern, partial, options) ==
  LET p == Head(pattern)
      rest == Tail(pattern)
      Swallowed(n) == \A k \in 1 .. n : Swallows(file[k], options)
  IN IF file = <<>> THEN pattern = <<>> \/ partial
     ELSE IF pattern = <<>> THEN file = <<<<>>>>
     ELSE IF p.is = "globstar"
       THEN IF rest = <<>> THEN Swallowed(Len(file))
            ELSE \/ \E n \in 0 .. Len(file) - 1 :
                      Swallowed(n) /\ MatchOne(SubSeq(file, n + 1, Len(file)), rest, partial, options)
                 \/ partial /\ Swallowed(Len(file))
     ELSE /\ CASE p.is = "string" -> p.text = Head(file)
               [] p.is = "regexp" -> Test(p.re, Head(file))
               [] p.is = "nothing" -> FALSE
          /\ MatchOne(Tail(file), rest, partial, options)

\* The last part that is not empty, for matchBase; else the first.
Filename(file) ==
  LET named == {k \in DOMAIN file : file[k] # <<>>}
  IN IF named = {} THEN file[1] ELSE file[CHOOSE k \in named : \A j \in named : j <= k]

\* Minimatch.prototype.match.
Match(f, mm, partial) ==
  LET file == SlashSplit(f)
      Subject(pattern) ==
        IF mm.options.matchBase /\ Len(pattern) = 1 THEN <<Filename(file)>> ELSE file
      hit == \E k \in DOMAIN mm.set : MatchOne(Subject(mm.set[k]), mm.set[k], partial, mm.options)
  IN CASE mm.comment -> FALSE
       [] ~mm.comment /\ mm.empty -> f = <<>>
       [] OTHER -> \/ f = <<Slash>> /\ partial
                   \/ IF mm.options.flipNegate THEN hit ELSE hit # mm.negate

-----------------------------------------------------------------------------
(* Properties, of a path f and a pattern given by its structure: a sequence *)
(* of parts, each a sequence of pieces; a piece has its text and either the *)
(* characters it takes one of, or star.  Two stars are a globstar.          *)

PartText(part) == FlattenSeq([k \in DOMAIN part |-> part[k].text])
PatternText(parts) ==
  FoldLeft(LAMBDA text, part : text \o <<Slash>> \o PartText(part), PartText(Head(parts)), Tail(parts))
IsGlobstar(part) == PartText(part) = <<Asterisk, Asterisk>>
IsPlain(piece) == ~piece.star /\ Cardinality(piece.takes) = 1 /\ piece.text[1] # OpenClass

RECURSIVE PiecesMean(_, _)
PiecesMean(pieces, name) ==
  IF pieces = <<>> THEN name = <<>>
  ELSE IF Head(pieces).star
    THEN \E n \in 1 .. Len(name) + 1 : PiecesMean(Tail(pieces), SubSeq(name, n, Len(name)))
  ELSE name # <<>> /\ Head(name) \in Head(pieces).takes /\ PiecesMean(Tail(pieces), Tail(name))

\* What is not asked for by name is not found hidden, nor are . and .. ever.
Visible(name, dot) ==
  name \notin {<<Period>>, <<Period, Period>>} /\ (dot \/ name = <<>> \/ name[1] # Period)
PartMeans(part, name, dot) ==
  /\ PiecesMean(part, name)
  /\ part # <<>> /\ ~IsPlain(part[1]) => Visible(name, dot)
  /\ (\E k \in DOMAIN part : ~IsPlain(part[k])) => name # <<>>

\* The parts of the pattern take consecutive parts of the path, a globstar any
\* number of visible ones, and at least one at the end.
PathMeans(parts, file, dot) ==
  \E cut \in [0 .. Len(parts) -> 0 .. Len(file)] :
    /\ cut[0] = 0
    /\ \/ cut[Len(parts)] = Len(file)
       \/ cut[Len(parts)] = Len(file) - 1 /\ Last(file) = <<>>
    /\ \A k \in 1 .. Len(parts) :
         IF IsGlobstar(parts[k])
           THEN /\ cut[k - 1] <= cut[k]
                /\ k = Len(parts) => cut[k - 1] < cut[k]
                /\ \A j \in cut[k - 1] + 1 .. cut[k] : Visible(file[j], dot)
           ELSE cut[k] = cut[k - 1] + 1 /\ PartMeans(parts[k], file[cut[k]], dot)

Options(dot) == [dot |-> dot, noglobstar |-> FALSE, nonegate |-> FALSE, nocomment |-> FALSE,
                 matchBase |-> FALSE, flipNegate |-> FALSE]
Matches(f, text, dot) == Match(f, Minimatch(text, Options(dot)), FALSE)

\* A path matches what its pattern means: the text of a pattern, parsed to
\* regular expressions with their guards against empty and hidden names and
\* matched with all the ways of a globstar, loses and adds nothing.
MatchIsMeaning(f, parts, dot) ==
  Matches(f, PatternText(parts), dot) <=> PathMeans(parts, SlashSplit(f), dot)

\* "!" turns the answer round, and {a,b} asks for a or b.
Bangs(n) == [k \in 1 .. n |-> Bang]
Either(a, b) == <<Braces!OpenBrace>> \o a \o <<Braces!Comma>> \o b \o <<Braces!CloseBrace>>
NegationAndChoice(f, parts, others, dot) ==
  LET asked == \E text \in {PatternText(parts), PatternText(others)} : Matches(f, text, dot)
  IN \A n \in 0 .. 2 :
       Matches(f, Bangs(n) \o Either(PatternText(parts), PatternText(others)), dot)
         <=> (asked <=> n % 2 = 0)

PartialHolds(file, pattern, options) ==
  MatchOne(file, pattern, FALSE, options) =>
    \A n \in 1 .. Len(file) : MatchOne(SubSeq(file, 1, n), pattern, TRUE, options)

\* "Partial means, if you run out of file before you run out of pattern, then
\* that's fine": on the way down to a match no directory is refused.
PrefixesMatchPartially(f, parts, dot) ==
  PartialHolds(SlashSplit(f), ParseAll([k \in DOMAIN parts |-> PartText(parts[k])], Options(dot)),
               Options(dot))
=============================================================================
