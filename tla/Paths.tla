-------------------------------- MODULE Paths ---------------------------------
(***************************************************************************)
(* wordcut.js 4085-4313: the posix path module of the bundle, which the    *)
(* dictionary and glob use.  A path is the sequence of the pieces between  *)
(* its slashes: "" is <<"">>, "/" is <<"", "">>, "a//b/" is                *)
(* <<"a", "", "b", "">>.                                                   *)
(***************************************************************************)
EXTENDS Naturals, SequencesExt

Empty == <<"">>
NonEmpty(path) == SelectSeq(path, LAMBDA part : part # "")
IsAbsolute(path) == Len(path) > 1 /\ Head(path) = ""
TrailingSlash(path) == Len(path) > 1 /\ Last(path) = ""

\* normalizeArray, which goes from the last part to the first.
UpForgotten(part, acc) == [acc EXCEPT !.kept = IF part = ".." THEN @ ELSE <<part>> \o @]
KeepOrSkip(part, acc) ==
  CASE part = "." -> acc
    [] part = ".." -> [acc EXCEPT !.up = @ + 1]
    [] part \notin {".", ".."} /\ acc.up > 0 -> [acc EXCEPT !.up = @ - 1]
    [] OTHER -> [acc EXCEPT !.kept = <<part>> \o @]
NormalizeArray(parts, allowAboveRoot) ==
  LET done == FoldRight(KeepOrSkip, parts, [up |-> 0, kept |-> <<>>])
      ups == IF allowAboveRoot THEN [k \in 1 .. done.up |-> ".."] ELSE <<>>
  IN ups \o done.kept

Join(absolute, parts, slash) ==
  (IF absolute THEN <<"">> ELSE <<>>) \o parts \o (IF slash THEN <<"">> ELSE <<>>)

Normalize(path) ==
  LET parts == NormalizeArray(NonEmpty(path), ~IsAbsolute(path)) IN
  IF parts = <<>> /\ IsAbsolute(path) THEN <<"", "">>
  ELSE Join(IsAbsolute(path), IF parts = <<>> THEN <<".">> ELSE parts, TrailingSlash(path))

\* join: the arguments that are not empty, with slashes between.
JoinPaths(paths) ==
  LET joined == FlattenSeq(SelectSeq(paths, LAMBDA p : p # Empty))
  IN Normalize(IF joined = <<>> THEN Empty ELSE joined)

\* resolve: from the last absolute argument on, or from process.cwd(), "/".
Cwd == <<"", "">>
Resolve(paths) ==
  LET all == <<Cwd>> \o paths
      from == CHOOSE k \in DOMAIN all :
                IsAbsolute(all[k]) /\ \A j \in k + 1 .. Len(all) : ~IsAbsolute(all[j])
      parts == NormalizeArray(NonEmpty(FlattenSeq(SubSeq(all, from, Len(all)))), FALSE)
  IN IF parts = <<>> THEN <<"", "">> ELSE Join(TRUE, parts, FALSE)

\* relative.
Relative(from, to) ==
  LET f == NonEmpty(Resolve(<<from>>))
      t == NonEmpty(Resolve(<<to>>))
      same == CHOOSE n \in 0 .. Len(f) :
                /\ n <= Len(t)
                /\ SubSeq(f, 1, n) = SubSeq(t, 1, n)
                /\ n < Len(f) /\ n < Len(t) => f[n + 1] # t[n + 1]
      out == [k \in 1 .. Len(f) - same |-> ".."] \o SubSeq(t, same + 1, Len(t))
  IN IF out = <<>> THEN Empty ELSE out

-----------------------------------------------------------------------------
(* Properties, of the paths a and b.                                        *)

\* Where one gets by following the parts of a path from the left.
Enter(place, part) ==
  CASE part \in {"", "."} -> place
    [] part = ".." /\ place.at # <<>> -> [place EXCEPT !.at = Front(@)]
    [] part = ".." /\ place.at = <<>> -> [place EXCEPT !.above = @ + 1]
    [] OTHER -> [place EXCEPT !.at = Append(@, part)]
Followed(path) ==
  LET place == FoldLeft(Enter, [above |-> 0, at |-> <<>>], path)
  IN IF IsAbsolute(path) THEN [place EXCEPT !.above = 0] ELSE place

\* normalize keeps where a path leads, in the fewest parts, and what kind of
\* path it is; normalizing again changes nothing.
NormalizeKeepsThePlace(a) ==
  LET n == Normalize(a) IN
  /\ Followed(n) = Followed(a)
  /\ IsAbsolute(n) = IsAbsolute(a)
  /\ Normalize(n) = n
  /\ NonEmpty(n) = <<".">> \/ Len(NonEmpty(n)) = Followed(a).above + Len(Followed(a).at)

\* relative leads from one path to the other.
RelativeLeadsThere(a, b) == Resolve(<<a, Relative(a, b)>>) = Resolve(<<b>>)

\* join and resolve go on from where the first path leads.
JoinFollowsBoth(a, b) ==
  ~IsAbsolute(b) => Followed(Resolve(<<a, b>>)) = Followed(Resolve(<<JoinPaths(<<a, b>>)>>))
=============================================================================
