------------------------------ MODULE SiteSearch ------------------------------
(***************************************************************************)
(* The search code that is shipped with the site, on small instances: what *)
(* SiteState and SiteText compose, and the file walker glob.  A behaviour  *)
(* is one part of them; the others keep their initial state.               *)
(***************************************************************************)
EXTENDS SiteText

CONSTANT Pauses   \* bound

VARIABLES tree, w   \* glob

-----------------------------------------------------------------------------
(* Trees, from the entries of their directories; a link leads to one.  The  *)
(* paths through links end at a depth that no walk here reaches.            *)

Real(links, names) ==
  FoldLeft(LAMBDA dir, name : LET there == Append(dir, name) IN
                              IF there \in DOMAIN links THEN links[there] ELSE there,
           <<>>, names)
RECURSIVE PathsOf(_, _, _)
PathsOf(list, links, depth) ==
  IF depth = 0 THEN {<<>>}
  ELSE {<<>>} \cup UNION {{Append(p, name) : name \in ToSet(list[Real(links, p)])} :
                          p \in {q \in PathsOf(list, links, depth - 1) : Real(links, q) \in DOMAIN list}}
MakeTree(list, links, unreadable, depth) ==
  LET paths == PathsOf(list, links, depth)
      dirs == {p \in paths : Real(links, p) \in DOMAIN list}
      isLink(p) == p # <<>> /\ Append(Real(links, Front(p)), Last(p)) \in DOMAIN links
  IN [kind |-> [p \in paths |-> IF isLink(p) THEN "link"
                                ELSE IF Real(links, p) \in unreadable THEN "unreadable"
                                ELSE IF p \in dirs THEN "dir" ELSE "file"],
      entries |-> [p \in dirs |-> list[Real(links, p)]],
      target |-> [p \in paths |-> Real(links, p)]]

NoLinks == [p \in {} |-> <<>>]
SmallTrees == [
  plain |-> MakeTree(<<>> :> <<"a", "f", ".h">> @@ <<"a">> :> <<"b", "f">>
                     @@ <<"a", "b">> :> <<"f">> @@ <<".h">> :> <<"f">>, NoLinks, {}, 4),
  linked |-> MakeTree(<<>> :> <<"a", "l">> @@ <<"a">> :> <<"f", "m">>,
                      <<"l">> :> <<"a">> @@ <<"a", "m">> :> <<"a">>, {}, 6),
  locked |-> MakeTree(<<>> :> <<"a", "x">> @@ <<"a">> :> <<"f">> @@ <<"x">> :> <<>>, NoLinks, {<<"x">>}, 3)]

-----------------------------------------------------------------------------
(* Patterns and options.                                                    *)

Part(is, name, matches) == [is |-> is, name |-> name, matches |-> matches, dot |-> FALSE]
N(name) == Part("name", name, {})
AllNames == {"a", "b", "f", "l", "m", "x", ".h"}
Star == Part("regexp", "", AllNames)
FOrM == Part("regexp", "", {"f", "m"})
All == Part("globstar", "", {})
Slash == N("")

Defaults == [dot |-> FALSE, follow |-> FALSE, mark |-> FALSE, nodir |-> FALSE, stat |-> FALSE,
             realpath |-> FALSE, strict |-> TRUE, ignore |-> {}, onMatch |-> "go on", may |-> {}]
Plain(set) == [set |-> set, opts |-> Defaults]
Dot(set) == [set |-> set, opts |-> [Defaults EXCEPT !.dot = TRUE]]
Pausing(set) == [set |-> set, opts |-> [Defaults EXCEPT !.may = {"pause"}]]
PausingAtMatches(set) == [set |-> set, opts |-> [Defaults EXCEPT !.onMatch = "pause"]]
Aborting(set) == [set |-> set, opts |-> [Defaults EXCEPT !.may = {"abort"}]]
AbortingAtMatch(set) == [set |-> set, opts |-> [Defaults EXCEPT !.onMatch = "abort"]]
Ignoring(set, dir) == [set |-> set, opts |-> [Defaults EXCEPT !.ignore = {dir}]]
Marking(set) == [set |-> set, opts |-> [Defaults EXCEPT !.mark = TRUE]]
NoDirectories(set) == [set |-> set, opts |-> [Defaults EXCEPT !.nodir = TRUE]]
Following(set) == [set |-> set, opts |-> [Defaults EXCEPT !.follow = TRUE]]
Stating(set) == [set |-> set, opts |-> [Defaults EXCEPT !.stat = TRUE]]
RealPaths(set) == [set |-> set, opts |-> [Defaults EXCEPT !.realpath = TRUE]]
Lenient(set) == [set |-> set, opts |-> [Defaults EXCEPT !.strict = FALSE]]

On(tree_, globs) == [tree |-> tree_, calls |-> globs]
SmallScenarios == {
  \* one pattern or two, with every kind of part
  On("plain", <<Plain(<<<<All>>>>)>>), On("plain", <<Plain(<<<<All, N("f")>>>>)>>),
  On("plain", <<Plain(<<<<Star, Slash>>>>)>>), On("plain", <<Dot(<<<<All>>>>)>>),
  On("plain", <<Plain(<<<<N("a"), N("f")>>, <<N("a"), Star>>>>)>>),
  On("plain", <<Plain(<<<<N("a"), Slash>>, <<Star, N("f"), Slash>>>>)>>),
  On("plain", <<Plain(<<<<N("a"), All, N("f")>>, <<N("x"), Star>>>>)>>),
  On("plain", <<Plain(<<>>)>>),
  \* options
  On("plain", <<Ignoring(<<<<All>>>>, <<"a">>)>>), On("plain", <<Ignoring(<<<<N("a"), Star>>>>, <<"a">>)>>),
  \* an ignored prefix first, or last, or every one
  On("plain", <<Ignoring(<<<<N("a"), Star>>, <<Star>>>>, <<"a">>)>>),
  On("plain", <<Ignoring(<<<<Star>>, <<N("a"), Star>>>>, <<"a">>)>>),
  On("plain", <<Ignoring(<<<<N("a"), Star>>, <<N("a"), All>>>>, <<"a">>)>>),
  On("plain", <<Marking(<<<<Star>>, <<N("a"), Star>>>>)>>), On("plain", <<NoDirectories(<<<<All>>>>)>>),
  On("plain", <<Stating(<<<<Star, Star>>>>)>>),
  On("linked", <<Plain(<<<<All>>>>)>>), On("linked", <<Plain(<<<<All, FOrM>>, <<N("l"), Star>>>>)>>),
  On("linked", <<RealPaths(<<<<All, N("f")>>, <<N("x")>>>>)>>),
  On("linked", <<RealPaths(<<<<N("x")>>>>)>>),
  On("linked", <<Following(<<<<N("l"), Star, Star>>>>)>>),
  On("locked", <<Lenient(<<<<All>>>>)>>), On("locked", <<Plain(<<<<Star, Star>>>>)>>),
  \* users and other globs
  On("plain", <<Pausing(<<<<N("a"), All>>>>)>>), On("plain", <<PausingAtMatches(<<<<All>>>>)>>),
  On("plain", <<Aborting(<<<<All>>>>), Plain(<<<<N("a"), Star>>>>)>>),
  On("plain", <<AbortingAtMatch(<<<<All>>>>)>>),
  On("plain", <<Plain(<<<<N("a"), All>>>>), Plain(<<<<N("a"), Star>>, <<N("a"), N("f")>>>>)>>),
  On("plain", <<Plain(<<<<N("a"), Star>>>>), Pausing(<<<<N("a"), All>>>>)>>),
  On("linked", <<Plain(<<<<N("a"), All>>>>), Plain(<<<<N("l"), All>>>>)>>),
  On("plain", <<Plain(<<<<N("a"), All>>>>), Plain(<<<<N("a"), All, N("f")>>>>)>>),
  On("locked", <<Plain(<<<<N("a"), All>>>>), Lenient(<<<<All>>>>)>>)}
Walk == INSTANCE Glob WITH
          Trees <- SmallTrees, Hidden <- {".h"}, Scenarios <- SmallScenarios,
          MaxGlobs <- 2, MaxPauses <- Pauses

-----------------------------------------------------------------------------
walkVars == <<tree, w>>
vars == <<stateVars, sample, walkVars>>

Init ==
  /\ part \in {"wordcut", "tinyseg", "functions", "glob", "ticks", "events"}
  /\ StateInit
  /\ TextInit
  /\ Walk!Init
  /\ part # "glob" => tree = "plain" /\ w.globs = <<Walk!NewGlob(<<>>, Defaults)>>

OfGlob == part = "glob" /\ UNCHANGED <<stateVars, sample>>
Next ==
  \/ StateNext /\ UNCHANGED <<sample, walkVars>>
  \/ Evaluated /\ UNCHANGED walkVars
  \/ Walk!Next /\ OfGlob

\* The fairness of the modules; for glob's, see there.
Timer == Ticks!Timer /\ OfTicks /\ UNCHANGED <<sample, walkVars>>
Running == Ticks!Running /\ OfTicks /\ UNCHANGED <<sample, walkVars>>
Spec ==
  /\ Init /\ [][Next]_vars
  /\ []<>Walk!Idle \/ []<><<OfGlob>>_vars
  /\ WF_vars(Timer) /\ WF_vars(Running)

-----------------------------------------------------------------------------
(* Properties, explained where the modules define them; see also SiteText   *)
(* and SiteState.                                                           *)


\* glob: nothing is emitted once it is aborted.
QuietAfterAbort == Walk!QuietAfterAbort

\* glob and nextTick: every glob ends, every item is run.
EverythingEnds ==
  /\ \A g \in 1 .. 2 : part = "glob" /\ Walk!Called(g) ~> Walk!Over(g)
  /\ \A n \in 1 .. MaxItems : part = "ticks" /\ items >= n ~> Len(ran) >= n
=============================================================================
