--------------------------------- MODULE Glob ---------------------------------
(***************************************************************************)
(* wordcut.js 1564-3091: glob, which walks a file tree for the paths that  *)
(* match a pattern.  Its calls of the file system are answered in any      *)
(* order, equal calls of all globs are one call (inflight), each glob      *)
(* caches what it has learned, and its user may pause and abort it.        *)
(* GlobSync, at the end, does the same work in one go.                     *)
(*                                                                         *)
(* Everything that runs on one answer is one step: the operators take what *)
(* the program has, w, and give what it has then.  A path is the sequence  *)
(* of its names from the working directory, which is the root; a last ""   *)
(* is its trailing slash.  Left out: absolute patterns, nonull, nounique,  *)
(* nocase, nonegate, and trees that change, in which lstat's answer and    *)
(* readdir's may differ.  The ignore patterns are dir/** ones.             *)
(***************************************************************************)
EXTENDS Integers, SequencesExt, Bags

CONSTANTS
  Trees,            \* each: what a path is, "file", "dir", "unreadable" or "link",
                    \* its entries if it is a directory, and its real path
  Hidden,           \* the names that start with a dot
  Scenarios,        \* each: the name of a tree, and the patterns and options of
                    \* the globs that are called on it
  MaxGlobs, MaxPauses

VARIABLES
  tree,             \* the file system
  w                 \* what the program has
vars == <<tree, w>>

Tree == Trees[tree].kind
Entries(abs) == Trees[tree].entries[abs]
Target(abs) == Trees[tree].target[abs]
Running == DOMAIN w.globs

-----------------------------------------------------------------------------
(* Patterns and paths.                                                      *)

\* Parts of a pattern are names, GLOBSTAR or regular expressions.
Name(n) == [is |-> "name", name |-> n, matches |-> {}, dot |-> FALSE]
RegExp(names, dot) == [is |-> "regexp", name |-> "", matches |-> names, dot |-> dot]
GLOBSTAR == [is |-> "globstar", name |-> "", matches |-> {}, dot |-> FALSE]
NamesOf(parts) == [k \in DOMAIN parts |-> parts[k].name]
AsParts(path) == [k \in DOMAIN path |-> Name(path[k])]

\* makeAbs, which drops a trailing slash.
TrailingSlash(path) == path # <<>> /\ Last(path) = ""
MakeAbs(path) == IF TrailingSlash(path) THEN Front(path) ELSE path
EmptyPath == <<"", "">>   \* "", which is no file, unlike the root

\* The first [n] parts of pattern that are all strings.
PrefixLength(pattern) ==
  CHOOSE n \in 0 .. Len(pattern) :
    /\ \A k \in 1 .. n : pattern[k].is = "name"
    /\ n < Len(pattern) => pattern[n + 1].is # "name"

IsIgnored(opts, path) ==
  \E dir \in opts.ignore :
    \/ MakeAbs(path) = dir
    \/ IsStrictPrefix(dir, path) /\ Range(SubSeq(path, Len(dir) + 1, Len(path))) \cap Hidden = {}
ChildrenIgnored(opts, read) == read \in opts.ignore

\* The file system: what lstat, stat and readdir answer.
IsDir(abs) == abs \in DOMAIN Tree /\ Tree[abs] # "file" /\ Tree[Target(abs)] # "file"
LstatAnswer(abs) ==
  IF abs \notin DOMAIN Tree THEN "error"
  ELSE IF Tree[abs] = "unreadable" THEN "dir" ELSE Tree[abs]
StatAnswer(abs) == IF IsDir(abs) THEN "dir" ELSE "file"
ReaddirAnswer(abs) ==
  IF abs \notin DOMAIN Tree THEN "ENOENT"
  ELSE IF ~IsDir(abs) THEN "ENOTDIR"
  ELSE IF Tree[Target(abs)] = "unreadable" THEN "EACCES" ELSE "entries"

-----------------------------------------------------------------------------
(* setopts and the constructor's fields.                                    *)

Has(f, x) == x \in DOMAIN f
Put(f, x, y) == [z \in DOMAIN f \cup {x} |-> IF z = x THEN y ELSE f[z]]
Nothing == [x \in {} |-> "nothing"]

NoOptions == [dot |-> FALSE, follow |-> FALSE, mark |-> FALSE, nodir |-> FALSE, stat |-> FALSE,
              realpath |-> FALSE, strict |-> TRUE, ignore |-> {}, onMatch |-> "go on", may |-> {}]
NewGlob(set, opts) ==
  [set |-> set, opts |-> [opts EXCEPT !.mark = @ \/ opts.nodir], called |-> FALSE,
   processing |-> 0, matches |-> [i \in DOMAIN set |-> {}],
   emitQueue |-> <<>>, processQueue |-> <<>>, paused |-> FALSE, aborted |-> FALSE,
   cache |-> Nothing, statCache |-> Nothing, symlinks |-> Nothing,
   didRealpath |-> FALSE, realLeft |-> [i \in DOMAIN set |-> 0],
   pauses |-> 0, emits |-> 0, errors |-> 0, ends |-> 0, found |-> {}]

\* What users may call at any time is in opts.may, and opts.onMatch is what
\* their listener of match calls.
Pause(glob) == [glob EXCEPT !.paused = TRUE, !.pauses = @ + 1]
Abort(glob) == [glob EXCEPT !.aborted = TRUE]

-----------------------------------------------------------------------------
(* Matches and the end.                                                     *)

\* cache: a truthy value is "exists", "FILE", "DIR" or "entries".
KnownDir(glob, abs) == Has(glob.cache, abs) /\ glob.cache[abs] \in {"DIR", "entries"}
KnownThere(glob, abs) == Has(glob.cache, abs) /\ glob.cache[abs] # "false"

\* mark, whose copies in the caches are of the same absolute path.
Mark(glob, p) ==
  LET abs == MakeAbs(p) IN
  IF ~KnownThere(glob, abs) THEN p
  ELSE IF KnownDir(glob, abs) THEN abs \o <<"">> ELSE abs

\* common.finish.
Found(glob) ==
  LET all == UNION Range(glob.matches)
      marked == IF glob.opts.mark THEN {Mark(glob, m) : m \in all} ELSE all
  IN {m \in marked : ~(glob.opts.nodir /\ TrailingSlash(m)) /\ ~IsIgnored(glob.opts, m)}

Issue(v, op, abs, cb) == [v EXCEPT !.pending = @ (+) SetToBag({[op |-> op, abs |-> abs, cb |-> cb]})]
Update(v, g, glob) == [v EXCEPT !.globs[g] = glob]

\* _finish: the end, or first _realpath with one call for each match.
NeverQuiet(glob) == FALSE
Quiet(glob) == glob.aborted
End(v, g) == [v EXCEPT !.globs[g].found = Found(v.globs[g]), !.globs[g].ends = @ + 1]
RealpathSet(v, g, i) ==
  LET set == v.globs[g].matches[i]
      start == Update(v, g, [v.globs[g] EXCEPT !.matches[i] = {}, !.realLeft[i] = Cardinality(set)])
  IN FoldSet(LAMBDA p, acc : Issue(acc, "realpath", MakeAbs(p), [do |-> "realpath", who |-> g, index |-> i]),
             start, set)
Finish(v, g) ==
  LET glob == v.globs[g]
      started == FoldLeft(LAMBDA acc, i : RealpathSet(acc, g, i),
                          [v EXCEPT !.globs[g].didRealpath = TRUE], [i \in DOMAIN glob.matches |-> i])
      found == UNION Range(glob.matches) # {}
  IN IF Quiet(glob) THEN v
     ELSE IF glob.opts.realpath /\ ~glob.didRealpath
       THEN IF found THEN started ELSE End(started, g)
     ELSE End(v, g)

\* The callback of realpath.
RealpathDone(v, cb, real) ==
  LET glob == [v.globs[cb.who] EXCEPT !.matches[cb.index] = @ \cup {real}, !.realLeft[cb.index] = @ - 1]
      next == Update(v, cb.who, glob)
  IN IF \A i \in DOMAIN glob.realLeft : glob.realLeft[i] = 0 THEN Finish(next, cb.who) ELSE next

\* done, the last callback of everything.
Done(v, g) ==
  LET next == [v EXCEPT !.globs[g].processing = @ - 1]
  IN IF next.globs[g].processing <= 0 THEN Finish(next, g) ELSE next

EmitMatch(v, g, index, e) ==
  LET glob == v.globs[g]
      marked == IF glob.opts.mark THEN Mark(glob, e) ELSE e
      emitted == [glob EXCEPT !.matches[index] = @ \cup {marked}, !.emits = @ + 1]
  IN IF glob.aborted \/ e \in glob.matches[index] \/ IsIgnored(glob.opts, e) THEN v
     ELSE IF glob.paused THEN [v EXCEPT !.globs[g].emitQueue = Append(@, <<index, e>>)]
     ELSE IF glob.opts.nodir /\ KnownDir(glob, MakeAbs(e)) THEN v
     ELSE Update(v, g, CASE glob.opts.onMatch = "go on" -> emitted
                         [] glob.opts.onMatch = "pause" -> Pause(emitted)
                         [] glob.opts.onMatch = "abort" -> Abort(emitted))

-----------------------------------------------------------------------------
(* Callbacks, run with an answer, and what they call in turn.               *)

RECURSIVE Apply(_, _, _), Process(_, _, _, _, _), Readdir(_, _, _, _, _)

Cache(v, g, abs, what) == [v EXCEPT !.globs[g].cache = Put(@, abs, what)]

\* inflight: the callbacks of a call that is under way wait for its answer.
Wait(v, key, cb) == [v EXCEPT !.reqs[key] = Append(@, cb)]
First(v, key, cb) == [v EXCEPT !.reqs = Put(@, key, <<cb>>)]
Res(key) == [do |-> "res", key |-> key]

\* RES: those that were added while the callbacks ran are called in a later
\* tick, with the same answer.
Forget(v, key, late, answer) == [v EXCEPT !.reqs = Restrict(@, DOMAIN @ \ {key})]
Later(v, key, late, answer) ==
  IF late = <<>> THEN Forget(v, key, late, answer)
  ELSE [v EXCEPT !.reqs[key] = late, !.ticks = Append(@, [key |-> key, answer |-> answer])]
RunReqs(v, key, answer) ==
  LET cbs == v.reqs[key]
      called == FoldLeft(LAMBDA acc, cb : Apply(acc, cb, answer), v, cbs)
  IN Later(called, key, SubSeq(called.reqs[key], Len(cbs) + 1, Len(called.reqs[key])), answer)

\* _stat and _stat2 for _processSimple2: the prefix f exists or does not.
ProcessSimple2(v, g, f, index, exists) ==
  Done(IF exists THEN EmitMatch(v, g, index, f) ELSE v, g)

Enough(what, needDir) == ~needDir \/ what \in {"DIR", "entries", "FILE"}
Stat(v, g, f, index) ==
  LET glob == v.globs[g]
      abs == MakeAbs(f)
      needDir == TrailingSlash(f)
      what == glob.cache[abs]
      key == [op |-> "stat", abs |-> abs, deep |-> FALSE]
      cb == [do |-> "stat", who |-> g, f |-> f, index |-> index]
  IN IF ~glob.opts.stat /\ Has(glob.cache, abs) /\ Enough(what, needDir)
       THEN ProcessSimple2(v, g, f, index, IF needDir THEN KnownDir(glob, abs) ELSE what # "false")
     ELSE IF Has(glob.statCache, abs)
       THEN ProcessSimple2(v, g, f, index,
                           glob.statCache[abs] \in IF needDir THEN {"dir"} ELSE {"dir", "file"})
     ELSE IF Has(v.reqs, key) THEN Wait(v, key, cb)
     ELSE Issue(First(v, key, cb), "lstat", abs, Res(key))

Stat2(v, cb, answer) ==
  LET abs == MakeAbs(cb.f)
      what == IF answer = "dir" THEN "DIR" ELSE "FILE"
      next == [v EXCEPT !.globs[cb.who].statCache = Put(@, abs, IF answer = "error" THEN "false" ELSE answer)]
      known == IF answer = "error" \/ KnownThere(v.globs[cb.who], abs) THEN next
               ELSE Cache(next, cb.who, abs, what)
      exists == IF TrailingSlash(cb.f) THEN answer = "dir" ELSE answer # "error"
  IN ProcessSimple2(known, cb.who, cb.f, cb.index, exists)

StatAnswered(v, cb, answer) ==
  IF answer = "link" THEN Issue(v, "stat", MakeAbs(cb.f), [cb EXCEPT !.do = "stat2"])
  ELSE Stat2(v, cb, answer)

\* _readdir and _readdirInGlobStar.
ReaddirInGlobStar(v, g, abs, cb) ==
  LET key == [op |-> "lstat", abs |-> abs, deep |-> FALSE]
      lstatcb == [do |-> "inglobstar", who |-> g, abs |-> abs, cb |-> cb]
  IN IF v.globs[g].opts.follow THEN Readdir(v, g, abs, FALSE, cb)
     ELSE IF Has(v.reqs, key) THEN Wait(v, key, lstatcb)
     ELSE Issue(First(v, key, lstatcb), "lstat", abs, Res(key))

Readdir(v, g, abs, inGlobStar, cb) ==
  LET glob == v.globs[g]
      key == [op |-> "readdir", abs |-> abs, deep |-> inGlobStar]
      next == First(v, key, cb)
  IN IF glob.aborted THEN v
     ELSE IF Has(v.reqs, key) THEN Wait(v, key, cb)
     ELSE IF inGlobStar /\ ~Has(glob.symlinks, abs) THEN ReaddirInGlobStar(next, g, abs, Res(key))
     ELSE IF Has(glob.cache, abs) /\ glob.cache[abs] \in {"false", "FILE"}
       THEN Apply(next, Res(key), "nothing")
     ELSE IF Has(glob.cache, abs) /\ glob.cache[abs] = "entries"
       THEN Apply(next, Res(key), "entries")
     ELSE Issue(next, "readdir", abs, [do |-> "readdir", who |-> g, abs |-> abs, cb |-> Res(key)])

LstatAnswered(v, cb, answer) ==
  LET next == [v EXCEPT !.globs[cb.who].symlinks = Put(@, cb.abs, answer = "link")]
  IN IF answer = "error" THEN Apply(v, cb.cb, "nothing")
     ELSE IF answer = "file" THEN Apply(Cache(next, cb.who, cb.abs, "FILE"), cb.cb, "nothing")
     ELSE Readdir(next, cb.who, cb.abs, FALSE, cb.cb)

\* _readdirEntries and _readdirError.
ReaddirAnswered(v, cb, answer) ==
  LET glob == v.globs[cb.who]
      entries == {Append(cb.abs, e) : e \in Range(Entries(cb.abs))}
      seen == IF glob.opts.mark \/ glob.opts.stat THEN glob.cache
              ELSE [p \in DOMAIN glob.cache \cup entries |->
                      IF p \in entries THEN "exists" ELSE glob.cache[p]]
      failed == Abort([glob EXCEPT !.errors = @ + 1])
  IN CASE glob.aborted -> v
       [] ~glob.aborted /\ answer = "entries" ->
            Apply(Cache(Update(v, cb.who, [glob EXCEPT !.cache = seen]), cb.who, cb.abs, "entries"),
                  cb.cb, "entries")
       [] ~glob.aborted /\ answer = "ENOTDIR" ->
            Apply(Cache(v, cb.who, cb.abs, "FILE"), cb.cb, "nothing")
       [] ~glob.aborted /\ answer = "ENOENT" ->
            Apply(Cache(v, cb.who, cb.abs, "false"), cb.cb, "nothing")
       [] ~glob.aborted /\ answer = "EACCES" ->
            Apply(Cache(IF glob.opts.strict THEN Update(v, cb.who, failed) ELSE v,
                        cb.who, cb.abs, "false"),
                  cb.cb, "nothing")

\* _processReaddir2 and _processGlobStar2, with the entries or without.
ProcessReaddir2(v, cb, answer) ==
  LET glob == v.globs[cb.who]
      pn == Head(cb.remain)
      matched == SelectSeq(Entries(cb.abs),
                           LAMBDA e : e \in pn.matches /\ (e \notin Hidden \/ glob.opts.dot \/ pn.dot))
      last == Len(cb.remain) = 1 /\ ~glob.opts.mark /\ ~glob.opts.stat
      One(acc, e) ==
        IF last THEN EmitMatch(acc, cb.who, cb.index, Append(cb.prefix, e))
        ELSE Process(acc, cb.who, AsParts(Append(cb.prefix, e)) \o Tail(cb.remain), cb.index, cb.deep)
  IN Done(IF answer = "nothing" THEN v ELSE FoldLeft(One, v, matched), cb.who)

ProcessGlobStar2(v, cb, answer) ==
  LET glob == v.globs[cb.who]
      prefix == AsParts(cb.prefix)
      isSym == Has(glob.symlinks, cb.abs) /\ glob.symlinks[cb.abs]
      entries == SelectSeq(Entries(cb.abs), LAMBDA e : e \notin Hidden \/ glob.opts.dot)
      without == Process(v, cb.who, prefix \o Tail(cb.remain), cb.index, FALSE)
      Both(acc, e) ==
        LET instead == Process(acc, cb.who, Append(prefix, Name(e)) \o Tail(cb.remain), cb.index, TRUE)
        IN Process(instead, cb.who, Append(prefix, Name(e)) \o cb.remain, cb.index, TRUE)
  IN Done(IF answer = "nothing" THEN v
          ELSE IF isSym /\ cb.deep THEN without
          ELSE FoldLeft(Both, without, entries), cb.who)

\* _process.
Process(v, g, pattern, index, inGlobStar) ==
  LET glob == v.globs[g]
      next == [v EXCEPT !.globs[g].processing = @ + 1]
      n == PrefixLength(pattern)
      prefix == NamesOf(SubSeq(pattern, 1, n))
      cb == [do |-> IF pattern[n + 1] = GLOBSTAR THEN "globstar2" ELSE "readdir2", who |-> g,
             prefix |-> prefix, abs |-> prefix, remain |-> SubSeq(pattern, n + 1, Len(pattern)),
             index |-> index, deep |-> inGlobStar]
  IN IF glob.aborted THEN v
     ELSE IF glob.paused
       THEN [next EXCEPT !.globs[g].processQueue = Append(@, <<pattern, index, inGlobStar>>)]
     ELSE IF n = Len(pattern) THEN Stat(next, g, IF n = 0 THEN EmptyPath ELSE prefix, index)
     ELSE IF ChildrenIgnored(glob.opts, prefix) THEN Done(next, g)
     ELSE Readdir(next, g, prefix, inGlobStar, cb)

Apply(v, cb, answer) ==
  CASE cb.do = "res" -> RunReqs(v, cb.key, answer)
    [] cb.do = "stat" -> StatAnswered(v, cb, answer)
    [] cb.do = "stat2" -> Stat2(v, cb, answer)
    [] cb.do = "inglobstar" -> LstatAnswered(v, cb, answer)
    [] cb.do = "readdir" -> ReaddirAnswered(v, cb, answer)
    [] cb.do = "readdir2" -> ProcessReaddir2(v, cb, answer)
    [] cb.do = "globstar2" -> ProcessGlobStar2(v, cb, answer)

-----------------------------------------------------------------------------
(* The program.                                                             *)

Init ==
  \E s \in Scenarios :
    /\ tree = s.tree
    /\ w = [globs |-> [g \in DOMAIN s.calls |-> NewGlob(s.calls[g].set, s.calls[g].opts)],
            reqs |-> Nothing, pending |-> EmptyBag, ticks |-> <<>>]

\* The constructor.
Call(g) ==
  LET glob == w.globs[g] IN
  /\ ~glob.called /\ UNCHANGED tree
  /\ w' = LET started == [w EXCEPT !.globs[g].called = TRUE] IN
          IF glob.set = <<>> THEN Done(started, g)
          ELSE FoldLeft(LAMBDA acc, i : Process(acc, g, glob.set[i], i, FALSE),
                        started, [i \in DOMAIN glob.set |-> i])

\* The file system answers a call.
Answer(call) ==
  /\ BagIn(call, w.pending) /\ UNCHANGED tree
  /\ w' = LET answered == [w EXCEPT !.pending = @ (-) SetToBag({call})] IN
          CASE call.op = "lstat" -> Apply(answered, call.cb, LstatAnswer(call.abs))
            [] call.op = "stat" -> Apply(answered, call.cb, StatAnswer(call.abs))
            [] call.op = "readdir" -> Apply(answered, call.cb, ReaddirAnswer(call.abs))
            [] call.op = "realpath" -> RealpathDone(answered, call.cb, Target(call.abs))

\* process.nextTick.
Tick ==
  /\ w.ticks # <<>> /\ UNCHANGED tree
  /\ w' = RunReqs([w EXCEPT !.ticks = Tail(@)], Head(w.ticks).key, Head(w.ticks).answer)

\* The methods of the user.
PauseGlob(g) ==
  /\ "pause" \in w.globs[g].opts.may
  /\ w.globs[g].called /\ ~w.globs[g].paused /\ w.globs[g].pauses < MaxPauses
  /\ w' = Update(w, g, Pause(w.globs[g])) /\ UNCHANGED tree

Paused(g) == g \in Running /\ w.globs[g].paused
Resume(g) ==
  LET glob == w.globs[g]
      running == [w EXCEPT !.globs[g].paused = FALSE, !.globs[g].emitQueue = <<>>]
      emitted == FoldLeft(LAMBDA acc, m : EmitMatch(acc, g, m[1], m[2]), running, glob.emitQueue)
      queue == emitted.globs[g].processQueue
      Again(acc, p) == Process([acc EXCEPT !.globs[g].processing = @ - 1], g, p[1], p[2], p[3])
  IN /\ Paused(g) /\ UNCHANGED tree
     /\ w' = FoldLeft(Again, [emitted EXCEPT !.globs[g].processQueue = <<>>], queue)

AbortGlob(g) ==
  /\ "abort" \in w.globs[g].opts.may
  /\ w.globs[g].called /\ ~w.globs[g].aborted
  /\ w' = Update(w, g, Abort(w.globs[g])) /\ UNCHANGED tree

Answers == \E call \in BagToSet(w.pending) : Answer(call)
User == \E g \in Running : Call(g) \/ PauseGlob(g) \/ Resume(g) \/ AbortGlob(g)
Quiescent ==
  /\ w.pending = EmptyBag /\ w.ticks = <<>>
  /\ \A g \in Running : w.globs[g].called /\ ~w.globs[g].paused
  /\ UNCHANGED vars
Next == User \/ Answers \/ Tick \/ Quiescent

\* The file system answers, ticks come, and who pauses a glob resumes it:
\* while one of them has something to do, one of them does something again and
\* again.  Which of them comes first is open; as there is never anything to do
\* for ever, fairness of each would say the same.  It is written without Next,
\* since TLC would run whole callbacks at every step to find it.
Idle == w.pending = EmptyBag /\ w.ticks = <<>> /\ \A g \in 1 .. MaxGlobs : ~Paused(g)
Spec == Init /\ [][Next]_vars /\ ([]<>Idle \/ []<><<TRUE>>_vars)

-----------------------------------------------------------------------------
(* GlobSync, whose fields are those of a glob; a strict one throws at the   *)
(* first unusual error.                                                     *)

RECURSIVE SyncReaddir(_, _, _), SyncProcess(_, _, _, _)

SyncReaddir(s, abs, inGlobStar) ==
  LET lstat == LstatAnswer(abs)
      linked == [s EXCEPT !.symlinks = Put(@, abs, lstat = "link")]
      readdir == ReaddirAnswer(abs)
      entries == {Append(abs, e) : e \in Range(Entries(abs))}
      seen == IF s.opts.mark \/ s.opts.stat THEN s.cache
              ELSE [p \in DOMAIN s.cache \cup entries |-> IF p \in entries THEN "exists" ELSE s.cache[p]]
      Gives(t, answer) == [s |-> t, answer |-> answer]
  IN IF inGlobStar /\ ~Has(s.symlinks, abs)
       THEN IF s.opts.follow THEN SyncReaddir(s, abs, FALSE)
            ELSE IF lstat = "error" THEN Gives(s, "nothing")
            ELSE IF lstat = "file" THEN Gives([linked EXCEPT !.cache = Put(@, abs, "FILE")], "nothing")
            ELSE SyncReaddir(linked, abs, FALSE)
     ELSE IF Has(s.cache, abs) /\ s.cache[abs] \in {"false", "FILE"} THEN Gives(s, "nothing")
     ELSE IF Has(s.cache, abs) /\ s.cache[abs] = "entries" THEN Gives(s, "entries")
     ELSE IF readdir = "entries" THEN Gives([s EXCEPT !.cache = Put(seen, abs, "entries")], "entries")
     ELSE Gives([s EXCEPT !.cache = Put(@, abs, IF readdir = "ENOTDIR" THEN "FILE" ELSE "false"),
                          !.errors = IF readdir = "EACCES" /\ s.opts.strict THEN 1 ELSE @], "nothing")

SyncStat(s, f) ==
  LET abs == MakeAbs(f)
      needDir == TrailingSlash(f)
      lstat == LstatAnswer(abs)
      type == IF Has(s.statCache, abs) THEN s.statCache[abs]
              ELSE IF lstat = "link" THEN StatAnswer(abs) ELSE lstat
      known == [s EXCEPT !.statCache = Put(@, abs, type),
                         !.cache = IF KnownThere(s, abs) THEN @
                                   ELSE Put(@, abs, IF type = "dir" THEN "DIR" ELSE "FILE")]
  IN IF ~s.opts.stat /\ Has(s.cache, abs) /\ Enough(s.cache[abs], needDir)
       THEN [s |-> s, exists |-> IF needDir THEN KnownDir(s, abs) ELSE s.cache[abs] # "false"]
     ELSE IF type = "error" THEN [s |-> s, exists |-> FALSE]
     ELSE [s |-> known, exists |-> needDir => type = "dir"]

SyncReaddir2(s, prefix, remain, index, inGlobStar) ==
  LET read == SyncReaddir(s, prefix, inGlobStar)
      pn == Head(remain)
      matched == SelectSeq(Entries(prefix),
                           LAMBDA e : e \in pn.matches /\ (e \notin Hidden \/ s.opts.dot \/ pn.dot))
      last == Len(remain) = 1 /\ ~s.opts.mark /\ ~s.opts.stat
      One(acc, e) ==
        IF last THEN [acc EXCEPT !.matches[index] = @ \cup {Append(prefix, e)}]
        ELSE SyncProcess(acc, AsParts(Append(prefix, e)) \o Tail(remain), index, inGlobStar)
  IN IF read.answer = "nothing" THEN read.s ELSE FoldLeft(One, read.s, matched)

SyncGlobStar(s, prefix, remain, index, inGlobStar) ==
  LET read == SyncReaddir(s, prefix, inGlobStar)
      parts == AsParts(prefix)
      entries == SelectSeq(Entries(prefix), LAMBDA e : e \notin Hidden \/ s.opts.dot)
      without == SyncProcess(read.s, parts \o Tail(remain), index, FALSE)
      isSym == Has(without.symlinks, prefix) /\ without.symlinks[prefix]
      Both(acc, e) ==
        LET instead == SyncProcess(acc, Append(parts, Name(e)) \o Tail(remain), index, TRUE)
        IN SyncProcess(instead, Append(parts, Name(e)) \o remain, index, TRUE)
  IN IF read.answer = "nothing" THEN read.s
     ELSE IF isSym /\ inGlobStar THEN without ELSE FoldLeft(Both, without, entries)

SyncSimple(s, f, index) ==
  LET stat == SyncStat(s, f)
  IN IF stat.exists THEN [stat.s EXCEPT !.matches[index] = @ \cup {f}] ELSE stat.s

SyncProcess(s, pattern, index, inGlobStar) ==
  LET n == PrefixLength(pattern)
      prefix == NamesOf(SubSeq(pattern, 1, n))
      remain == SubSeq(pattern, n + 1, Len(pattern))
  IN IF s.errors > 0 THEN s
     ELSE IF n = Len(pattern) THEN SyncSimple(s, IF n = 0 THEN EmptyPath ELSE prefix, index)
     ELSE IF ChildrenIgnored(s.opts, prefix) THEN s
     ELSE IF remain[1] = GLOBSTAR THEN SyncGlobStar(s, prefix, remain, index, inGlobStar)
     ELSE SyncReaddir2(s, prefix, remain, index, inGlobStar)

\* What GlobSync found, or the error it threw.
GlobSync(set, opts) ==
  LET s == FoldLeft(LAMBDA acc, i : SyncProcess(acc, set[i], i, FALSE),
                    NewGlob(set, opts), [i \in DOMAIN set |-> i])
      real == [s EXCEPT !.matches = [i \in DOMAIN @ |-> {Target(MakeAbs(p)) : p \in @[i]}]]
  IN [threw |-> s.errors > 0, found |-> Found(IF opts.realpath THEN real ELSE s)]

-----------------------------------------------------------------------------
(* Properties.                                                              *)

\* The paths of a tree without links that a pattern means, whose globstars
\* stand for any number of names that are not hidden.
Means(pattern, path, opts) ==
  LET names == MakeAbs(path) IN
  /\ path # <<>>
  /\ TrailingSlash(path) <=> Last(pattern) = Name("")
  /\ TrailingSlash(path) => IsDir(names)
  /\ \E cut \in [0 .. Len(pattern) -> 0 .. Len(path)] :
       /\ cut[0] = 0 /\ cut[Len(pattern)] = Len(path)
       /\ \A k \in DOMAIN pattern :
            IF pattern[k] = GLOBSTAR
              THEN cut[k - 1] <= cut[k]
                   /\ \A j \in cut[k - 1] + 1 .. cut[k] : path[j] # "" /\ (opts.dot \/ path[j] \notin Hidden)
              ELSE /\ cut[k] = cut[k - 1] + 1
                   /\ \/ pattern[k].is = "name" /\ path[cut[k]] = pattern[k].name
                      \/ /\ pattern[k].is = "regexp" /\ path[cut[k]] \in pattern[k].matches
                         /\ opts.dot \/ pattern[k].dot \/ path[cut[k]] \notin Hidden
IsPlainCall(glob) ==
  /\ ~glob.opts.mark /\ ~glob.opts.realpath
  /\ "link" \notin Range(Tree) /\ "unreadable" \notin Range(Tree)
Meant(glob) ==
  {p \in DOMAIN Tree \cup {Append(p, "") : p \in DOMAIN Tree} :
     /\ ~IsIgnored(glob.opts, p)
     /\ \E i \in DOMAIN glob.set : Means(glob.set[i], p, glob.opts)}

\* How often a glob ends too early: the constructor's loop over the patterns
\* (1966-1968) does not keep processing above 0, and a pattern whose prefix is
\* ignored calls cb at once (2147-2148).  As long as there have only been such
\* patterns, each is taken for the last, and emits an end with nothing found.
IgnoredAtOnce(glob, i) ==
  LET n == PrefixLength(glob.set[i]) IN
  n < Len(glob.set[i]) /\ ChildrenIgnored(glob.opts, NamesOf(SubSeq(glob.set[i], 1, n)))
EarlyEnds(glob) ==
  Cardinality({i \in 1 .. Len(glob.set) - 1 : \A k \in 1 .. i : IgnoredAtOnce(glob, k)})


\* Apart from the early ends, which find nothing, end is emitted once.
EndOnce ==
  \A g \in Running :
    LET glob == w.globs[g] IN
    /\ glob.ends <= 1 + EarlyEnds(glob)
    /\ glob.ends \in 1 .. EarlyEnds(glob) => glob.found = {}

\* Nothing is emitted once a glob is aborted.
QuietAfterAbort ==
  [][\A g \in Running : w.globs[g].aborted =>
       w'.globs[g].emits = w.globs[g].emits /\ w'.globs[g].ends = w.globs[g].ends]_vars

\* A glob that is called ends, not only early, or is aborted, unless another
\* glob, whose calls it shares, is aborted.
Called(g) == g \in Running /\ w.globs[g].called
Over(g) ==
  g \in Running =>
    w.globs[g].ends > EarlyEnds(w.globs[g]) \/ \E h \in Running : w.globs[h].aborted
EveryGlobEnds == \A g \in 1 .. MaxGlobs : Called(g) ~> Over(g)
=============================================================================
