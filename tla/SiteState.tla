------------------------------ MODULE SiteState -------------------------------
(***************************************************************************)
(* The parts of the site's search code that keep state and share no code:  *)
(* the two segmenters that lunr calls for Thai and Japanese pages, the     *)
(* nextTick of the process shim, and the EventEmitter.  A behaviour is one *)
(* of them, or another part of SiteSearch; the others keep their initial   *)
(* state.                                                                  *)
(***************************************************************************)
EXTENDS Naturals, Sequences

CONSTANTS
  FileWords, WordLists, FirstTexts, Texts,   \* of wordcut
  Inputs, Scorers, Positive(_, _, _),        \* of tinyseg
  MaxItems,                                  \* of nextTick
  Types, Functions, MaxCalls, MaxDepth       \* of EventEmitter

\* A character of wordcut is a code point, one of tinyseg a string.
ASSUME SiteAssumption ==
  /\ FileWords \in Seq(Seq(Nat)) /\ WordLists \subseteq Seq(Seq(Nat))
  /\ FirstTexts \cup Texts \subseteq Seq(Nat)
  /\ Inputs \subseteq Seq(STRING)
  /\ {MaxItems, MaxCalls, MaxDepth} \subseteq Nat

VARIABLES
  part,
  dict, calls, pc, text, i, current, path, leftBoundary, e, ranges,          \* wordcut
  scorer, input, tinyPc, at, word, result, decisions,                        \* tinyseg
  queue, draining, currentQueue, queueIndex, len, timers, code, items, ran,  \* nextTick
  events, fired, stack, emitterCalls, heard                                  \* EventEmitter

Cut == INSTANCE Wordcut
Tiny == INSTANCE TinySegmenter WITH pc <- tinyPc
Ticks == INSTANCE ProcessShim
Emitter == INSTANCE EventEmitter WITH calls <- emitterCalls

cutVars == <<dict, calls, pc, text, i, current, path, leftBoundary, e, ranges>>
tinyVars == <<scorer, input, tinyPc, at, word, result, decisions>>
tickVars == <<queue, draining, currentQueue, queueIndex, len, timers, code, items, ran>>
eventVars == <<events, fired, stack, emitterCalls, heard>>
stateVars == <<part, cutVars, tinyVars, tickVars, eventVars>>

StateInit == Cut!Init /\ Tiny!Init /\ Ticks!Init /\ Emitter!Init

OfTicks == part = "ticks" /\ UNCHANGED <<part, cutVars, tinyVars, eventVars>>
StateNext ==
  \/ Cut!Next /\ part = "wordcut" /\ UNCHANGED <<part, tinyVars, tickVars, eventVars>>
  \/ Tiny!Next /\ part = "tinyseg" /\ UNCHANGED <<part, cutVars, tickVars, eventVars>>
  \/ Ticks!Next /\ OfTicks
  \/ Emitter!Next /\ part = "events" /\ UNCHANGED <<part, cutVars, tinyVars, tickVars>>
StateSpec == StateInit /\ [][StateNext]_stateVars

-----------------------------------------------------------------------------
(* Properties, explained where the modules define them.                     *)

\* wordcut.js and tinyseg.js: the pieces of a text are not empty and make up
\* the text.
SegmentersKeepText == Cut!RangesCoverText /\ Tiny!WordsJoinToInput

\* nextTick and EventEmitter: items run once each and in order; a listener of
\* once is called once.
CallbacksInOrder == Ticks!RunInOrder /\ Emitter!OnceIsOnce
=============================================================================
