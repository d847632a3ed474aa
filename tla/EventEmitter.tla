----------------------------- MODULE EventEmitter -----------------------------
(***************************************************************************)
(* wordcut.js 1261-1564: the events module, which glob is built on.  A     *)
(* listener that is running may emit, add and remove listeners itself.     *)
(*                                                                         *)
(* One listener alone is a list of one.  A listener is a function, or the  *)
(* wrapper g that once puts around one.  Left out: the events newListener  *)
(* and removeListener, and the warning about leaks.                        *)
(***************************************************************************)
EXTENDS Naturals, SequencesExt, FiniteSets

CONSTANTS
  Types, Functions,   \* of events, and what listens; one of the types is "error"
  MaxCalls,           \* bounds the calls of the emitter's methods
  MaxDepth            \* and of emits inside each other

VARIABLES
  events,   \* _events: the listeners of each type
  fired,    \* the wrappers that fired
  stack,    \* of the emits: the copy of the listeners, and the next of them
  calls,
  heard     \* by which listeners of once, as often as it was
vars == <<events, fired, stack, calls, heard>>

Plain == 0

Init ==
  /\ events = [t \in Types |-> <<>>]
  /\ fired = {}
  /\ stack = <<>>
  /\ calls = 0
  /\ heard = <<>>

\* Whoever runs, a listener or the code outside, calls a method.
Running == IF stack = <<>> THEN TRUE ELSE Last(stack).inside
Calls == Running /\ calls < MaxCalls /\ calls' = calls + 1

\* addListener and once, whose wrapper is new.
On(t, fn) ==
  /\ Calls
  /\ events' = [events EXCEPT ![t] = Append(@, [fn |-> fn, once |-> Plain])]
  /\ UNCHANGED <<fired, stack, heard>>
Once(t, fn) ==
  /\ Calls
  /\ events' = [events EXCEPT ![t] = Append(@, [fn |-> fn, once |-> calls'])]
  /\ UNCHANGED <<fired, stack, heard>>

\* The last of the listeners that is a function or wraps it.
WithoutAt(list, ks) ==
  IF ks = {} THEN list ELSE RemoveAt(list, CHOOSE k \in ks : \A j \in ks : j <= k)
RemoveListener(t, fn) ==
  /\ Calls
  /\ events' = [events EXCEPT ![t] = WithoutAt(@, {k \in DOMAIN @ : @[k].fn = fn})]
  /\ UNCHANGED <<fired, stack, heard>>
RemoveAllListeners(t) ==
  /\ Calls
  /\ events' = [events EXCEPT ![t] = <<>>]
  /\ UNCHANGED <<fired, stack, heard>>

\* emit, up to the first listener; an error that nobody hears is thrown, and
\* ends all that runs.
Emit(t) ==
  /\ Calls
  /\ \/ /\ events[t] # <<>>
        /\ Len(stack) < MaxDepth
        /\ stack' = Append(stack, [type |-> t, listeners |-> events[t], i |-> 1, inside |-> FALSE])
     \/ /\ events[t] = <<>>
        /\ stack' = IF t = "error" THEN <<>> ELSE stack
  /\ UNCHANGED <<events, fired, heard>>

\* The next listener; a wrapper removes itself and calls its function once.
FiresAlways(listener) == listener.once # Plain
FiresNow(listener) == listener.once # Plain /\ listener.once \notin fired
CallListener ==
  /\ stack # <<>> /\ ~Last(stack).inside
  /\ Last(stack).i <= Len(Last(stack).listeners)
  /\ LET top == Len(stack)
         t == stack[top].type
         g == stack[top].listeners[stack[top].i]
     IN /\ events' = IF g.once = Plain THEN events
                     ELSE [events EXCEPT ![t] = WithoutAt(@, {k \in DOMAIN @ : @[k] = g})]
        /\ fired' = IF FiresNow(g) THEN fired \cup {g.once} ELSE fired
        /\ heard' = IF FiresNow(g) THEN Append(heard, g.once) ELSE heard
        /\ stack' = IF g.once = Plain \/ FiresNow(g)
                      THEN [stack EXCEPT ![top].inside = TRUE]
                      ELSE [stack EXCEPT ![top].i = @ + 1]
  /\ UNCHANGED calls

ListenerReturns ==
  /\ stack # <<>> /\ Last(stack).inside
  /\ stack' = [stack EXCEPT ![Len(stack)].inside = FALSE, ![Len(stack)].i = @ + 1]
  /\ UNCHANGED <<events, fired, calls, heard>>

EmitReturns ==
  /\ stack # <<>>
  /\ Last(stack).i > Len(Last(stack).listeners)
  /\ stack' = Front(stack)
  /\ UNCHANGED <<events, fired, calls, heard>>

Silent == calls = MaxCalls /\ stack = <<>> /\ UNCHANGED vars

Method ==
  \/ \E t \in Types, fn \in Functions : On(t, fn) \/ Once(t, fn) \/ RemoveListener(t, fn)
  \/ \E t \in Types : RemoveAllListeners(t) \/ Emit(t)
Next == Method \/ CallListener \/ ListenerReturns \/ EmitReturns \/ Silent
Spec == Init /\ [][Next]_vars

-----------------------------------------------------------------------------
(* Properties.                                                              *)

\* A listener of once is called at most once, however emits of its event are
\* nested, and is no longer on the list then.
OnceIsOnce ==
  /\ IsInjective(heard)
  /\ \A t \in Types : \A k \in DOMAIN events[t] : events[t][k].once \notin fired
=============================================================================
