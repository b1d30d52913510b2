---------------------------- MODULE EmitterBinding ----------------------------
(***************************************************************************)
(* Event emitters bound to a context                                       *)
(* (packages/node-opentelemetry/src/AbstractAsyncHooksContextManager.ts):  *)
(* the methods of the emitter are replaced by ones that install a patched  *)
(* function for each listener, and that look the patched function up when  *)
(* the listener is removed.  One event of one emitter is modelled, before  *)
(* and after it is bound.                                                  *)
(*                                                                         *)
(* The emitter itself is Node's: adding a listener tells the application's *)
(* newListener handler first, which may add and remove listeners itself,   *)
(* while the flag _wrapped is set; a once listener is removed before it is *)
(* called.  Events emitted inside a callback are left out.                 *)
(***************************************************************************)
EXTENDS Naturals, Sequences, FiniteSets

CONSTANTS
  Listeners,     \* the functions of the application
  Wrappers,      \* the functions made by _bindFunction; reused once forgotten
  NoWrapper,     \* events.get(listener) is undefined
  All,           \* stands for removeAllListeners in removal
  AddsOnce,      \* the application adds a listener only while it is not there
  HandlersApart, \* a newListener handler adds no listener that has been patched,
                 \* and removes neither all listeners nor the one being added
  MaxInstalled   \* bound: length of the emitter's list

ASSUME ConstAssumption ==
  /\ Listeners \cap Wrappers = {}
  /\ NoWrapper \notin Listeners \cup Wrappers
  /\ All \notin Listeners
  /\ AddsOnce \in BOOLEAN
  /\ HandlersApart \in BOOLEAN
  /\ MaxInstalled \in Nat

VARIABLES
  bound,      \* _bindEventEmitter has patched the emitter
  installed,  \* the emitter's list: fn is the function Node holds, listener the
              \* function of the application it stands for
  patchMap,   \* the patch map of the event
  adding,     \* the addition under way while _wrapped is set, or <<>>
  running,    \* what is still to be called for the event being emitted
  removal     \* history: the latest request to remove, and a bit that flips

vars == <<bound, installed, patchMap, adding, running, removal>>

Entry == [listener : Listeners, once : BOOLEAN, fn : Listeners \cup Wrappers]

TypeOK ==
  /\ bound \in BOOLEAN
  /\ installed \in Seq(Entry)
  /\ patchMap \in [Listeners -> Wrappers \cup {NoWrapper}]
  /\ adding \in Seq(Entry) /\ Len(adding) <= 1
  /\ running \in Seq(Entry)
  /\ removal \in [of : Listeners \cup {All}, bit : BOOLEAN]

Init ==
  /\ bound = FALSE
  /\ installed = <<>>
  /\ patchMap = [l \in Listeners |-> NoWrapper]
  /\ adding = <<>>
  /\ running = <<>>
  /\ removal = [of |-> All, bit |-> FALSE]

-----------------------------------------------------------------------------
FnsOf(s) == {s[i].fn : i \in DOMAIN s}
FreshWrappers ==
  Wrappers \ (FnsOf(installed) \cup FnsOf(running) \cup FnsOf(adding)
              \cup {patchMap[l] : l \in Listeners})

Present(l) == \E i \in DOMAIN installed : installed[i].listener = l

\* s without its last element among hits: Node's removeListener
WithoutLast(s, hits) ==
  IF hits = {} THEN s
  ELSE LET last == CHOOSE i \in hits : \A j \in hits : j <= i
       IN  [i \in 1..Len(s) - 1 |-> IF i < last THEN s[i] ELSE s[i + 1]]

RemoveFn(fn) ==
  WithoutLast(installed, {i \in DOMAIN installed : installed[i].fn = fn})

Requests(x) == removal' = [of |-> x, bit |-> ~removal.bit]

\* Node's addListener or prependListener, after newListener was emitted
Install(e) ==
  /\ Len(installed) < MaxInstalled
  /\ installed' \in {Append(installed, e), <<e>> \o installed}

-----------------------------------------------------------------------------
\* bind: an emitter that is bound already is left alone
Bind ==
  /\ bound' = TRUE
  /\ UNCHANGED <<installed, patchMap, adding, running, removal>>

\* A listener is added to an emitter that is not bound, or inside a newListener
\* handler of a bound one: it is installed as it is.
AddUnpatched(l) ==
  /\ bound => adding # <<>>
  /\ AddsOnce => ~Present(l)
  /\ HandlersApart => patchMap[l] = NoWrapper
  /\ Install([listener |-> l, once |-> FALSE, fn |-> l])
  /\ UNCHANGED <<bound, patchMap, adding, running, removal>>

\* mutant: _wrapped is not tested, an addition by the handler is patched too
BeginAdd_NoTest(l, once, w) ==
  /\ bound
  /\ AddsOnce => ~Present(l)
  /\ w \in FreshWrappers
  /\ patchMap' = [patchMap EXCEPT ![l] = w]
  /\ adding' = Append(adding, [listener |-> l, once |-> once, fn |-> w])
  /\ UNCHANGED <<bound, installed, running, removal>>

\* the patched addListener, on, once, ... up to the newListener event
BeginAdd(l, once, w) ==
  /\ bound
  /\ adding = <<>>
  /\ AddsOnce => ~Present(l)
  /\ w \in FreshWrappers
  /\ patchMap' = [patchMap EXCEPT ![l] = w]
  /\ adding' = Append(adding, [listener |-> l, once |-> once, fn |-> w])
  /\ UNCHANGED <<bound, installed, running, removal>>

EndAdd ==
  /\ adding # <<>>
  /\ Install(adding[1])
  /\ adding' = <<>>
  /\ UNCHANGED <<bound, patchMap, running, removal>>

\* mutant: the listener itself is removed
PatchedListener_Original(l) == l

PatchedListener(l) == IF patchMap[l] # NoWrapper THEN patchMap[l] ELSE l

\* the patched removeListener and off
RemoveListener(l) ==
  /\ HandlersApart => \A i \in DOMAIN adding : adding[i].listener # l
  /\ Requests(l)
  /\ installed' = RemoveFn(PatchedListener(l))
  /\ UNCHANGED <<bound, patchMap, adding, running>>

RemoveAllListeners ==
  /\ Requests(All)
  /\ HandlersApart => adding = <<>>
  /\ installed' = <<>>
  /\ patchMap' = [l \in Listeners |-> NoWrapper]
  /\ UNCHANGED <<bound, adding, running>>

\* Node takes a copy of the list and calls one after the other
Emit ==
  /\ adding = <<>>
  /\ running = <<>>
  /\ running' = installed
  /\ UNCHANGED <<bound, installed, patchMap, adding, removal>>

\* the next listener is called; the patched removeListener does not find the
\* function of a once listener in its map and removes just that function
Call ==
  /\ adding = <<>>
  /\ running # <<>>
  /\ running' = Tail(running)
  /\ installed' = IF Head(running).once THEN RemoveFn(Head(running).fn)
                  ELSE installed
  /\ UNCHANGED <<bound, patchMap, adding, removal>>

Next ==
  \/ Bind
  \/ \E l \in Listeners :
       \/ AddUnpatched(l)
       \/ \E once \in BOOLEAN, w \in Wrappers : BeginAdd(l, once, w)
       \/ RemoveListener(l)
  \/ EndAdd \/ RemoveAllListeners \/ Emit \/ Call

Spec == Init /\ [][Next]_vars

-----------------------------------------------------------------------------
(* Properties.                                                             *)

\* To an application that adds no listener twice, and whose newListener handlers
\* keep apart, a bound emitter is a plain one:
\* neither the patched functions, nor the map that outlives them, nor additions
\* that bypass the patching are visible
\* (AbstractAsyncHooksContextManager.ts:136-217).
UserView(s) ==
  [i \in DOMAIN s |->
     [listener |-> s[i].listener, once |-> s[i].once, key |-> s[i].fn]]

Plain == INSTANCE Emitter WITH
  Keys <- Listeners \cup Wrappers,
  listeners <- UserView(installed),
  pending <- UserView(running)

ImplementsEmitter == Plain!Spec

-----------------------------------------------------------------------------
(* What a comment says and the code does not do.                           *)

\* AbstractAsyncHooksContextManager.ts:25-27, "when a listener is removed by the
\* user, the corresponding patched function will be also removed".
RemovalRemoves ==
  [][ \A l \in Listeners :
        RemoveListener(l) /\ Present(l) => Len(installed') < Len(installed) ]_vars

=============================================================================
