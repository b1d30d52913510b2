---------------------------- MODULE SocketIoSpans ----------------------------
(***************************************************************************)
(* The instrumentation of socket.io-client (packages/otel-web/src/         *)
(* SplunkSocketIoClientInstrumentation.ts, waitForGlobal of utils.ts): the *)
(* prototype of Socket is patched when the library is there, which may be  *)
(* before or after the instrumentation is enabled; on wraps a listener,    *)
(* and off finds the wrapped one in a table.  Rum.init makes a new         *)
(* instrumentation, with a table of its own, every time, and patches lie   *)
(* upon each other when one was left behind.                               *)
(*                                                                         *)
(* A wrapped listener is known by the instrumentations that wrapped it,    *)
(* the outermost patch first; <<>> is the listener itself.  The emitter of *)
(* socket.io (component-emitter) is external.  meant is what its lists     *)
(* would be if nothing was patched.                                        *)
(***************************************************************************)
EXTENDS Lists, FiniteSets, SequencesExt

CONSTANTS
  Callbacks,     \* listeners of the application
  Events,        \* events it listens to, "connect" (a reserved one) among them
  MaxEnables,    \* bound: instrumentations that are made
  MaxOn          \* bound: listeners of an event

VARIABLES
  global,        \* the library is there
  waiting,       \* the instrumentation waits for it (waitForGlobal)
  enabledOne,    \* the instrumentation that is enabled; 0: none
  made,          \* instrumentations so far
  onDisable,     \* its _onDisable: "none", "stop" (waiting), "nothing", "unpatch"
  patches,       \* the patches of the prototype, the outermost first
  tables,        \* the wrapped listeners that the tables know
  listening,     \* per event: what the emitter has
  meant,         \* history: what it would have without patches
  excused        \* history: listeners used in a way that is not supported

ioVars == <<global, waiting, enabledOne, made, onDisable, patches, tables, listening,
            meant, excused>>

Instances == 1..MaxEnables
Wrapper == [fn : Callbacks, by : Seq(Instances)]

IoTypeOK ==
  /\ global \in BOOLEAN /\ waiting \in BOOLEAN
  /\ enabledOne \in 0..MaxEnables /\ made \in 0..MaxEnables
  /\ onDisable \in {"none", "stop", "nothing", "unpatch"}
  /\ patches \in Seq(Instances)
  /\ tables \subseteq Wrapper
  /\ listening \in [Events -> Seq([fn : Callbacks, by : Seq(Instances), once : BOOLEAN])]
  /\ meant \in [Events -> Seq([fn : Callbacks, once : BOOLEAN])]
  /\ excused \subseteq Callbacks

InitWith(there) ==
  /\ global = there /\ waiting = FALSE
  /\ enabledOne = 0 /\ made = 0 /\ onDisable = "none"
  /\ patches = <<>> /\ tables = {}
  /\ listening = [e \in Events |-> <<>>] /\ meant = [e \in Events |-> <<>>]
  /\ excused = {}

Init == \E there \in BOOLEAN : InitWith(there)

-----------------------------------------------------------------------------
(* Patching.                                                               *)

\* enable of a new instrumentation.  If the library is there, patchSocketIo sets
\* _onDisable, and what waitForGlobal returns, a function that does nothing, then
\* replaces it.
Enable ==
  /\ enabledOne = 0 /\ made < MaxEnables
  /\ made' = made + 1 /\ enabledOne' = made'
  /\ IF global
     THEN /\ patches' = <<made'>> \o patches
          /\ onDisable' = "nothing" /\ UNCHANGED waiting
     ELSE /\ waiting' = TRUE /\ onDisable' = "stop" /\ UNCHANGED patches
  /\ UNCHANGED <<global, tables, listening, meant, excused>>

\* window.io is set: the setter of waitForGlobal patches
GlobalAppears ==
  /\ ~global /\ global' = TRUE /\ waiting' = FALSE
  /\ IF waiting
     THEN patches' = <<enabledOne>> \o patches /\ onDisable' = "unpatch"
     ELSE UNCHANGED <<patches, onDisable>>
  /\ UNCHANGED <<enabledOne, made, tables, listening, meant, excused>>

\* disable; _unwrap takes the outermost patch off
Disable ==
  /\ enabledOne # 0
  /\ enabledOne' = 0 /\ onDisable' = "none"
  /\ waiting' = FALSE
  /\ patches' = IF onDisable = "unpatch" THEN Tail(patches) ELSE patches
  /\ UNCHANGED <<global, made, tables, listening, meant, excused>>

-----------------------------------------------------------------------------
(* Listeners.                                                              *)

Reserved(e) == e = "connect"

\* the patches a call of on or off goes through
Through(e) == IF Reserved(e) THEN <<>> ELSE patches

\* mutant: off does not look into the table
Found_NoTable(fn, e) == <<>>

\* what off asks the emitter for: each patch replaces the listener it is given by
\* the wrapped one, if its table has one
Found(fn, e) ==
  LET by[n \in 0..Len(Through(e))] ==
        IF n = 0 THEN <<>>
        ELSE LET one == Append(by[n - 1], Through(e)[n])
             IN  IF [fn |-> fn, by |-> one] \in tables THEN one ELSE by[n - 1]
  IN  by[Len(Through(e))]

\* where a listener is in the list of an event
At(list, fn) == {i \in DOMAIN list : list[i].fn = fn}

\* a listener that was added under other patches than there are now
OtherPatches(fn, e) == \E i \in At(listening[e], fn) : listening[e][i].by # Through(e)

\* on, and once, which adds a function of its own (and leaves no trace in a table
\* under the name of the listener)
On(fn, e, once) ==
  /\ global /\ Len(meant[e]) < MaxOn /\ Len(listening[e]) < MaxOn
  /\ listening' = [listening EXCEPT ![e] =
       Append(@, [fn |-> fn, by |-> Through(e), once |-> once])]
  /\ tables' = IF once THEN tables
               ELSE tables \cup {[fn |-> fn, by |-> SubSeq(Through(e), 1, n)] :
                                 n \in 1..Len(Through(e))}
  /\ meant' = [meant EXCEPT ![e] = Append(@, [fn |-> fn, once |-> once])]
  /\ UNCHANGED <<global, waiting, enabledOne, made, onDisable, patches, excused>>

\* a list without the first of some of its elements
WithoutFirst(list, at) == IF at = {} THEN list ELSE RemoveAt(list, Min(at))

\* off(event, listener): the emitter removes the first function that is it, or that
\* once made for it
Off(fn, e) ==
  /\ global
  /\ LET by == Found(fn, e) IN
     listening' = [listening EXCEPT ![e] = WithoutFirst(@,
       {i \in At(@, fn) : @[i].by = by /\ (@[i].once => by = <<>>)})]
  /\ meant' = [meant EXCEPT ![e] = WithoutFirst(@, At(@, fn))]
  /\ excused' = excused \cup
       (IF OtherPatches(fn, e) \/ \E i \in At(listening[e], fn) : listening[e][i].once
        THEN {fn} ELSE {})
  /\ UNCHANGED <<global, waiting, enabledOne, made, onDisable, patches, tables>>

\* off(event): all listeners of the event
OffAll(e) ==
  /\ global
  /\ listening' = [listening EXCEPT ![e] = <<>>]
  /\ meant' = [meant EXCEPT ![e] = <<>>]
  /\ UNCHANGED <<global, waiting, enabledOne, made, onDisable, patches, tables, excused>>

\* The event arrives: every listener is called, in a span for each instrumentation
\* that wrapped it.  What once added calls off before; it finds itself if the
\* patches are those it was added under.
Receive(e) ==
  /\ global /\ listening[e] # <<>>
  /\ listening' = [listening EXCEPT ![e] = Kept(@,
       {i \in DOMAIN @ : ~(@[i].once /\ @[i].by = Through(e))})]
  /\ meant' = [meant EXCEPT ![e] = Kept(@, {i \in DOMAIN @ : ~@[i].once})]
  /\ excused' = excused \cup {fn \in Callbacks : OtherPatches(fn, e)}
  /\ UNCHANGED <<global, waiting, enabledOne, made, onDisable, patches, tables>>

Next ==
  \/ Enable \/ GlobalAppears \/ Disable
  \/ \E e \in Events : OffAll(e) \/ Receive(e)
  \/ \E fn \in Callbacks, e \in Events :
       Off(fn, e) \/ \E once \in BOOLEAN : On(fn, e, once)

Spec == Init /\ [][Next]_ioVars

-----------------------------------------------------------------------------
(* Properties.                                                             *)

\* A listener is registered as often as it would be without patches, however many
\* instrumentations wrap it, unless it was added under other patches than it is
\* removed or called under, or was added with once and removed with off
\* (SplunkSocketIoClientInstrumentation.ts:149-224).
RegisteredAsMeant ==
  \A e \in Events, fn \in Callbacks \ excused :
    Cardinality(At(listening[e], fn)) = Cardinality(At(meant[e], fn))

=============================================================================
