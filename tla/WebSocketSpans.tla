---------------------------- MODULE WebSocketSpans ----------------------------
(***************************************************************************)
(* Instrumented WebSockets (packages/otel-web/src/                         *)
(* SplunkWebSocketInstrumentation.ts): the constructor that starts a       *)
(* connect span, send, and the message listeners, each replaced by a       *)
(* patched one that runs it inside a span.  A table remembers, per         *)
(* listener and socket, what was really added, so that it can be removed.  *)
(*                                                                         *)
(* The page is one thread, but a message is delivered to one listener      *)
(* after the other, and each may add and remove listeners and send.  plain *)
(* is what the listeners would be on a socket without instrumentation; the *)
(* lists of the browser (DOM EventTarget) are external.                    *)
(***************************************************************************)
EXTENDS Sequences, SequencesExt

CONSTANTS
  WebSockets,   \* sockets the page makes
  Fns,          \* its message listeners
  Captures,     \* the values of options.capture it uses
  MaxAdded      \* bound: listeners on a socket

VARIABLES
  wrapped,      \* window.WebSocket is the instrumented class
  socket,       \* per socket: "none", "plain" (made without the instrumentation, or
                \* of an ignored url), or what its connect span is: "open", "ended"
                \* or "failed"
  native,       \* per socket: its message listeners, as the browser knows them
  listener2ws2patched, \* the patched listeners that are known, with their socket
  plain,        \* history: the listeners as the application means them
  delivery,     \* the socket that delivers a message, and the listeners left
  inListener    \* a listener runs, and whether inside a span; "no" if none runs

wsVars == <<wrapped, socket, native, listener2ws2patched, plain, delivery, inListener>>

\* capture: of the addition a patched listener was made for
Added == [fn : Fns, once : BOOLEAN, capture : Captures]
Native == [fn : Fns, patched : BOOLEAN, once : BOOLEAN, capture : Captures]
Quiet == [ws |-> "none", left |-> <<>>]

WsTypeOK ==
  /\ wrapped \in BOOLEAN
  /\ socket \in [WebSockets -> {"none", "plain", "open", "ended", "failed"}]
  /\ native \in [WebSockets -> Seq(Native)]
  /\ listener2ws2patched \subseteq [fn : Fns, ws : WebSockets, capture : Captures]
  /\ plain \in [WebSockets -> Seq(Added)]
  /\ delivery \in [ws : WebSockets \cup {"none"}, left : Seq(Native)]
  /\ inListener \in {"no", "plain", "span"}

Init ==
  /\ wrapped = FALSE
  /\ socket = [s \in WebSockets |-> "none"]
  /\ native = [s \in WebSockets |-> <<>>]
  /\ listener2ws2patched = {}
  /\ plain = [s \in WebSockets |-> <<>>]
  /\ delivery = Quiet /\ inListener = "no"

-----------------------------------------------------------------------------
(* The browser: EventTarget.                                               *)

\* the same callback is added once for each value of capture
NativeAdd(list, e) ==
  IF \E i \in DOMAIN list : [list[i] EXCEPT !.once = e.once] = e THEN list
  ELSE Append(list, e)

\* the entry at one of these places is taken off; there is at most one
TakenOff(list, at) == IF at = {} THEN list ELSE RemoveAt(list, CHOOSE i \in at : TRUE)

NativeRemove(list, fn, capture) ==
  TakenOff(list, {i \in DOMAIN list : list[i].fn = fn /\ list[i].capture = capture})

-----------------------------------------------------------------------------
(* The class.                                                              *)

AppRuns == delivery = Quiet \/ inListener # "no"

\* shimmer.wrap, and disable
Enable ==
  /\ wrapped' = ~wrapped
  /\ UNCHANGED <<socket, native, listener2ws2patched, plain, delivery, inListener>>

\* new WebSocket: a constructor that throws leaves no socket and ends its span
NewWebSocket(s, ignored) ==
  /\ AppRuns /\ socket[s] = "none"
  /\ socket' = [socket EXCEPT ![s] = IF wrapped /\ ~ignored THEN "open" ELSE "plain"]
  /\ UNCHANGED <<wrapped, native, listener2ws2patched, plain, delivery, inListener>>

\* the listeners of open and error that the constructor added; an error later on
\* has a span of its own
Connected(s, result) ==
  /\ delivery = Quiet /\ socket[s] = "open"
  /\ socket' = [socket EXCEPT ![s] = result]
  /\ UNCHANGED <<wrapped, native, listener2ws2patched, plain, delivery, inListener>>

Instrumented(s) == socket[s] \notin {"none", "plain"}

-----------------------------------------------------------------------------
(* Message listeners.                                                      *)

\* the patched listener the table has for this listener and socket, if any
Known(fn, s) == {p \in listener2ws2patched : p.fn = fn /\ p.ws = s}

\* instrumentedAddEventListener, through addPatchedListener
AddMessageListener(s, fn, once, capture) ==
  LET a == [fn |-> fn, once |-> once, capture |-> capture] IN
  /\ AppRuns /\ socket[s] # "none" /\ Len(plain[s]) < MaxAdded
  /\ plain' = [plain EXCEPT ![s] = NativeAdd(@, a)]
  /\ \/ /\ Instrumented(s) /\ Known(fn, s) = {}
        /\ listener2ws2patched' = listener2ws2patched
             \cup {[fn |-> fn, ws |-> s, capture |-> capture]}
        /\ native' = [native EXCEPT ![s] = NativeAdd(@,
             [fn |-> fn, patched |-> TRUE, once |-> once, capture |-> capture])]
     \/ /\ Instrumented(s) /\ Known(fn, s) # {}
        /\ UNCHANGED <<listener2ws2patched, native>>
     \/ /\ ~Instrumented(s)
        /\ native' = [native EXCEPT ![s] = NativeAdd(@,
             [fn |-> fn, patched |-> FALSE, once |-> once, capture |-> capture])]
        /\ UNCHANGED listener2ws2patched
  /\ UNCHANGED <<wrapped, socket, delivery, inListener>>

\* mutant: the table keeps what was removed
Forgotten_Kept(fn, s) == listener2ws2patched

\* removePatchedListener
Forgotten(fn, s) == listener2ws2patched \ Known(fn, s)

\* The patched removeEventListener removes the patched listener the table has, if it
\* was added with the same capture, or else the listener itself.
RemoveMessageListener(s, fn, capture) ==
  /\ AppRuns /\ socket[s] # "none"
  /\ plain' = [plain EXCEPT ![s] = NativeRemove(@, fn, capture)]
  /\ \/ /\ Instrumented(s)
        /\ native' = [native EXCEPT ![s] =
             IF \E p \in Known(fn, s) : p.capture = capture
             THEN NativeRemove(@, fn, capture) ELSE @]
        /\ listener2ws2patched' = Forgotten(fn, s)
     \/ /\ ~Instrumented(s)
        /\ native' = [native EXCEPT ![s] = NativeRemove(@, fn, capture)]
        /\ UNCHANGED listener2ws2patched
  /\ UNCHANGED <<wrapped, socket, delivery, inListener>>

-----------------------------------------------------------------------------
(* Messages.                                                               *)

\* a message arrives: the browser calls the listeners there are now
Message(s) ==
  /\ delivery = Quiet /\ native[s] # <<>>
  /\ delivery' = [ws |-> s, left |-> native[s]]
  /\ UNCHANGED <<wrapped, socket, native, listener2ws2patched, plain, inListener>>

\* The next listener that is still there is called; a listener that is added once is
\* removed before, by the browser, and patchedAddEventListenerCallback forgets it.
CallListener ==
  /\ delivery.left # <<>> /\ inListener = "no"
  /\ LET e == Head(delivery.left)
         s == delivery.ws
         there == Contains(native[s], e)
     IN
     /\ delivery' = IF Len(delivery.left) = 1 /\ ~there THEN Quiet
                    ELSE [delivery EXCEPT !.left = Tail(@)]
     /\ inListener' = IF ~there THEN "no" ELSE IF e.patched THEN "span" ELSE "plain"
     /\ IF there /\ e.once
        THEN /\ native' = [native EXCEPT ![s] =
                  TakenOff(@, {i \in DOMAIN @ : native[s][i] = e})]
             /\ plain' = [plain EXCEPT ![s] = NativeRemove(@, e.fn, e.capture)]
             /\ listener2ws2patched' =
                  IF e.patched THEN Forgotten(e.fn, s) ELSE listener2ws2patched
        ELSE UNCHANGED <<native, plain, listener2ws2patched>>
     /\ UNCHANGED <<wrapped, socket>>

\* The listener returns and its span ends, or it throws, and its span never ends: the
\* browser reports the error and goes on with the next.
ListenerEnds ==
  /\ inListener # "no"
  /\ inListener' = "no"
  /\ delivery' = IF delivery.left = <<>> THEN Quiet ELSE delivery
  /\ UNCHANGED <<wrapped, socket, native, listener2ws2patched, plain>>

Next ==
  \/ Enable
  \/ \E s \in WebSockets, ignored \in BOOLEAN : NewWebSocket(s, ignored)
  \/ \E s \in WebSockets, result \in {"ended", "failed"} : Connected(s, result)
  \/ \E s \in WebSockets, fn \in Fns, once \in BOOLEAN, capture \in Captures :
       AddMessageListener(s, fn, once, capture)
  \/ \E s \in WebSockets, fn \in Fns, capture \in Captures :
       RemoveMessageListener(s, fn, capture)
  \/ \E s \in WebSockets : Message(s)
  \/ CallListener \/ ListenerEnds

Spec == Init /\ [][Next]_wsVars

-----------------------------------------------------------------------------
(* Properties.                                                             *)

\* The message listeners of a socket are those a plain socket would have, in the
\* same order and as often, whatever listeners that run meanwhile add or remove:
\* none is lost, none is called twice, and each can still be removed, as long as one
\* value of capture is used (SplunkWebSocketInstrumentation.ts:149-257).
ListenersAsPlain ==
  \A s \in WebSockets :
    [i \in DOMAIN native[s] |-> [fn |-> native[s][i].fn, once |-> native[s][i].once,
                                 capture |-> native[s][i].capture]] = plain[s]

=============================================================================
