---------------------------- MODULE ContextManager ----------------------------
(***************************************************************************)
(* The context manager of the browser SDK                                  *)
(* (packages/otel-web/src/SplunkContextManager.ts) with async tracking on: *)
(* the context that is active while code runs, and how it travels to the   *)
(* callbacks of timers and promises, the listeners of a request, the       *)
(* messages of a port, the observer of a text node and the hashchange      *)
(* handler.  The page runs one callback at a time; while one runs, the     *)
(* application may call with, register callbacks, post messages, ... and   *)
(* the manager may be disabled.                                            *)
(*                                                                         *)
(* Handlers of the port, the node and the hash were installed, and request *)
(* and channel made, after the manager was enabled.  The browser is        *)
(* external: queued callbacks run in any order, which includes its own.    *)
(***************************************************************************)
EXTENDS Naturals, Sequences, SequencesExt

CONSTANTS
  Spans,      \* contexts with a span
  Root,       \* ROOT_CONTEXT
  None,       \* null or undefined; a callback that was not bound
  Listeners,  \* functions the application may add to a request
  MaxDepth,   \* bound: depth of the stack
  MaxCalls    \* bound: calls of the application

Contexts == Spans \cup {Root}

ASSUME ConstAssumption ==
  /\ Root \notin Spans
  /\ None \notin Contexts
  /\ MaxDepth \in Nat \ {0}
  /\ MaxCalls \in Nat

VARIABLES
  enabled,    \* _enabled; the APIs are patched
  current,    \* _currentContext
  stack,      \* the calls under way: ctx is the context of a with, None for a
              \* callback called as it is; prev and hash are what with keeps;
              \* reg (history) is the context a callback or a listener was
              \* handed over in
  callbacks,  \* callbacks of timers and promises to be run
  request,    \* the listeners of the request, in order
  known,      \* _contextResumingListeners: the context of the wrapped function
  firing,     \* listeners that the event of the request has yet to reach
  attached,   \* the context attached to the port
  messages,   \* posted and not delivered: the numbers of the posts
  latest,     \* history: number of the post that attached last
  nodeCtx,    \* the context attached to the observer of the node
  mutated,    \* the observer has a record
  hash,       \* location.hash
  hashCtx,    \* _hashChangeContext
  hashEvents, \* hashchange events to come
  cleanups,   \* timers that take a context off the port or the hash
  wanted,     \* history: the listeners the application has added, in order
  calls       \* number of calls of the application so far

browserVars == <<callbacks, request, firing, messages, mutated, hash, hashEvents>>
portVars == <<attached, latest, messages>>
nodeVars == <<nodeCtx, mutated>>
hashVars == <<hash, hashCtx, hashEvents>>
requestVars == <<request, known, firing, wanted>>
vars == <<enabled, current, stack, callbacks, requestVars, portVars, nodeVars,
          hashVars, cleanups, calls>>

Maybe == Contexts \cup {None}
Callback == [ctx : Maybe, reg : Maybe]
By == {"app", "callback", "listener"}
Entry == [listener : Listeners, ctx : Maybe, reg : Contexts]
Frame == [by : By, ctx : Maybe, prev : Contexts, hash : BOOLEAN, reg : Maybe]

TypeOK ==
  /\ enabled \in BOOLEAN
  /\ current \in Contexts
  /\ stack \in Seq(Frame) /\ Len(stack) <= MaxDepth
  /\ callbacks \subseteq Callback
  /\ request \in Seq(Entry)
  /\ known \in [Listeners -> Maybe]
  /\ firing \in Seq(Entry)
  /\ attached \in Maybe
  /\ messages \in Seq(1..MaxCalls)
  /\ latest \in 0..MaxCalls
  /\ nodeCtx \in Maybe
  /\ mutated \in BOOLEAN
  /\ hash \in BOOLEAN
  /\ hashCtx \in Maybe
  /\ hashEvents \in 0..MaxCalls
  /\ cleanups \in [{"port", "hash"} \X Contexts -> Nat]
  /\ wanted \in Seq(Listeners)
  /\ calls \in 0..MaxCalls

\* enable() has run
Init ==
  /\ enabled = TRUE
  /\ current = Root
  /\ stack = <<>>
  /\ callbacks = {}
  /\ request = <<>>
  /\ known = [l \in Listeners |-> None]
  /\ firing = <<>>
  /\ attached = None
  /\ messages = <<>>
  /\ latest = 0
  /\ nodeCtx = None
  /\ mutated = FALSE
  /\ hash = FALSE
  /\ hashCtx = None
  /\ hashEvents = 0
  /\ cleanups = [x \in {"port", "hash"} \X Contexts |-> 0]
  /\ wanted = <<>>
  /\ calls = 0

-----------------------------------------------------------------------------
(* Calls on the stack.                                                     *)

Idle == stack = <<>>

\* a function is called with ctx active, through with, or as it is (None); reg is
\* the context it was meant to resume
Enter(by, ctx, reg) ==
  /\ Len(stack) < MaxDepth
  /\ stack' = Append(stack, [by |-> by, ctx |-> ctx, prev |-> current, hash |-> hash,
                            reg |-> reg])
  /\ current' = IF ctx = None THEN current ELSE ctx

AppCall ==
  /\ ~Idle
  /\ calls < MaxCalls
  /\ calls' = calls + 1

\* bind(active(), f) when the API is patched
BoundTo == IF enabled THEN current ELSE None

\* a task in which nothing of the manager takes part: a script, a click
Task ==
  /\ Idle
  /\ firing = <<>>
  /\ calls < MaxCalls
  /\ Enter("app", None, None)
  /\ UNCHANGED <<enabled, callbacks, requestVars, portVars, nodeVars, hashVars,
                 cleanups, calls>>

With(ctx) ==
  /\ AppCall
  /\ Enter("app", ctx, None)
  /\ UNCHANGED <<enabled, callbacks, requestVars, portVars, nodeVars, hashVars,
                 cleanups>>

\* mutant: the root context is restored, not the previous one
Leave_Root ==
  /\ ~Idle
  /\ stack' = Front(stack)
  /\ LET f == Last(stack) IN
     \/ /\ f.ctx = None
        /\ UNCHANGED <<current, hashCtx, cleanups>>
     \/ /\ f.ctx # None
        /\ current' = Root
        /\ \/ hash = f.hash /\ UNCHANGED <<hashCtx, cleanups>>
           \/ /\ hash # f.hash
              /\ hashCtx' = f.ctx
              /\ cleanups' = [cleanups EXCEPT ![<<"hash", f.ctx>>] = @ + 1]
  /\ UNCHANGED <<enabled, callbacks, requestVars, portVars, nodeVars, hash,
                 hashEvents, calls>>

\* the innermost call ends, normally or with an exception: the finally of with
Leave ==
  /\ ~Idle
  /\ stack' = Front(stack)
  /\ LET f == Last(stack) IN
     \/ /\ f.ctx = None
        /\ UNCHANGED <<current, hashCtx, cleanups>>
     \/ /\ f.ctx # None
        /\ current' = f.prev
        /\ \/ hash = f.hash /\ UNCHANGED <<hashCtx, cleanups>>
           \/ /\ hash # f.hash
              /\ hashCtx' = f.ctx
              /\ cleanups' = [cleanups EXCEPT ![<<"hash", f.ctx>>] = @ + 1]
  /\ UNCHANGED <<enabled, callbacks, requestVars, portVars, nodeVars, hash,
                 hashEvents, calls>>

-----------------------------------------------------------------------------
(* Timers and promises.                                                    *)

\* setTimeout with a short delay, setImmediate, then, catch, finally
Defer ==
  /\ AppCall
  /\ callbacks' = callbacks \cup {[ctx |-> BoundTo, reg |-> BoundTo]}
  /\ UNCHANGED <<enabled, current, stack, requestVars, portVars, nodeVars,
                 hashVars, cleanups>>

\* setTimeout with a delay that is not expected to be part of the interaction
DeferLong ==
  /\ AppCall
  /\ callbacks' = callbacks \cup {[ctx |-> None, reg |-> None]}
  /\ UNCHANGED <<enabled, current, stack, requestVars, portVars, nodeVars,
                 hashVars, cleanups>>

\* requestAnimationFrame, whose patch disable leaves in place
DeferFrame ==
  /\ AppCall
  /\ callbacks' = callbacks \cup {[ctx |-> current, reg |-> current]}
  /\ UNCHANGED <<enabled, current, stack, requestVars, portVars, nodeVars,
                 hashVars, cleanups>>

RunCallback(c) ==
  /\ Idle
  /\ callbacks' = callbacks \ {c}
  /\ Enter("callback", c.ctx, c.reg)
  /\ UNCHANGED <<enabled, requestVars, portVars, nodeVars, hashVars, cleanups, calls>>

-----------------------------------------------------------------------------
(* The listeners of a request.                                             *)

\* e is the function the browser is given for l: l itself (ctx is None) or its wrapper
IsFunction(e, l, ctx) == e.listener = l /\ (e.ctx = None <=> ctx = None)

\* the browser ignores a function that is there already
Installed(s, l, ctx) == \E i \in DOMAIN s : IsFunction(s[i], l, ctx)

AddListener(l) ==
  /\ AppCall
  /\ LET ctx == IF ~enabled THEN None
                ELSE IF known[l] # None THEN known[l] ELSE current
     IN  /\ known' = IF enabled THEN [known EXCEPT ![l] = ctx] ELSE known
         /\ request' = IF Installed(request, l, ctx) THEN request
                       ELSE Append(request, [listener |-> l, ctx |-> ctx, reg |-> current])
  /\ wanted' = IF Contains(wanted, l) THEN wanted ELSE Append(wanted, l)
  /\ UNCHANGED <<enabled, current, stack, callbacks, firing, portVars, nodeVars,
                 hashVars, cleanups>>

\* mutant: the wrapped function is not looked up
RemoveListener_Original(l) ==
  /\ AppCall
  /\ \/ ~Installed(request, l, None) /\ UNCHANGED request
     \/ \E i \in DOMAIN request :
          IsFunction(request[i], l, None) /\ request' = RemoveAt(request, i)
  /\ \/ ~Contains(wanted, l) /\ UNCHANGED wanted
     \/ \E i \in DOMAIN wanted : wanted[i] = l /\ wanted' = RemoveAt(wanted, i)
  /\ UNCHANGED <<enabled, current, stack, callbacks, known, firing, portVars,
                 nodeVars, hashVars, cleanups>>

\* the browser takes a function off if it is there, which it can be once
RemoveListener(l) ==
  /\ AppCall
  /\ LET ctx == IF enabled THEN known[l] ELSE None IN
     \/ ~Installed(request, l, ctx) /\ UNCHANGED request
     \/ \E i \in DOMAIN request :
          IsFunction(request[i], l, ctx) /\ request' = RemoveAt(request, i)
  /\ \/ ~Contains(wanted, l) /\ UNCHANGED wanted
     \/ \E i \in DOMAIN wanted : wanted[i] = l /\ wanted' = RemoveAt(wanted, i)
  /\ UNCHANGED <<enabled, current, stack, callbacks, known, firing, portVars,
                 nodeVars, hashVars, cleanups>>

\* an event of the request is dispatched to the listeners there are
Fire ==
  /\ Idle
  /\ firing = <<>>
  /\ request # <<>>
  /\ calls < MaxCalls
  /\ firing' = request
  /\ UNCHANGED <<enabled, current, stack, callbacks, request, known, wanted,
                 portVars, nodeVars, hashVars, cleanups, calls>>

\* the next one runs, unless it was removed meanwhile
FireNext ==
  /\ Idle
  /\ firing # <<>>
  /\ firing' = Tail(firing)
  /\ LET e == Head(firing) IN
     \/ Contains(request, e) /\ Enter("listener", e.ctx, IF e.ctx = None THEN None ELSE e.reg)
     \/ ~Contains(request, e) /\ UNCHANGED <<current, stack>>
  /\ UNCHANGED <<enabled, callbacks, request, known, wanted, portVars, nodeVars,
                 hashVars, cleanups, calls>>

-----------------------------------------------------------------------------
(* The port.                                                               *)

\* mutant: a context that is attached already stays
PostMessage_FirstWins ==
  /\ AppCall
  /\ messages' = Append(messages, calls')
  /\ IF enabled /\ attached = None
     THEN /\ attached' = current
          /\ latest' = calls'
          /\ cleanups' = [cleanups EXCEPT ![<<"port", current>>] = @ + 1]
     ELSE UNCHANGED <<attached, latest, cleanups>>
  /\ UNCHANGED <<enabled, current, stack, callbacks, requestVars, nodeVars, hashVars>>

\* mutant: no second timer while one is pending
PostMessage_CleanOnce ==
  /\ AppCall
  /\ messages' = Append(messages, calls')
  /\ IF enabled
     THEN /\ attached' = current
          /\ latest' = calls'
          /\ cleanups' = IF attached = None
                         THEN [cleanups EXCEPT ![<<"port", current>>] = @ + 1]
                         ELSE cleanups
     ELSE UNCHANGED <<attached, latest, cleanups>>
  /\ UNCHANGED <<enabled, current, stack, callbacks, requestVars, nodeVars, hashVars>>

PostMessage ==
  /\ AppCall
  /\ messages' = Append(messages, calls')
  /\ IF enabled
     THEN /\ attached' = current
          /\ latest' = calls'
          /\ cleanups' = [cleanups EXCEPT ![<<"port", current>>] = @ + 1]
     ELSE UNCHANGED <<attached, latest, cleanups>>
  /\ UNCHANGED <<enabled, current, stack, callbacks, requestVars, nodeVars, hashVars>>

\* _getWrappedEventListener: the context is read when the listener is called
Resumed(ctx) == IF enabled THEN ctx ELSE None

DeliverMessage ==
  /\ Idle
  /\ firing = <<>>
  /\ messages # <<>>
  /\ messages' = Tail(messages)
  /\ Enter("app", Resumed(attached), None)
  /\ UNCHANGED <<enabled, callbacks, requestVars, attached, latest, nodeVars,
                 hashVars, cleanups, calls>>

CleanPort(ctx) ==
  /\ Idle
  /\ firing = <<>>
  /\ cleanups[<<"port", ctx>>] > 0
  /\ cleanups' = [cleanups EXCEPT ![<<"port", ctx>>] = @ - 1]
  /\ attached' = IF attached = ctx THEN None ELSE attached
  /\ UNCHANGED <<enabled, current, stack, callbacks, requestVars, latest, messages,
                 nodeVars, hashVars, calls>>

-----------------------------------------------------------------------------
(* The observer of a text node.                                            *)

\* node.data = ...; the setter stays after disable
SetData ==
  /\ AppCall
  /\ nodeCtx' = current
  /\ mutated' = TRUE
  /\ UNCHANGED <<enabled, current, stack, callbacks, requestVars, portVars,
                 hashVars, cleanups>>

Observe ==
  /\ Idle
  /\ mutated
  /\ mutated' = FALSE
  /\ Enter("callback", Resumed(nodeCtx), Resumed(nodeCtx))
  /\ UNCHANGED <<enabled, callbacks, requestVars, portVars, nodeCtx, hashVars,
                 cleanups, calls>>

-----------------------------------------------------------------------------
(* The hash.                                                               *)

SetHash ==
  /\ AppCall
  /\ hash' = ~hash
  /\ hashEvents' = hashEvents + 1
  /\ UNCHANGED <<enabled, current, stack, callbacks, requestVars, portVars,
                 nodeVars, hashCtx, cleanups>>

\* the user navigates
Navigate ==
  /\ Idle
  /\ firing = <<>>
  /\ calls < MaxCalls
  /\ calls' = calls + 1
  /\ hash' = ~hash
  /\ hashEvents' = hashEvents + 1
  /\ UNCHANGED <<enabled, current, stack, callbacks, requestVars, portVars,
                 nodeVars, hashCtx, cleanups>>

HashChange ==
  /\ Idle
  /\ firing = <<>>
  /\ hashEvents > 0
  /\ hashEvents' = hashEvents - 1
  /\ Enter("app", Resumed(hashCtx), None)
  /\ UNCHANGED <<enabled, callbacks, requestVars, portVars, nodeVars, hash,
                 hashCtx, cleanups, calls>>

CleanHash(ctx) ==
  /\ Idle
  /\ firing = <<>>
  /\ cleanups[<<"hash", ctx>>] > 0
  /\ cleanups' = [cleanups EXCEPT ![<<"hash", ctx>>] = @ - 1]
  /\ hashCtx' = IF hashCtx = ctx THEN None ELSE hashCtx
  /\ UNCHANGED <<enabled, current, stack, callbacks, requestVars, portVars,
                 nodeVars, hash, hashEvents, calls>>

-----------------------------------------------------------------------------
\* mutant: no context is current afterwards
Disable_Undefined ==
  /\ AppCall
  /\ enabled
  /\ enabled' = FALSE
  /\ current' = None
  /\ UNCHANGED <<stack, callbacks, requestVars, portVars, nodeVars, hashVars,
                 cleanups>>

Disable ==
  /\ AppCall
  /\ enabled
  /\ enabled' = FALSE
  /\ current' = Root
  /\ UNCHANGED <<stack, callbacks, requestVars, portVars, nodeVars, hashVars,
                 cleanups>>

Next ==
  \/ Task \/ Leave
  \/ \E ctx \in Contexts : With(ctx) \/ CleanPort(ctx) \/ CleanHash(ctx)
  \/ Defer \/ DeferLong \/ DeferFrame
  \/ \E c \in callbacks : RunCallback(c)
  \/ \E l \in Listeners : AddListener(l) \/ RemoveListener(l)
  \/ Fire \/ FireNext
  \/ PostMessage \/ DeliverMessage
  \/ SetData \/ Observe
  \/ SetHash \/ Navigate \/ HashChange
  \/ Disable

Spec == Init /\ [][Next]_vars

-----------------------------------------------------------------------------
(* Properties.                                                             *)

\* The active context is that of the innermost with, through nested calls,
\* exceptions and a disable halfway; between callbacks nothing is active, and a
\* callback of a timer or a promise has the context in which it was handed over
\* (SplunkContextManager.ts:99-136, 144-276, 751-783).
InnermostWith ==
  LET withs == {i \in DOMAIN stack : stack[i].ctx # None} IN
  /\ Idle => current = Root
  /\ enabled => current = IF withs = {} THEN Root
                          ELSE stack[CHOOSE i \in withs : \A j \in withs : j <= i].ctx
  /\ \A i \in DOMAIN stack : stack[i].by = "callback" => stack[i].ctx = stack[i].reg

\* The listeners of a request are those a plain request would have: none is
\* called twice for one event, none is left after its removal
\* (SplunkContextManager.ts:400-446).
RequestAsPlain ==
  enabled => [i \in DOMAIN request |-> request[i].listener] = wanted

\* A message never runs in the context of an earlier post
\* (SplunkContextManager.ts:600-625).
NeverEarlierPost ==
  (attached # None /\ enabled) => \A i \in DOMAIN messages : messages[i] <= latest

\* No context stays on the port or the hash for good: whoever attached it left a
\* timer that takes it off (SplunkContextManager.ts:616-620, 773-781).
ContextsTakenOff ==
  /\ attached # None => cleanups[<<"port", attached>>] > 0
  /\ hashCtx # None => cleanups[<<"hash", hashCtx>>] > 0

\* Both together: the context of the port or the hash is that of the latest call, and
\* only as long as its timer runs (SplunkContextManager.ts:600-625, 773-781).
NoStaleContext == NeverEarlierPost /\ ContextsTakenOff

-----------------------------------------------------------------------------
(* What a comment says and the code does not do.                           *)

\* SplunkContextManager.ts:369, "Event listeners wrapped to resume context
\* from event registration".
RegistrationResumed ==
  \A i \in DOMAIN stack : stack[i].by = "listener" => stack[i].ctx = stack[i].reg

=============================================================================
