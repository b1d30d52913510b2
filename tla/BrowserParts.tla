------------------------------ MODULE BrowserParts ------------------------------
(***************************************************************************)
(* The parts of the browser SDK, one of them in each behaviour: the        *)
(* context manager, the life cycle of Rum, the instrumentations of         *)
(* WebSocket and socket.io, the resources a page loads, and the reports of *)
(* errors.  Which one runs is chosen in the initial state and the others   *)
(* stay in theirs; the states are the sum of those of the parts.           *)
(***************************************************************************)
EXTENDS ContextManager, Lists

CONSTANTS
  \* RumLifecycle
  Sessions, InRatio, NoSession, MaxRumInits, MaxTasks,
  \* WebSocketSpans
  WebSockets, Fns, Captures, MaxAdded,
  \* SocketIoSpans
  Callbacks, Events, MaxEnables, MaxOn,
  \* PageResources
  Urls, Traces, NoTrace, MaxNest,
  \* BrowserReports
  Dom, NoNode, Logged, Thrown, Handed, MaxInstances, MaxIncidents, MaxForeign,
  \* BrowserReports: what there may be more than one of
  SomeLogged, SomeThrown, SomeHanded

ASSUME RumAssumption ==
  /\ MaxRumInits \in Nat /\ MaxTasks \in Nat
  /\ Sessions # {} /\ NoSession \notin Sessions

ASSUME NestAssumption == MaxNest \in Nat

ASSUME EnablesAssumption == MaxEnables \in Nat

\* The page uses one value of options.capture.
ASSUME CaptureAssumption == \A c, d \in Captures : c = d

VARIABLES
  part,
  initCalls, inited, target, sessionTarget, hearers, intervals, tracking, cookieId,
  rumSessionId, attributes, attributer, provider, registered, shut, decision, tasks,
  told, span,
  wrapped, socket, native, listener2ws2patched, plain, delivery, inListener,
  global, waiting, enabledOne, made, onDisable, patches, tables, listening, meant,
  excused,
  observer, loaded, performing, nest, records, contextOf, fetched, added, left,
  instances, running, errorInstr, layers, hearing, shutting, reports, incidents

RL == INSTANCE RumLifecycle
WS == INSTANCE WebSocketSpans
IO == INSTANCE SocketIoSpans
PR == INSTANCE PageResources
BR == INSTANCE BrowserReports

IsText(t) == t \in Seq(ToSet(t))

\* What is logged is a list, and an error that an event holds has a text or a stack.
ASSUME ReportsAssumption ==
  /\ MaxInstances \in Nat /\ MaxIncidents \in Nat
  /\ \A values \in Logged : IsText(values)
  /\ \A v \in BR!Values : v.is = "ErrorEvent" =>
       /\ IsText(v.error)
       /\ \A i \in DOMAIN v.error : v.error[i].text = "useful" \/ v.error[i].stack # <<>>

\* The types of what is logged or thrown: names and messages are texts, objects and
\* events have no message, and an ErrorEvent has no other error than its own.
ASSUME ValuesAssumption ==
  \A v \in BR!Values :
    /\ v.is \in {"Error", "DOMException", "ErrorEvent", "Event", "object", "other"}
    /\ IsText(v.message) /\ (v.is = "DOMException" => IsText(v.name))
    /\ v.is \in {"object", "Event"} => v.message = <<>>
    /\ v.is = "ErrorEvent" => v.errors = <<>>
    /\ BR!ErrorIn(v) # <<>> =>
         LET e == BR!ErrorIn(v)[1] IN
         /\ IsText(e.name) /\ IsText(e.message)
         /\ e.inner # <<>> => IsText(e.inner[1])

rumVars == <<initCalls, inited, target, sessionTarget, hearers, intervals, tracking,
             cookieId, rumSessionId, attributes, attributer, provider, registered,
             shut, decision, tasks, told, span>>
socketVars == <<wrapped, socket, native, listener2ws2patched, plain, delivery,
                inListener>>
ioVars == <<global, waiting, enabledOne, made, onDisable, patches, tables, listening,
            meant, excused>>
pageVars == <<observer, loaded, performing, nest, records, contextOf, fetched, added,
              left>>
reportVars == <<instances, running, errorInstr, layers, hearing, shutting, reports,
                incidents>>
partsVars == <<part, vars, rumVars, socketVars, ioVars, pageVars, reportVars>>

PartsInit ==
  /\ part \in {"contexts", "rum", "sockets", "socket.io", "resources", "reports",
             "report"}
  /\ Init
  /\ IF part = "rum" THEN RL!Init ELSE RL!InitWith(CHOOSE id \in Sessions : TRUE)
  /\ WS!Init
  /\ IF part = "socket.io" THEN IO!Init ELSE IO!InitWith(FALSE)
  /\ PR!Init /\ BR!Init

\* Errors are reported one at a time, each of them, or several of some.
OneReport == instances' <= 1 /\ Len(incidents') <= 1

SomeReports ==
  incidents' # incidents =>
    LET c == Last(incidents') IN
    c.values \in CASE c.via = "event" -> {<<v>> : v \in SomeThrown}
                   [] c.via = "Rum.recordException" -> {<<v>> : v \in SomeHanded}
                   [] OTHER -> SomeLogged

PartsNext ==
  /\ UNCHANGED part
  /\ \/ /\ part = "contexts" /\ Next
        /\ UNCHANGED <<rumVars, socketVars, ioVars, pageVars, reportVars>>
     \/ /\ part = "rum" /\ RL!Next
        /\ UNCHANGED <<vars, socketVars, ioVars, pageVars, reportVars>>
     \/ /\ part = "sockets" /\ WS!Next
        /\ UNCHANGED <<vars, rumVars, ioVars, pageVars, reportVars>>
     \/ /\ part = "socket.io" /\ IO!Next
        /\ UNCHANGED <<vars, rumVars, socketVars, pageVars, reportVars>>
     \/ /\ part = "resources" /\ PR!Next
        /\ UNCHANGED <<vars, rumVars, socketVars, ioVars, reportVars>>
     \/ /\ part \in {"reports", "report"} /\ BR!Next
        /\ IF part = "report" THEN OneReport ELSE SomeReports
        /\ UNCHANGED <<vars, rumVars, socketVars, ioVars, pageVars>>

PartsSpec == PartsInit /\ [][PartsNext]_partsVars

-----------------------------------------------------------------------------
(* The properties of the parts.                                            *)

\* the types of the part that runs; the others stay in their initial states
TypesOK ==
  CASE part = "contexts" -> TypeOK
    [] part = "rum" -> RL!RlTypeOK
    [] part = "sockets" -> WS!WsTypeOK
    [] part = "socket.io" -> IO!IoTypeOK
    [] part = "resources" -> PR!PrTypeOK
    [] part \in {"reports", "report"} -> BR!BrTypeOK

\* RumLifecycle: spans have the decision of their session, and the API has the
\* provider of the latest init (index.ts:648-677).
SpansOfTheSession == RL!SpansOfTheSession

\* RumLifecycle: a listener that was told of the attributes knows them as they are
\* (EventTarget.ts:62-76).
AttributesHeard == RL!AttributesHeard

\* WebSocketSpans: an instrumented socket has the message listeners of a plain one
\* (SplunkWebSocketInstrumentation.ts:149-257).
ListenersAsPlain == WS!ListenersAsPlain

\* SocketIoSpans: a listener is registered as often as without patches
\* (SplunkSocketIoClientInstrumentation.ts:149-224).
RegisteredAsMeant == IO!RegisteredAsMeant

\* PageResources: the load of a resource belongs to the context that added it
\* (SplunkPostDocLoadResourceInstrumentation.ts:119-158).
ResourcesInContext == PR!ResourcesInContext

\* BrowserReports: an error is reported once, by the SDK that runs, as what it is
\* (HyperDXErrorInstrumentation.ts:33-207, eventbuilder.ts:230-364).
ErrorsReportedOnce == BR!ErrorsReportedOnce

=============================================================================
