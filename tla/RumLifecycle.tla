----------------------------- MODULE RumLifecycle -----------------------------
(***************************************************************************)
(* The life of the browser SDK on one page: Rum.init, which may be refused *)
(* or fail half way, deinit and init again, the event target of the        *)
(* application's listeners, global attributes, and the spans that are      *)
(* started meanwhile, with the sampler that decides once per session       *)
(* (packages/otel-web/src/index.ts, packages/browser/src/index.ts).        *)
(*                                                                         *)
(* Everything is synchronous but the microtasks: what listeners are told   *)
(* and the second half of a provider's shutdown.  Each call of Rum.init    *)
(* has a number, which names the event target, the provider and the        *)
(* interval it makes.  Of the session only its id matters here; the cookie *)
(* it comes from is the subject of RumSession.                             *)
(***************************************************************************)
EXTENDS Naturals, Sequences, FiniteSets

CONSTANTS
  Sessions,     \* session ids
  InRatio,      \* the sessions the ratio of SessionBasedSampler lets in
  NoSession,    \* undefined
  MaxRumInits,  \* bound: calls of init
  MaxTasks      \* bound: microtasks that wait

VARIABLES
  initCalls,    \* calls of init so far
  inited,
  target,       \* eventTarget of index.ts; 0: undefined
  sessionTarget,\* eventTarget of session.ts
  hearers,      \* the event targets the application's listener is on
  intervals,    \* running intervals of session tracking
  tracking,     \* the interval _deinitSessionTracking clears; 0: undefined
  cookieId,     \* the session in the cookie
  rumSessionId,
  attributes,   \* global attributes of each attributes processor
  attributer,   \* Rum.attributesProcessor; 0: undefined
  provider,     \* Rum.provider; 0: undefined
  registered,   \* the provider of the OpenTelemetry API; 0: none
  shut,         \* providers that are shut down
  decision,     \* per provider's sampler: _currentSession and the decision
  tasks,        \* microtasks, in order
  told,         \* what the listener was told last
  span          \* session and decision of the span that was started last, if any

rlVars == <<initCalls, inited, target, sessionTarget, hearers, intervals, tracking,
            cookieId, rumSessionId, attributes, attributer, provider,
            registered, shut, decision, tasks, told, span>>

Calls == 1..MaxRumInits
Ids == Sessions \cup {NoSession}
Values == 0..1    \* of the one attribute; 0 is what the options of init set
Nothing == [of |-> 0, value |-> 0]
NoSpan == [session |-> NoSession, sampled |-> FALSE]

\* a notification (of the session, or of a processor's attributes), or the end of
\* a provider's shutdown
Task == [on : {"session"}] \cup [on : {"attributes"}, of : 0..MaxRumInits]
        \cup [on : {"shutdown"}, of : Calls]

RlTypeOK ==
  /\ initCalls \in 0..MaxRumInits /\ inited \in BOOLEAN
  /\ {target, sessionTarget, tracking, attributer, provider, registered}
       \subseteq 0..initCalls
  /\ hearers \subseteq Calls /\ intervals \subseteq Calls /\ shut \subseteq Calls
  /\ cookieId \in Sessions /\ rumSessionId \in Ids
  /\ attributes \in [Calls -> Values]
  /\ decision \in [Calls -> [session : Ids, sampled : BOOLEAN]]
  /\ tasks \in Seq(Task) /\ Len(tasks) <= MaxTasks
  /\ told \in [of : 0..MaxRumInits, value : Values]
  /\ span \in [session : Ids, sampled : BOOLEAN]

InitWith(id) ==
  /\ initCalls = 0 /\ inited = FALSE
  /\ target = 0 /\ sessionTarget = 0 /\ hearers = {}
  /\ intervals = {} /\ tracking = 0
  /\ cookieId = id /\ rumSessionId = NoSession
  /\ attributes = [n \in Calls |-> 0] /\ attributer = 0
  /\ provider = 0 /\ registered = 0 /\ shut = {}
  /\ decision = [n \in Calls |-> [session |-> NoSession, sampled |-> FALSE]]
  /\ tasks = <<>> /\ told = Nothing /\ span = NoSpan

Init == \E id \in Sessions : InitWith(id)

-----------------------------------------------------------------------------
(* The event target: a microtask per listener and emission.                *)

Emitted(t, task) == IF t \in hearers THEN tasks \o <<task>> ELSE tasks

\* Rum.addEventListener and removeEventListener do nothing without a target
AddEventListener ==
  /\ target # 0 /\ target \notin hearers
  /\ hearers' = hearers \cup {target} /\ told' = Nothing
  /\ UNCHANGED <<initCalls, inited, target, sessionTarget, intervals, tracking,
                 cookieId, rumSessionId, attributes, attributer, provider,
                 registered, shut, decision, tasks, span>>

RemoveEventListener ==
  /\ target \in hearers
  /\ hearers' = hearers \ {target}
  /\ UNCHANGED <<initCalls, inited, target, sessionTarget, intervals, tracking,
                 cookieId, rumSessionId, attributes, attributer, provider,
                 registered, shut, decision, tasks, told, span>>

\* mutant: provider.shutdown clears the API after its promise has resolved
RegisteredAfter_Deferred(t) == IF t.on = "shutdown" THEN 0 ELSE registered

\* what the OpenTelemetry API has after a microtask: super.shutdown leaves it alone
RegisteredAfter(t) == registered

\* The first microtask runs.  A notification reads the attributes now: its payload
\* is the processor's own object.
RunTask ==
  /\ tasks # <<>> /\ tasks' = Tail(tasks)
  /\ LET t == Head(tasks) IN
       /\ told' = IF t.on # "attributes" THEN told
                  ELSE [of |-> t.of, value |-> IF t.of = 0 THEN 0 ELSE attributes[t.of]]
       /\ shut' = IF t.on = "shutdown" THEN shut \cup {t.of} ELSE shut
       /\ registered' = RegisteredAfter(t)
  /\ UNCHANGED <<initCalls, inited, target, sessionTarget, hearers, intervals,
                 tracking, cookieId, rumSessionId, attributes, attributer,
                 provider, decision, span>>

-----------------------------------------------------------------------------
(* Session tracking.                                                       *)

\* the browser drops the cookie, and this tab or another makes a session
SessionExpires ==
  /\ \E id \in Sessions : cookieId' = id
  /\ UNCHANGED <<initCalls, inited, target, sessionTarget, hearers, intervals,
                 tracking, rumSessionId, attributes, attributer, provider,
                 registered, shut, decision, tasks, told, span>>

\* updateSessionStatus, from an interval
UpdateSessionStatus ==
  /\ intervals # {}
  /\ Len(tasks) < MaxTasks
  /\ rumSessionId' = cookieId
  /\ tasks' = Emitted(sessionTarget, [on |-> "session"])
  /\ UNCHANGED <<initCalls, inited, target, sessionTarget, hearers, intervals,
                 tracking, cookieId, attributes, attributer, provider,
                 registered, shut, decision, told, span>>

-----------------------------------------------------------------------------
(* init and deinit.                                                        *)

\* A call of init.  Its outcome: "inited"; "refused", as it is inited already or
\* the url is missing or not https; or "failed", if the factory of the exporter or
\* of the span processor, which the application may bring, throws.  Every one of
\* them has replaced the event target before.
RumInit(outcome) ==
  LET n == initCalls + 1 IN
  /\ n \in Calls
  /\ inited => outcome = "refused"
  /\ initCalls' = n /\ target' = n
  /\ IF outcome = "refused"
     THEN UNCHANGED <<sessionTarget, intervals, tracking, rumSessionId, attributer>>
     ELSE /\ sessionTarget' = n
          /\ intervals' = intervals \cup {n} /\ tracking' = n
          /\ rumSessionId' = cookieId
          /\ attributer' = n
  /\ IF outcome = "inited"
     THEN provider' = n /\ registered' = IF registered = 0 THEN n ELSE registered
     ELSE UNCHANGED <<provider, registered>>
  /\ inited' = (inited \/ outcome = "inited")
  /\ UNCHANGED <<hearers, cookieId, attributes, shut, decision, tasks, told, span>>

\* Rum.deinit: the provider clears the API at once and shuts down afterwards
Deinit ==
  /\ inited /\ Len(tasks) < MaxTasks
  /\ intervals' = intervals \ {tracking} /\ tracking' = 0
  /\ rumSessionId' = NoSession /\ sessionTarget' = 0
  /\ registered' = 0 /\ tasks' = tasks \o <<[on |-> "shutdown", of |-> provider]>>
  /\ provider' = 0 /\ target' = 0 /\ inited' = FALSE
  /\ UNCHANGED <<initCalls, hearers, cookieId, attributes, attributer, shut, decision,
                 told, span>>

\* mutant: the listeners are told before the attributes are set, with a copy
SetGlobalAttributes_Early(v) ==
  /\ Len(tasks) < MaxTasks
  /\ told' = IF target \in hearers /\ attributer # 0
             THEN [of |-> attributer, value |-> attributes[attributer]] ELSE told
  /\ attributes' = IF attributer = 0 THEN attributes
                   ELSE [attributes EXCEPT ![attributer] = v]
  /\ UNCHANGED <<initCalls, inited, target, sessionTarget, hearers, intervals,
                 tracking, cookieId, rumSessionId, attributer, provider,
                 registered, shut, decision, tasks, span>>

\* setGlobalAttributes; without an attributes processor it only tells
SetGlobalAttributes(v) ==
  /\ Len(tasks) < MaxTasks
  /\ attributes' = IF attributer = 0 THEN attributes
                   ELSE [attributes EXCEPT ![attributer] = v]
  /\ tasks' = Emitted(target, [on |-> "attributes", of |-> attributer])
  /\ UNCHANGED <<initCalls, inited, target, sessionTarget, hearers, intervals,
                 tracking, cookieId, rumSessionId, attributer, provider,
                 registered, shut, decision, told, span>>

-----------------------------------------------------------------------------
(* Spans.                                                                  *)

\* SessionBasedSampler.shouldSample, for a session that is known
Decided(d) ==
  IF d.session = rumSessionId THEN d
  ELSE [session |-> rumSessionId, sampled |-> rumSessionId \in InRatio]

\* A span is started with a tracer of provider n.  Without a session the sampler
\* has its first decision, or throws: there is nothing to accumulate.
StartSpan(n) ==
  /\ UNCHANGED <<initCalls, inited, target, sessionTarget, hearers, intervals,
                 tracking, cookieId, rumSessionId, attributes, attributer, provider,
                 registered, shut, tasks, told>>
  /\ IF rumSessionId = NoSession /\ decision[n].session # NoSession
     THEN span' = NoSpan /\ UNCHANGED decision
     ELSE LET d == Decided(decision[n]) IN
          /\ decision' = [decision EXCEPT ![n] = d]
          /\ span' = [session |-> rumSessionId, sampled |-> d.sampled]

\* addAction and recordException, and the instrumentations
AddAction == inited /\ StartSpan(provider)

\* application code that takes a tracer from the OpenTelemetry API
TraceByApi == registered # 0 /\ StartSpan(registered)

\* a tracer that was taken from a provider before it was shut down
TraceByOldTracer == \E n \in shut : StartSpan(n)

Next ==
  \/ AddEventListener \/ RemoveEventListener \/ RunTask
  \/ SessionExpires \/ UpdateSessionStatus
  \/ \E outcome \in {"inited", "refused", "failed"} : RumInit(outcome)
  \/ Deinit
  \/ \E v \in Values : SetGlobalAttributes(v)
  \/ AddAction \/ TraceByApi \/ TraceByOldTracer

Spec == Init /\ [][Next]_rlVars

-----------------------------------------------------------------------------
(* Properties.                                                             *)

\* While the SDK is inited the OpenTelemetry API has its provider, though the
\* shutdown of the one before may still be under way, and the last span, whoever
\* started it, has the decision of the session it belongs to (index.ts:648-677,
\* SplunkWebTracerProvider.ts:28-37, SessionBasedSampler.ts:72-102).
SpansOfTheSession ==
  /\ inited => registered = provider /\ provider \notin shut
  /\ span.session # NoSession => span.sampled = (span.session \in InRatio)

\* Once no microtask waits, a listener that was told of the attributes since it was
\* added knows them as they are, also if it was removed and added again meanwhile
\* and whatever calls of init came between (index.ts:696-701, EventTarget.ts:37-76).
AttributesHeard ==
  tasks = <<>> /\ target \in hearers /\ attributer # 0 /\ told.of = attributer
    => told.value = attributes[attributer]

=============================================================================
