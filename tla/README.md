# Verification of hyperdx-js

TLA+ models of the stateful parts of the HyperDX JavaScript SDKs
(`packages/*`), model-checked with TLC and, where it pays, proved with TLAPS.
The SDKs are libraries that live inside somebody else's program: what makes
them hard is that they share cookies, event loops, listeners, queues and the
end of the process with code and with other tabs they know nothing about.
That is what the models are about; formats, wording and the mapping of fields
are left out.

All paths below are relative to `src/packages/`.

1. [Inventory](#1-inventory)
2. [Plan](#2-plan)
3. [Modules](#3-modules)
4. [Runs](#4-runs)
5. [Fairness](#5-fairness)
6. [Proofs](#6-proofs)
7. [Where documentation and code disagree](#7-where-documentation-and-code-disagree)
8. [What is not modelled](#8-what-is-not-modelled)

---

## 1. Inventory

### How the parts interact

    browser (facade) ──init──▶ otel-web (RUM life cycle)          session-recorder
        │                        │  tracks      │ registers            ▲
        │                        ▼              ▼                      │ events
        │                   RUM session   context manager            rrweb
        │                        │ rum.sessionId                       │
        └──init, stop, resume────┴─────────────────────────────────────┘

    node-opentelemetry (SDK life cycle) ──▶ context manager, loggers, http/console
        │ setDefaultOptions(forceFlush = shutdown)
        ▼
    instrumentation-exception ── uncaughtException / unhandledRejection ──▶ exit

* The RUM session is shared through a **cookie** by every tab of an origin;
  the recorder reads the session id through a **getter** of a resource
  attribute, at the moment it needs it.
* rrweb calls the recorder back **re-entrantly**: a snapshot requested inside
  `emit` calls `emit` before it returns.
* Context managers **replace functions** of the page or of an emitter and have
  to find them again when the application removes them.
* The exception handlers **end the process**, through a flush that the Node
  SDK implements as its own shutdown, which the signal handlers call as well.

### Components

| Component | State it keeps | Hard behaviour | What makes it correct | Module |
|---|---|---|---|---|
| **RUM session** `otel-web/src/session.ts` | the cookie (shared), `rumSessionId`, `recentActivity`, an interval per tab | tabs race on the cookie between read and write; throttled timers; clock set back; cookie expiry | no tab reports under an overaged session, tabs agree on one session soon, activity is not forgotten | `RumSession` |
| **Session recorder** `session-recorder/src/{index,BatchLogProcessor,OTLPLogExporter}.ts` | `lastKnownSession`, counters, `paused`, `inited`, snapshot timer; queue and timer per processor | nested `emit`; session changes while hidden; several processors after a re-init; export reads the session late | offsets without holes, a replay begins with a snapshot, each log leaves once and in order, none is stranded | `SessionRecorder` |
| **OTLP encoding** `session-recorder/src/OTLPLogExporter.ts`, `opentelemetry/proto/**` | none | defaults that may or may not be left out, times beyond what a number holds | a request says what the batch said | `OtlpCodec` |
| **Mutation rate limiter** `session-recorder/src/sessionrecording-utils.ts` | a bucket per node that is deleted when full, `loggedTracker` | `undefined` and `0` are both falsy and mean opposite things | leaky bucket per node, one report per blocked node | `MutationRateLimiter` |
| **Fatal error handling** `instrumentation-exception/src/node/integrations/on*.ts`, `utils/errorhandling.ts`, `instrumentation.ts` | the closure of `makeErrorHandler` | asynchronous capture; errors during a capture or a flush; listeners of the application come and go; a flush that hangs | the process ends when it must and only then; the report gets out first | `FatalErrorHandler` |
| **Emitter binding** `node-opentelemetry/src/AbstractAsyncHooksContextManager.ts` | a patch map per emitter and event, `_wrapped` | Node calls the patched methods itself; `newListener` handlers run halfway | a bound emitter behaves as a plain one | `EmitterBinding` |
| **Browser context manager** `otel-web/src/SplunkContextManager.ts` | `_currentContext`, the wrapped listeners, contexts attached to ports, nodes and the hash | contexts travel along callbacks that come in any order; nested `with`; exceptions; disable halfway | the innermost `with` is active, callbacks resume theirs, nothing stays attached | `ContextManager` |
| **Resources after load** `otel-web/src/SplunkPostDocLoadResourceInstrumentation.ts` | records of the observer, a context per URL | the observer runs late, callbacks nest and throw | a load belongs to the context that asked for it | `PageResources` |
| **RUM life cycle** `otel-web/src/index.ts`, `EventTarget.ts`, providers and processors, `browser/src/index.ts`; **sampler** `SessionBasedSampler.ts` | `inited`, the provider, global attributes, event targets, the cached decision | init that fails halfway, init after deinit before the shutdown is over, events in microtasks, a session that changes | the running provider is the registered one; a session is sampled as a whole; listeners know the attributes as they are | `RumLifecycle` |
| **Sockets** `otel-web/src/Splunk{WebSocket,SocketIoClient}Instrumentation.ts` | tables of wrapped listeners, layers of patches | listeners that come and go while a message is delivered; a library that loads late; patches left behind | the listeners are those of a plain socket | `WebSocketSpans`, `SocketIoSpans` |
| **Browser error capture** `instrumentation-exception/src/browser/**`, `instrumentation-sentry-node/src/eventProcessor.ts` | wrapper of `console.error`, listeners, providers | another library's wrappers, asynchronous reports, failures while reporting | an error is reported once, by the SDK that runs, as what it is | `BrowserReports`, `ErrorEvents` |
| **Node trace attributes** `node-opentelemetry/src/{MutableAsyncLocalStorageContextManager,spanProcessor,logger}.ts`, `instrumentations/console.ts` | a mutable store per asynchronous execution | concurrent requests, callbacks bound to a context | a request's attributes never show up in another one | `TraceAttributes` |
| **Node SDK life cycle** `node-opentelemetry/src/otel.ts` | `sdk`, signal handlers, environment | a second init, shutdowns and signals that overlap | the process exits after the flush | `NodeSdk` |
| **Node http capture** `node-opentelemetry/src/instrumentations/http.ts` | chunks of a body | chunks, compression, end twice, span ended before | nothing on the deny list is recorded | `HttpCapture` |
| **Node loggers** `node-opentelemetry/src/otel-logger/*.ts`; **node-logger** | a batch processor per transport | a worker that reads while the application ends the logger | a closed transport has no log left | `LogTransports` |
| **Local variables** `instrumentation-exception/src/node/integrations/local-variables/*.ts` | rate limiter, debugger session, cached frames | requests that fail halfway, messages that come after the event | the program is resumed; variables belong to their exception | `LocalVariables` |
| **Source context** `…/integrations/contextlines.ts` | LRU cache of file contents | events that read into one cache | every frame gets its lines while the files fit | `SourceContext` |
| Interaction spans, network, page signals, document load, browser console, stack parsing, deno, CLI | little or none | none of their own | data mapping | none, see 8 |

The hazards of the code, each at its line and with the properties that would
notice it going wrong, are the `hazards` of `PROJECT.json`. Known, and without
a property because nothing in the repository promises otherwise or the effect
lies outside:

* a failed `fetch` of the recorder is swallowed (`OTLPLogExporter.ts:143`), and
  a page load starts the offsets of the same session at 1 again
  (`session-recorder/src/index.ts:64`); the timer of a snapshot survives
  `deinit` (`index.ts:150`);
* `loggedTracker` never forgets a node (`sessionrecording-utils.ts:210`);
* the shutdown of a signal has no timeout (`otel.ts:547`);
* `_wrapped` is shared by all emitters
  (`AbstractAsyncHooksContextManager.ts:191`): a `newListener` handler of one
  that adds to another one loses the context there;
* the patched `write` and `end` hand on the data only (`http.ts:98`): an
  encoding is lost, the callback of a caller never runs;
* a factory that throws in the middle of `Rum.init` leaves the interval of the
  session behind (`otel-web/src/index.ts:532`);
* `_errorInstrumentation` survives `deinit` (`otel-web/src/index.ts:744`): after
  an init without errors `Rum.error` reports to a provider that was shut down.

---

## 2. Plan

The order is by what the SDK promises its users, and within that by what tests
reach least. Everything in this table is done.

| # | Module | Proved | Composed with | Abstract specification |
|---|---|---|---|---|
| 1 | `RumSession` | all but liveness | | |
| 2 | `SessionRecorder` | all but liveness, the refinement included | | `ReplayDelivery` |
| 3 | `FatalErrorHandler` | all but liveness | Node SDK's shutdown and signal handlers inside | |
| 4 | `MutationRateLimiter` | all but liveness, the refinement included | | `LeakyBucket` |
| 5 | `EmitterBinding` | all, the refinement included | | `Emitter` |
| 6 | `ContextManager` | all | | a plain request (`wanted`, inside) |
| 7 | `RumLifecycle`, with the sampler and the event target | all | session tracking, sampler, providers | |
| 8 | `TraceAttributes`, `NodeSdk` | all | | |
| 9 | `LocalVariables`, `SourceContext`: what is added to an event | all | | |
| 10 | `HttpCapture`, `LogTransports` | all | | |
| 11 | `WebSocketSpans`, `SocketIoSpans` | all | | plain sockets (`plain`, `meant`) |
| 12 | `PageResources` | all | the context manager's `with` | |
| 13 | `ErrorEvents`, `BrowserReports` | all | the former inside the latter | |
| 14 | `OtlpCodec` | | | what a value means (`Meant`) |
| 15 | `BrowserParts`, `NodeParts`: each composition implements its parts | yes | the parts | |

"All" are the properties that the runs check of the module and its types. What
is not proved is liveness, or rests on the RECURSIVE operators of `OtlpCodec`;
section 6 says why.

Modules are written to be proved about: constants carry named assumptions, an
operation is an action, invariants are conjunctions of named parts. A loop is a
recursive function on the naturals (`Kept` in `Lists`, `Visited` in
`SourceContext`). Only `OtlpCodec`, whose messages nest, declares RECURSIVE
operators.

---

## 3. Modules

An operator with a suffix, such as `Flush_Copy`, right before `Flush`, is a
plausible bug in that code; `PROJECT.json` names the property that notices it.
These variants are not part of any specification. A property that speaks of two
modules has a variant in each, and `PROJECT.json` names one of them.

### RumSession — `otel-web/src/session.ts`

| Module | Code |
|---|---|
| `cookie`, `ttl` | the `__rum_sid` cookie and its `max-age` |
| `age[i]` | `Date.now() - startTime` of session `i`, relative so that states repeat |
| `sid[t]`, `recent[t]`, `due[t]` | `rumSessionId`, `recentActivity` and the interval of tab `t` |
| `phase[t] = "checking"` | inside `updateSessionStatus`, between reading and writing `document.cookie` |
| `InitSessionTracking`, `StartCheck` / `FinishCheck` | `initSessionTracking`; the two halves of `updateSessionStatus` |
| `MarkActivity`, `Deinit` | the DOM listeners; the returned `deinit`, or the tab goes away |
| `ClearCookie`, `Tick`, `ClockSetBack` | the browser, time, and a wall clock that is not monotonic |

Each tab is a process of its own, so another tab may write between a tab's
read and its write. A tick is a minute. With `Punctual`, an interval callback
ends at most `MaxDelay` after it is due; without it there is no bound on how
late a background tab is. Ids are drawn from those nobody holds (`generateId`
gives 128 random bits). `idleFor` and `settled` are history.

### SessionRecorder — `session-recorder/src/{index,BatchLogProcessor,OTLPLogExporter}.ts`

| Module | Code |
|---|---|
| `session` | the getter behind `resource.attributes['rum.sessionId']` |
| `rec` | `lastKnownSession`, `sessionStartTime` (as an age), `eventCounter`, `logCounter` |
| `Emit`, `Adopt`, `EmitKnown`, `Record` | `emit`: pause, session change (with the nested snapshot), recording limit and throttling, the chunks |
| `procs`, `timers` | one queue and one `timeout` per `BatchLogProcessor` ever made |
| `OnLogs`, `Flush`, `FlushTimer`, `UnloadFlush` | `onLog`, `_flushAll` with `export`, the timer, the unload listeners |
| `InitRecorder`, `Stop`, `Resume`, `DeinitRecorder` | the functions of the exported recorder |
| `SnapTimerFires` | the timer of `onBlockedNode` |

The page is single-threaded, so a callback is one step with everything it
calls; a nested `emit` is computed by applying `EmitKnown` to the state the
outer one has reached. rrweb is external. An event is its number of chunks.
`sent`, `recorded`, `shipped` and `gap` are history: `shipped` counts the logs
in `sent`, and `gap` remembers why events are missing since the last full
snapshot.

### MutationRateLimiter — `session-recorder/src/sessionrecording-utils.ts:122-228`

`mutationBuckets` holds `Absent` for a deleted bucket. `ThrottleMutations`
takes the number of attribute changes per node in one event, which is all that
decides how many pass. Its definitions have `Limiter` in their names
(`LimiterInit`, `LimiterNext`, …), as the module stands next to
`SessionRecorder` in a run.

### OtlpCodec — `session-recorder/src/OTLPLogExporter.ts`, `opentelemetry/proto/{common,logs,resource}`

A message is a function on the fields that are set; `…Fields` are the fields of
each message in the order in which the generated code writes them, with what
it leaves out (`Written`). `Encode` and `Decode` work on a sequence of tags and
scalars, `ToJson` and `FromJson` on the JSON form, `FromPartial` copies. Large
times are rounded as doubles are (`Spacing`) and refused by `longToNumber`
(`MaxSafe`, `Throws`). `Export` encodes a batch, `ReadRequest` reads the request
back. The bytes of a scalar are protobufjs and left out.

### FatalErrorHandler — `instrumentation-exception/src/node`, `node-opentelemetry/src/otel.ts`

| Module | Code |
|---|---|
| `caughtFirst`, `caughtSecond`, `calledFatal`, `firstError` | the closure of `makeErrorHandler` |
| `FirstError`, `ForcedShutdown`, `SecondError`, `IgnoredError` | the branches of the handler |
| `capture`, `CaptureSettles` | `recordException`, asynchronous, and what its `finally` does |
| `StartExit`, `ExitFlushed`, `ExitTimeout`, `ExitFlushFailed` | `logAndExitProcess`: a flush, raced by a timeout |
| `sdk`, `batch`, `exported` | the OpenTelemetry SDK as the code uses it: batches, drops what ends after its shutdown began |
| `UnhandledRejection`, `TerminationSignal`, `ListenersChange` | the rejection handler, SIGTERM and SIGINT, the application's own listeners |
| `config` | `exitEvenIfOtherHandlersAreRegistered`, the rejection mode, `stopOnTerminationSignals`, and who flushes |

`config.flusher = "own"` is the instrumentation's default, the unbound
`forceFlush` of `instrumentation.ts:65`, which always rejects; `"shutdown"` is
what `node-opentelemetry` sets. The configuration is a variable that no action
changes, so that one run covers all of them.

### EmitterBinding — `node-opentelemetry/src/AbstractAsyncHooksContextManager.ts`

One event of one emitter. `installed` is Node's list, `patchMap` the map of
the event, `adding` the addition during which `_wrapped` is set and a
`newListener` handler may act (`BeginAdd` … `EndAdd`). A `once` listener is
installed through Node's own wrapper, which removes itself before it calls.
Two constants are about the application: `AddsOnce` (it adds a listener only
while it is not there) and `HandlersApart` (a `newListener` handler does not
touch the listener being added, removes not all of them, and adds none that
has been patched before). `Emitter` is the specification of a plain emitter.

### ContextManager — `otel-web/src/SplunkContextManager.ts`

| Module | Code |
|---|---|
| `current`, `stack` | `_currentContext`; the calls under way, with what each `with` keeps to restore |
| `With`, `Leave`, `Disable` | `with` up to and after its callback (the `finally`); `disable` |
| `Defer`, `DeferLong`, `DeferFrame`, `RunCallback` | the patches of `setTimeout`, `setImmediate`, `then`…, `requestAnimationFrame` |
| `AddListener`, `RemoveListener`, `Fire`, `FireNext`, `known` | the listeners of an XMLHttpRequest and `_contextResumingListeners` |
| `PostMessage`, `DeliverMessage`, `CleanPort` | a message port and the timer that takes the context off |
| `SetData`, `Observe` | the observer of a text node |
| `SetHash`, `Navigate`, `HashChange`, `CleanHash` | `location.hash` and `_hashChangeContext` |

Async tracking is on. Handlers were installed after `enable`.

### PageResources — `otel-web/src/SplunkPostDocLoadResourceInstrumentation.ts`

`records` are what the observer of the head has not handed over; `With`,
`EndWith` and `ThrowFromWith` are `SplunkContextManager.with` with the call of
`onBeforeContextChange` before and after the callback; `HeadMutated` is the
observer's own callback, `Resource` a performance entry that becomes a span in
`contextOf` its URL.

### RumLifecycle — `otel-web/src/index.ts`, `EventTarget.ts`, `SplunkWebTracerProvider.ts`, `SplunkSpanAttributesProcessor.ts`, `SessionBasedSampler.ts`, `browser/src/index.ts`

Each call of `Rum.init` has a number that names its event target, provider,
attributes processor and interval. An init is refused, fails where a factory
of the application throws, or goes through; `deinit` starts a shutdown whose
second half is a microtask, like every notification of a listener, so that a
new init can come between (`RunTask`). `Decided` is the sampler with its cached
decision; spans are started through Rum, the OpenTelemetry API, or a tracer that
was taken from an earlier provider.

### WebSocketSpans, SocketIoSpans — `otel-web/src/Splunk{WebSocket,SocketIoClient}Instrumentation.ts`

The lists of the browser (`native`) and of socket.io (`listening`) next to what
they would be without the instrumentation (`plain`, `meant`); the tables of
wrapped listeners. A message is delivered to one listener after the other and
each may add and remove listeners. socket.io may load before or after the
instrumentation is enabled (`waiting`), and the patches of two instrumentations
may lie upon each other (`patches`). `excused` names what the code does not
support: a listener removed under other patches than it was added under. What
`filter` leaves of a list is `Kept` of `Lists`.

### ErrorEvents, BrowserReports — `instrumentation-exception/src/browser`, `instrumentation-sentry-node/src/eventProcessor.ts`

`ErrorEvents` is without state: the event that `eventbuilder.ts` makes of
whatever was thrown, the frames and messages `integrations/hyperdx.ts` leaves,
and the path of an element. `BrowserReports` wraps `console.error` (`layers`,
with another library's wrappers among them), hears errors of the page, and
makes reports: started, processed, exported or lost. A report is asynchronous,
so `deinit` and the next init may come while it is made. Texts are sequences of
words; frames say whose code they are in.

### LocalVariables — `…/integrations/local-variables`

`Throw` pauses the program; the capture asks for the frames one by one
(`CaptureFrame`, `RequestFails`; `IsNext` is their order), in the paused thread
through a list of callbacks or in a worker, and `Complete` resumes. The worker's result comes in
a message, which may be later than the event (`ProcessEvent`). `Second` is the
timer of the rate limiter. `ResumeByOther` is another client of the worker's
debugger port.

### SourceContext — `…/integrations/contextlines.ts`

`contents` is `FILE_CONTENT_CACHE` with its order; `ProcessEvent` the first
loop (`Scanned`, frame by frame in `Visit`), which starts the reads of an event, `ReadEnds` a read, `AddLines` the
second loop, one exception at a time. Reads end in any order, but only when no
event could go on: an event goes on in microtasks.

### TraceAttributes — `node-opentelemetry/src/{MutableAsyncLocalStorageContextManager,spanProcessor,logger}.ts`, `instrumentations/console.ts`

Requests interleave as callbacks of one thread (`Arrive`, `RunJob`, `Fire`);
`With` makes a store or shares the one there is; spans copy the store at their
start and end. An attribute's value is the number of the call that set it, so
that a property can say whose it is.

### NodeSdk — `node-opentelemetry/src/otel.ts`

`InitSDK`, once or more, with the patches of modules that were loaded before;
`Shutdown` and `Signal`, which wait for the flush of the SDK of that moment;
`ShutdownEnds` exits. Traces, logs and metrics end their flushes on their own
and may fail.

### HttpCapture — `node-opentelemetry/src/instrumentations/http.ts`

One message of one of the four hooks. Pieces are written, or arrive and pass
through a stream of the capture's own; the end may come twice or not at all,
the span may end before. A keyword is a sequence of pieces, so that a chunk
border may cut it.

### LogTransports — `node-opentelemetry/src/otel-logger`, `node-logger/src`

winston hands a log over at once, pino through lines that a worker reads. The
batch processor, which is external, has a buffer of `BufferSize`; closing waits
for the batches it has sent. Both packages are in one module, as the older one
is a copy without contexts.

### Parts of a run

`BrowserParts` and `NodeParts`, and for the recorder `MCRecorderParts`, put
modules side by side that share no state: the initial state chooses one
(`part`), the others stay in theirs, so the states of the run are the **sum** of
those of the parts and no interleaving of independent parts is explored. The two
modules state the properties of their parts for every value of the constants,
which is what the theorems speak of; `MCBrowserParts` and `MCNodeParts` only give
values, and `MCPage` has the page and the errors of the former. A module that is
composed with what it depends on has that inside (`FatalErrorHandler` the shutdown
of the SDK, `RumLifecycle` sessions and sampler, `PageResources` the `with` of the
context manager).

---

## 4. Runs

| Run | Configuration | Question | Shows |
|---|---|---|---|
| `rum_session` | `MCRumSession.cfg` | do tabs that race on the cookie, with late timers and a clock set back, keep ages and staleness bounded and remember activity? | `SessionAgeBound`, `StaleIdBound`, `ExpiryNeedsInactivity` hold |
| `rum_session_live` | `MCRumSessionLive.cfg` | is an overaged session given up however late timers are? | `ExpiredSessionAbandoned` holds |
| `recorder` | `MCRecorderParts.cfg` | is what is recorded a replay, is it delivered as promised, and does a request say what was recorded? is the limiter a leaky bucket? | offsets, snapshots, queues and `ImplementsDelivery` hold; so do `RequestSaysTheBatch`, `ImplementsLeakyBucket`, `BlockedNodesRecover` |
| `fatal` | `MCFatalErrorHandler.cfg` | in every configuration: does the process end when it must, only then, and after the report? | all hold |
| `emitter` | `MCEmitterBinding.cfg` | is a bound emitter a plain one? | `ImplementsEmitter` holds |
| `context` | `MCBrowserParts.cfg` | is the right context active and none left behind; is the running provider registered; are sockets plain to the page; is an error reported once and as what it is? | all hold |
| `node` | `MCNodeParts.cfg` | are attributes, variables and lines those of their request and exception; does a process exit after its flush, a transport close without logs, no denied body get out? | all hold |
| `rum_session_race` | `MCRumSession_TabsOnlySetMaxAge.cfg` | "tabs don't compete/race" | violated, see 7 |
| `recorder_resume` | `MCSessionRecorderResume.cfg` | does `resume` restart the replay? | violated |
| `fatal_premature` | `MCFatalErrorHandler_NoPrematureShutdown.cfg` | does a second error leave the first capture alone? | violated |
| `emitter_removal` | `MCEmitterBinding_RemovalRemoves.cfg` | does a removal always remove? | violated |
| `context_registration` | `MCContextManager_RegistrationResumed.cfg` | do listeners resume the context of their registration? | violated |

Every run parses the constants' assumptions and checks them.

### Bounds, and why they are enough

* **rum_session**: two tabs and four ids: races are between a tab and whoever
  wrote the cookie in between, and two tabs, the cookie and one fresh id never
  hold more than four. `MaxAge 4 > Inactivity 2 = Period 2 > MaxDelay 1`, in
  the order of the real values (4 h, 15 min, 60 s) as far as the cases go:
  a session outlives several checks, a check can be late, the cookie can time
  out between two checks or not. One clock step: the second only repeats it.
  Ages saturate one above what the bounds can tell apart.
* **rum_session_live**: the smallest values that satisfy the assumptions, as
  lateness is unbounded anyway.
* **recorder**: two sessions and two initialisations (a change, a re-init with
  two processors alive), up to two chunks per event, three logs: a snapshot, the
  event that triggered it and one more, split over flushes in every way. With
  `MaxRec 0` the limit is reached after one tick.
  *Limiter*: two nodes, since a bucket never looks at another one; five tokens
  and a refill of two, so that a refill can be partial, exact and beyond the
  size, and bursts beyond the size exist.
  *Codec*: every type of value, empty or not, alone, in a list and in an object;
  times that are exact, rounded and refused; batches of one and two logs.
* **fatal**: three errors (first, second, ignored) and one rejection,
  24 configurations.
* **emitter**: three listeners, three installed, four patched functions.
* **context**: *contexts*: two spans and the root, two listeners, three nested
  calls, five calls of the application; six calls (4.4 million states) give the
  same answers. *rum*: two calls of init, a session that is sampled and one that
  is not, two microtasks that wait. *sockets*: two sockets, two listeners, two of
  them on a socket; one value of `capture`, as the code keeps only one per
  listener. *socket.io*: two instrumentations, a reserved event and another one,
  three listeners. *resources*: two URLs and two contexts, two nested calls.
  *reports*: two inits, two incidents and one foreign wrapper; and, as *report*,
  every kind of value that the event builder tells apart, one at a time.
* **node**: *variables*: three throws from three stacks (two frames of one
  function and a frame of `new Promise`; frames out of the application; no
  stack), a cache of one, so that a second stack evicts the first. *attributes*:
  two requests, two calls of `setTraceAttributes`, one of them may bind a
  callback of the other's. *sdk*: two inits, two shutdowns that wait. *http*:
  three pieces, a keyword of two, so that every border can cut it. *logs*: four
  logs through a buffer of two and a queue of one. *lines*: a cache of three,
  four files and two events: one alone whose file is the oldest of a full cache
  while it reads another, two that read the same files at once, and events whose
  files together do not fit. Three events (540 000 states of this part) give the
  same answers.

Deadlock is not checked where the system may stop: the page is gone
(`recorder`), the process has exited (`fatal`, `node`), or the bound on the
calls is used up (`context`, `node`).

---

## 5. Fairness

* **RumSession**: weak fairness of `Tick`, `StartCheck(t)` and
  `FinishCheck(t)`: time passes and a browser runs an interval callback some
  time, however late it throttles it. Users and the wall clock owe nothing.
  A tab need not stay open: closing it is one way of giving a session up.
* **SessionRecorder**: weak fairness of `FlushTimer`: a timer that was set
  fires while the page is up. The page may be killed at any time.
* **FatalErrorHandler**: weak fairness of `DelayFires`, `ExitTimeout` and
  `CaptureSettles(f)`: the first two are timers of Node, the capture reads
  local files. `ShutdownDone` is not fair, as the network may hang for ever:
  that is what the timeout is for, and why `FatalErrorsExit` speaks of errors
  and not of signals.
* **MutationRateLimiter**: weak fairness of `RefillBuckets`, an interval that
  is never cleared.
  In `MCRecorderParts` both kinds of fairness are asked of one behaviour: the
  fair action of the part that was not chosen is not enabled there.
* **All other modules**: none, safety only. Their liveness would rest on the
  network, on a debugger or on the application, which owe the code nothing.

---

## 6. Proofs

TLC finds out on a small instance; the theorems below hold for every value of the
constants that the named assumptions allow.

| Module | Theorems, with the property each one states |
|---|---|
| `RumSessionProofs` | `TypeCorrect`; `SessionAgeBounded` (`SessionAgeBound`); `StaleIdBounded` (`StaleIdBound`); `ActivityNotForgotten` (`ExpiryNeedsInactivity`) |
| `SessionRecorderProofs` | `TypeCorrect`; `OffsetsAreDense` (`OffsetsDense`); `NoLogStranded` (`NoStrandedLogs`); `FiledForwards` (`NeverFiledBackwards`); `SnapshotsComeFirst` (`SnapshotFirst`); `GapsAreClosed` (`ReplayAnchored`); `DeliveryImplemented` (`ImplementsDelivery`) |
| `FatalErrorHandlerProofs` | `TypeCorrect`; `FatalErrorRunsOnce` (`FatalErrorOnce`); `ApplicationKeepsControl` (`ApplicationDecides`); `LoneReportExported` (`SoleReportExported`) |
| `MutationRateLimiterProofs` | `TypeCorrect`; `ReportedOnce` (`BlockedReportedOnce`); `LeakyBucketImplemented` (`ImplementsLeakyBucket`) |
| `EmitterBindingProofs` | `TypeCorrect`; `InvHolds`; `EmitterImplemented` (`ImplementsEmitter`) |
| `ContextManagerProofs` | `TypeCorrect`; `InnermostIsActive` (`InnermostWith`); `RequestIsPlain` (`RequestAsPlain`); `PostsInOrder` and `NoContextIsLeft`, together `ContextsAreFresh` (`NoStaleContext`) |
| `NodeProofs` | `SdkTypes`, `AttributeTypes`, `TransportTypes`, `CaptureTypes`, `HttpTypes`, `SourceTypes`, together `PartsTypes` (`TypesOK`); `SignalsWaitForTheFlush` (`ExitAfterFlush`); `TraceKeepsItsAttributes` (`AttributesOfTheTrace`); `PausesEnd` and `VariablesOfTheThrow`, together `CapturesServe` (`CapturesServeTheirThrow`); `DeniedStaysOff` (`NothingDeniedRecorded`); `ClosedTransportsAreEmpty` (`ClosedWithNothingLeft`); `FramesGetTheirLines` (`LinesOfEveryFrame`); `PartsImplementEach`, `PartsAreSafe` |
| `BrowserProofs` | `RumTypes`, `SocketTypes`, `EmitterTypes`, `ResourceTypes`, `ReportTypes`, together `PartsTypes` (`TypesOK`); `SpansKeepTheDecision` (`SpansOfTheSession`); `ListenersHear` (`AttributesHeard`); `InstrumentedAsPlain` (`ListenersAsPlain`); `ListenersAsMeant` (`RegisteredAsMeant`); `LoadsInContext` (`ResourcesInContext`); `ErrorsExportedOnce`, and with it `ReportedOnceAsWhatTheyAre` (`ErrorsReportedOnce`); `PartsImplementEach`, `PartsAreSafe` |

### What is assumed of the constants

Every bound is a natural number. Beyond that:

* `Punctual` (`SessionAgeBounded`, `StaleIdBounded`): timers are late by
  `MaxDelay` at most; without it there is no bound to prove.
* `AddsOnce`, `HandlersApart` (`InvHolds`, `EmitterImplemented`): what the
  application does, see section 3. `emitter_removal` shows what happens without.
* `RumAssumption`: there is a session, and `NoSession` is none.
* `CaptureAssumption` (the sockets): the page uses one value of
  `options.capture`. The code keys the patched listeners by the function alone
  (`SplunkWebSocketInstrumentation.ts:149-170`), so it makes no more promise.
* `AttributeAssumption`: the value of an attribute is the number of the call that
  set it, so "no value" and "set by the span itself" are not numbers.
* `HttpAssumption`: the event that ends a body is no piece of one.
* `LogAssumption`: a buffer has room for a log; `BatchLogRecordProcessor` sends
  in batches of its size.
* `ThrownAssumption`: an event has the frames of the debugger from the top, in
  their order and as far as its stack goes, apart from the frames the code leaves
  out itself (`local-variables-sync.ts:289-319` matches them by place); the cache
  holds at least one stack, and the first pause of the limiter is no longer than
  the longest.
* `SourceAssumption`: an event is a list of stacks, a stack a list of files or
  none, and the cache has room for a file (100 in the code).
* `ReportsAssumption`, `ValuesAssumption`: names and messages are texts; an object
  or an event has no message; an `ErrorEvent` has one error at most, which has a
  stack or is worth a report by its text.
* `ReadsAlone`, in `ReportedOnceAsWhatTheyAre` only: the frames the parser and the
  filters leave of a single stack are the calls of the page in it, and the path of
  an element leads to that element. Both are texts and how they are read is up to
  `createStackParser`; for each of its values the run `context` checks that it is
  so, since `BrowserReports` is there with one incident of every value.

### The arguments

**RumSession.** The bound on the age of the reported session is not inductive:
it needs the time since the tab's last check. `IInv` conjoins `TypeOK`; `IdInv`
(a live tab has an id); under `Punctual`, `AgeInv`: a tab's
`age + due ≤ MaxAge + Period`, i.e. what age a session has when the next check
is due; and, while the clock was not set back, that no session starts in the
future and that a tab whose id differs from the cookie's will check before
`settled` exceeds the bound. `Tick` moves ages up and `due` down, a check
replaces an old session and restarts `due`, and writes restart `settled`.
For `ExpiryNeedsInactivity`, `ActivityInv` says how the time-out of the cookie
and the tabs' activity go together: an idle tab with nothing to report has been
idle for what has passed of the time-out, and a tab inside its check either has
activity to report about the very cookie it read, or has been idle as long.

**FatalErrorHandler.** `IInv` ties the closure to what is under way: who is
captured (`CaptureInv`), which of the two callers of `onFatalError` may still
call it (`FatalInv`; without it a capture and the delay could both), and that
nothing of this has begun while every error met a listener (`QuietInv`). For
the report, three more facts under the Node SDK's flush: a shutdown under way
implies that somebody asked for it (`FlushOrder`), a fault followed by an exit
is captured before that exit is among those under way (`ReportSettled`), and a
recorded lone report is in the batch or exported (`ReportKept`).

**SessionRecorder.** A nested `emit` works on an intermediate state, so the
lemmas are about emit states: `EmitFits(r)` says the counters of `r` are right
(`Numbered`) for what was recorded before, followed by what `r` is about to
hand over. Recording chunks preserves it (`RecordFits`), adopting a session
does, because a changed session is a later one than that of the last log, and
so the numbering may start over (`AdoptFits`), and with them every branch of
`emit` (`EmitFitsLemma`). `Numbered` also bounds a log's numbers by its place,
from which the types follow. On the side of the queues `TimersFit` says that a
queue with logs is armed, that armed processors and pending timers correspond,
and that no processor has two timers: without the last, a timer that fires
would leave another one behind. `QueuesFit` and `SentFits` order sessions.

That a replay is whole goes the same way: `ReplayInv` says that a gap other than
that of a pause is only there while the next `emit` will adopt a new session or
drop as well (`Anchored`), and that the first event of a session is a snapshot
(`FirstFull`), first of emit states (`RecordReplays`, `EmitKnownReplays`), then
of the recorder.

The mapping to `ReplayDelivery` is about all logs recorded and all logs sent,
which lie in any number of queues. `DeliveryInv` has a witness for how they lie:
`Cuts(C, …)` is a cutting of `recorded` such that what was shipped comes first
and the queues hold the rest piece by piece, in the order in which their
processors were made; a queue that is empty lies between equal cuts. Timers fire
in that order too (`Ordered`), and the queues an unload has flushed are empty, so
whoever flushes has the first logs that are left: the request is the next ones of
`recorded`, and `Flush` is the step of `ReplayDelivery` that ships them.

**MutationRateLimiter.** `LimiterTypeOK` and that exactly the nodes in
`loggedTracker` have been reported (`ReportInv`) are inductive; the refinement
then is arithmetic on `Tokens`.

**EmitterBinding.** The refinement needs that the patched function found in
the map for a listener is the one installed, if any, and that no two listeners
share one: `LinkInv` (what is installed under a listener is the listener or
its entry of the map), `MapInv` (the map is injective), `AddingInv` (the
addition under way is still the map's). Each step of the bound emitter is then
a step of `Emitter`, or stutters (`Bind`, `BeginAdd`); removal is matched by
showing that the last position with the patched function is the last position
of the listener.

**ContextManager.** `InnermostWith` speaks of the top of the stack, and leaving a
call needs what is below it. `StackInv` says of every frame that the context kept
in it is the one that was active there (`ActiveBefore`), and `ResumeInv` that a
callback waits and runs in the context it was handed over in; an exception leaves
frames as a return does. `CountInv` bounds what was numbered by the calls. For a
request, `WrappedInv` says that while the manager is enabled a listener is
installed as the wrapper that `_contextResumingListeners` would give again, which
is why a removal finds it, and `ListenersInv` states `RequestAsPlain` element by
element.

**NodeSdk.** `WaitInv`: whoever waits for an SDK waits for its traces and its logs,
whatever a later `initSDK` puts in its place.

**TraceAttributes.** `OwnerInv`: a store is reached by the executions of one
request only, those that run, wait as jobs, or have set something with it.
`StoreInv`: a store has what was set in it last (`LastIn`). `SpanInv`: a span has
what its request had set when it started or, when it has ended, at its end
(`SpanOK`). An interleaving of requests changes none of the three for a store it
does not run with.

**LocalVariables.** `PauseInv`: a paused program has a capture. `VarInv` follows
the variables of a throw: they are in one place, be it a capture, a message, the
cache or an event (`OnePlace`), never of a throw that has not happened
(`Happened`), and in the paused thread the capture is of the last throw, whose
event is still to come (`InTheThread`).

**HttpCapture.** `HttpInv`: a body that can be read was made of all chunks there
were when it was set, and chunks only grow. The check of the deny list is made on
that body as a whole, so no border between chunks matters.

**LogTransports.** `LtInv` follows the logs: every one is in the lines, the
buffer, a batch on its way, exported or given up (`PlaceInv`), in one of these
only (`OnceInv`), and nothing is there that was not logged (`LoggedInv`); a
transport that closes takes nothing more (`ClosingInv`); a record has the span it
was logged in (`RightInv`). The batches that closing makes are a matter of
division: every place of the buffer is in one of them (`BatchOfPlace`) and no
two overlap (`BatchesApart`).

**RumLifecycle.** `ProviderInv`: the API has the provider of the SDK exactly while
it is inited, and only earlier ones are or will be shut down: that is why the
second half of an old shutdown does no harm. `DecisionInv`: every sampler has the
decision of the session it knows. `HeardInv`: a listener that knows old attributes
has a microtask that waits.

**WebSocketSpans.** `Fits` ties, for one socket, the browser's list, the list of a
plain socket and the table: the two have the same functions in the same order,
and a listener of an instrumented socket is there exactly if the table has it. An
addition or a removal happens at the same place of both (`AddedToBoth`,
`RemovedFromBoth`).

**PageResources.** `RecordsInv`: a record that waits belongs to the active
context, as records are taken before and after every change of it; any other URL
has its context in the table.

**SocketIoSpans.** `CountsInv`: of every listener the emitter has as many entries
as without patches, those of `on` and those of `once` each on their own. A removal
takes one entry of the wrapped function from one list and one of the plain
function from the other, or none from either, because the table knows what `on`
has wrapped under every patch (`TablesInv`).

**BrowserReports.** `LifeInv`: only the running SDK hears, and no instance has two
wrappers on `console.error`. `OnceInv`: an instance makes at most one report of
an incident, and while no former provider is shutting down only that of the
instance that heard it can be exported (`OnlyOf`); so a wrapper left behind by
another library makes reports that go nowhere. `WorthInv`: the report is there
if the incident is worth one. What a report says is settled when it is processed
(`FromEvent`); that it then is what was thrown is a statement about the pure
functions of `ErrorEvents`, case by case of what the page can throw.

**SourceContext.** The cache is a list in the order of use. `Recent(c, F)` says
that the files of `F` in it were used after all others; looking up a file of `F`
makes or keeps it so (`GetFacts`), and so the first loop leaves the files of its
event last (`ScannedFacts`). When a read of an event that is alone drops the
oldest entry, that entry is not of the event: it would be followed by files of
the event only, the missing one not among them, and their number be less than
the capacity (`CacheFits`). So the files of the event stay (`MineInv`) until the
second loop takes the lines from them; with other events about, they stay
because nothing is dropped while all files leave room (`RoomInv`). `NullInv`: a
null in the cache is of a file that could not be read.

**Loops.** What a recursive function computes for a list of any length is proved by
`Induction`, which follows from the least element of a set of naturals (`Least`);
that such a function exists, which CHOOSE needs, is `Recursion`. They are stated
about sets in place of predicates, so that the provers can use them.

**Compositions.** A step of `PartsNext` is a step of one part and stutters in the
others, so the composition implements each part's specification
(`PartsImplementEach`), and what was proved of the parts holds of it
(`PartsAreSafe`). In `BrowserParts` this is said of the parts with variables of
their own; `BrowserReports` runs in two parts, each with bounds of its own.

### Only model-checked

* Liveness (`ExpiredSessionAbandoned`, `QueueDrains`, `FatalErrorsExit`,
  `BlockedNodesRecover`) needs ENABLED and fairness, which are out of TLAPS's
  reach here.
* `RequestSaysTheBatch` rests on the RECURSIVE operators of `OtlpCodec`, which take
  messages nested to any depth; the provers have no SMT backend in a module that
  declares one.
* That the stack of a single error and the path of a single element are read as the
  page means them (`ReadsAlone`), for the values of the run.

`BlockedReportedOnce` is proved and no longer part of a run.

---

## 7. Where documentation and code disagree

* `otel-web/src/session.ts:31-33` says tabs "don't compete/race to do anything
  but set the max-age". They do: two tabs that find no valid session at the
  same time each create one, and a tab can write back a session another one
  has replaced (`rum_session_race`). `StaleIdBound` is what saves the day: the
  loser adopts the winner's session within a period.
* `browser/README.md:149-156` offers to stop and resume the recorder. `resume`
  clears `paused` and takes a snapshot only if it was *not* paused, so a
  resumed replay continues with increments to a page it has not seen
  (`recorder_resume`).
* `onuncaughtexception.ts:134-135` wants to avoid a premature shutdown before
  the first capture finishes. If the first error was fatal, a second one during
  its capture flushes and exits at once (`fatal_premature`).
* `AbstractAsyncHooksContextManager.ts:25-27` says removing a listener removes
  the patched function. A listener that was added twice has only its latest
  patched function in the map: the second removal removes nothing
  (`emitter_removal`).
* `SplunkContextManager.ts:369` says wrapped listeners resume the context from
  event registration. A function that was wrapped before keeps the context of
  its first registration, even after a removal (`context_registration`).

Met while modelling, without a run of their own:

* the unbound `forceFlush` (`instrumentation.ts:65`) always rejects, so without
  the Node SDK the process exits without a flush; the delay after a second error
  is also reached when the first error met listeners of the application, which
  the comment does not list;
* activity in the last period before the cookie times out does not save the
  session, as only the check renews it (`session.ts:133-147`;
  `ExpiryNeedsInactivity` states what does hold);
* a recorder that is initialised again under a new session goes on with the
  counters of the old one (`session-recorder/src/index.ts:74-130`), so that
  session's offsets start beyond 1, which is why `OffsetsDense` allows it;
* the generated decoder refuses what the encoder writes: times in nanoseconds
  are beyond the safe integers (`logs.ts`, `longToNumber`). Nothing in the
  repository decodes;
* a hashchange listener that was wrapped cannot be removed
  (`SplunkContextManager.ts:500`); disabling the context manager leaves the
  patches of `requestAnimationFrame` and of text nodes in place; when `with`
  calls are nested around one change of the hash, the outermost context is
  attached;
* `SplunkPostDocLoadResourceInstrumentation.ts:119-120` says why records are
  taken before and after a callback; after a callback that throws they are not,
  and go to the calling code (`left`);
* `contextlines.ts:95` takes it that all files of an event are in the cache.
  Events that are processed at the same time evict each other's files, and even
  files of one hundred together do not all stay, because storing a file that is
  already there makes room for it once more: there has to be room for one more
  (`LinesOfEveryFrame`);
* a keyword of `httpCaptureBodyKeywordsFilter` that is not in lower case never
  matches (`http.ts:59-63`);
* a value whose `toString` throws breaks the call of `console.error`
  (`instrumentations/utils.ts:1-28`); the removal of the SDK's frames knows only
  the file that calls `hdxReport` (`integrations/hyperdx.ts:19-59`); the global
  handlers and wrapped APIs of `browser/integrations` have no caller; causes are
  never linked, as the hint does not carry the error they are looked up in.

---

## 8. What is not modelled

* **External code.** rrweb, OpenTelemetry, Sentry's functions, shimmer, the
  browser and Node are modelled by how the code uses them, and marked external
  in the map.
* **Components that are a mapping of data**, or corrections of an external
  instrumentation that holds the state: interaction spans, fetch and XHR (when a
  span begins and ends is decided in OpenTelemetry's instrumentations), page
  signals, document load and long tasks, the browser console (whose wrapping is
  that of `console.error`), the parsing of stacks, the facts about the machine,
  deno, the CLI. The `components` of `PROJECT.json` say why, one by one.
* **Data in the modelled components.** Span names and attributes where no
  property is about them, resource attributes, cookie attributes, the bytes of a
  protobuf scalar, the values of local variables, the lines around a frame, the
  regular expressions for the lines of a stack, levels and formats of logs, and
  `ensureStringifiedMaxMessageSize`, which cuts data URIs out of oversized
  messages.
* **In the modelled components:** events emitted inside a listener
  (`EmitterBinding`); the `on…` properties of a request, a port listener that
  is removed, and re-enabling (`ContextManager`); a second page load of the
  same session (`SessionRecorder`); the socket.io `emit` and the WebSocket's
  `send`, which only have a span; exports that are retried (they never are: a
  failed fetch is swallowed).
