---------------------------- MODULE TraceAttributes ----------------------------
(***************************************************************************)
(* setTraceAttributes of the Node SDK (packages/node-opentelemetry/src):   *)
(* attributes that a request sets for its own spans and logs.  They are    *)
(* kept in a mutable store next to the context, in an AsyncLocalStorage:   *)
(* the outermost with of an asynchronous execution makes a store, what     *)
(* runs inside or follows from it shares it.  Spans copy the store when    *)
(* they start and when they end, logs when they are written.               *)
(*                                                                         *)
(* The program runs one callback at a time.  An attribute value is the     *)
(* number of the call that set it; Own stands for a value that the         *)
(* application gave to the span or the log itself.                         *)
(***************************************************************************)
EXTENDS Integers, Sequences, FiniteSets

CONSTANTS
  Traces,    \* requests, that is traces
  Keys,        \* attribute names
  None, Own,
  MaxSets,     \* bound: calls of setTraceAttributes
  MaxStores,   \* bound: stores
  MaxSpans,    \* bound: spans
  MaxJobs,     \* bound: callbacks to come
  MaxFrames    \* bound: nesting of calls

VARIABLES
  beta,        \* HDX_NODE_BETA_MODE
  inits,       \* calls of initSDK so far: the API keeps the context manager and
               \* the tracer provider of the first, otel.ts the manager of the last
  frames,      \* the running callback: request and store of every with in it
  jobs,        \* callbacks to come: their request and store, None if what is
               \* bound is the context alone
  traceAttributes,  \* per store
  sets,        \* history: request, store and key of each call
  traced       \* spans: request, whether open, attributes; history: store and
               \* number of calls at their start and end

taVars == <<beta, inits, frames, jobs, traceAttributes, sets, traced>>

Stores == DOMAIN traceAttributes
Values == 0..MaxSets \cup {None, Own}
Maybe(S) == S \cup {None}
Attrs == [Keys -> Values]
Frame == [req : Traces, store : Maybe(1..MaxStores)]
Moment == [store : Maybe(1..MaxStores), sets : 0..MaxSets]

TypeOK ==
  /\ beta \in BOOLEAN
  /\ inits \in 0..2
  /\ frames \in Seq(Frame) /\ Len(frames) <= MaxFrames
  /\ jobs \subseteq [req : Traces, store : Maybe(1..MaxStores), bound : BOOLEAN]
  /\ traceAttributes \in Seq(Attrs)
  /\ sets \in Seq([req : Traces, store : 1..MaxStores, key : Keys])
  /\ traced \in Seq([req : Traces, open : BOOLEAN, attrs : Attrs,
                    start : Moment, end : Moment])

InitWith(b) ==
  /\ beta = b
  /\ inits = 0
  /\ frames = <<>> /\ jobs = {}
  /\ traceAttributes = <<>> /\ sets = <<>> /\ traced = <<>>

Init == \E b \in BOOLEAN : InitWith(b)

-----------------------------------------------------------------------------
(* Contexts.                                                               *)

Top == frames[Len(frames)]
Running == frames # <<>>
Blank == [k \in Keys |-> None]

\* initSDK: a new context manager for the module, the spans and the console
InitSDK ==
  /\ inits < 2
  /\ inits' = inits + 1
  /\ UNCHANGED <<beta, frames, jobs, traceAttributes, sets, traced>>

\* a request comes in, outside of any with
Arrive(r) ==
  /\ ~Running
  /\ frames' = <<[req |-> r, store |-> None]>>
  /\ UNCHANGED <<beta, inits, jobs, traceAttributes, sets, traced>>

\* mutant: every with without a store of its own gets the same one
StoreFor_Shared(s) ==
  IF s # None THEN s ELSE 1

\* the store of a with that is called where the store is s
StoreFor(s) == IF s # None THEN s ELSE Len(traceAttributes) + 1

\* with(context, fn): without an SDK the API does nothing but call fn
Enter(req, s, below) ==
  LET store == IF inits = 0 THEN None ELSE StoreFor(s) IN
  /\ Len(below) < MaxFrames
  /\ store # None => store <= MaxStores
  /\ frames' = Append(below, [req |-> req, store |-> store])
  /\ traceAttributes' = IF store # None /\ store > Len(traceAttributes)
                        THEN Append(traceAttributes, Blank) ELSE traceAttributes

With ==
  /\ Running
  /\ Enter(Top.req, Top.store, frames)
  /\ UNCHANGED <<beta, inits, jobs, sets, traced>>

Return ==
  /\ Running
  /\ frames' = SubSeq(frames, 1, Len(frames) - 1)
  /\ UNCHANGED <<beta, inits, jobs, traceAttributes, sets, traced>>

\* a timer, a promise: runs later with the same store; or a listener that was
\* bound, which keeps the context only
Register(bound) ==
  /\ Running /\ Cardinality(jobs) < MaxJobs
  /\ jobs' = jobs \cup {[req |-> Top.req, bound |-> bound,
                         store |-> IF bound THEN None ELSE Top.store]}
  /\ UNCHANGED <<beta, inits, frames, traceAttributes, sets, traced>>

RunJob(j) ==
  /\ ~Running /\ ~j.bound
  /\ jobs' = jobs \ {j}
  /\ frames' = <<[req |-> j.req, store |-> j.store]>>
  /\ UNCHANGED <<beta, inits, traceAttributes, sets, traced>>

\* an event, raised by the request itself or outside of any with, calls a bound
\* listener through with
Fire(j) ==
  /\ j.bound
  /\ Running => Top.req = j.req
  /\ jobs' = jobs \ {j}
  /\ Enter(j.req, IF Running THEN Top.store ELSE None, frames)
  /\ UNCHANGED <<beta, inits, sets, traced>>

-----------------------------------------------------------------------------
(* Attributes.                                                             *)

\* setTraceAttributes; after a second initSDK contextManager is not the one the
\* API uses and has no store
SetTraceAttributes(k) ==
  /\ Running /\ Len(sets) < MaxSets
  /\ IF inits = 1 /\ Top.store # None
     THEN /\ sets' = Append(sets, [req |-> Top.req, store |-> Top.store, key |-> k])
          /\ traceAttributes' = [traceAttributes EXCEPT ![Top.store][k] = Len(sets) + 1]
     ELSE UNCHANGED <<sets, traceAttributes>>
  /\ UNCHANGED <<beta, inits, frames, jobs, traced>>

Visible == IF Top.store = None THEN Blank ELSE traceAttributes[Top.store]

\* _setTraceAttributes of the span processor
Tagged(attrs) ==
  [k \in Keys |-> IF attrs[k] = None /\ beta THEN Visible[k] ELSE attrs[k]]

Now == [store |-> Top.store, sets |-> Len(sets)]

OwnAttrs(own) == [k \in Keys |-> IF k \in own THEN Own ELSE None]

\* onStart of a span with attributes given by the application
StartSpan(own) ==
  /\ Running /\ inits > 0 /\ Len(traced) < MaxSpans
  /\ traced' = Append(traced, [req |-> Top.req, open |-> TRUE,
                             attrs |-> Tagged(OwnAttrs(own)), start |-> Now, end |-> Now])
  /\ UNCHANGED <<beta, inits, frames, jobs, traceAttributes, sets>>

\* span.setAttribute
SetAttribute(i, k) ==
  /\ Running /\ traced[i].open /\ traced[i].req = Top.req
  /\ traced' = [traced EXCEPT ![i].attrs[k] = Own]
  /\ UNCHANGED <<beta, inits, frames, jobs, traceAttributes, sets>>

\* onEnd, in the request the span belongs to
EndSpan(i) ==
  /\ Running /\ traced[i].open /\ traced[i].req = Top.req
  /\ traced' = [traced EXCEPT ![i].open = FALSE, ![i].attrs = Tagged(@), ![i].end = Now]
  /\ UNCHANGED <<beta, inits, frames, jobs, traceAttributes, sets>>

\* log of winston: the fields of the log win
WinstonMeta(own) ==
  [k \in Keys |-> IF k \in own THEN Own
                  ELSE IF beta /\ inits > 0 THEN Visible[k] ELSE None]

\* _patchConsole of the instrumentation of the i-th initSDK: the attributes win;
\* only the first instrumentation has the manager that is in use
ConsoleMeta(own, i) ==
  [k \in Keys |-> IF beta /\ i = 1 /\ Visible[k] # None THEN Visible[k]
                  ELSE OwnAttrs(own)[k]]

\* the pino transport runs in a worker and gets no getCustomMeta
PinoMeta(own) == OwnAttrs(own)

\* the attributes of a log with fields of its own, by way of its transport
LogMetas(own) ==
  {WinstonMeta(own), PinoMeta(own)} \cup {ConsoleMeta(own, i) : i \in 1..inits}

Next ==
  \/ InitSDK
  \/ \E r \in Traces : Arrive(r)
  \/ With \/ Return
  \/ \E bound \in BOOLEAN : Register(bound)
  \/ \E j \in jobs : RunJob(j) \/ Fire(j)
  \/ \E k \in Keys : SetTraceAttributes(k)
  \/ \E own \in SUBSET Keys : StartSpan(own)
  \/ \E i \in DOMAIN traced : EndSpan(i) \/ \E k \in Keys : SetAttribute(i, k)

Spec == Init /\ [][Next]_taVars

-----------------------------------------------------------------------------
(* Properties.                                                             *)

\* the call that set k last in the store, among the first n
LastSet(k, m) ==
  LET at == {v \in 1..m.sets : sets[v].store = m.store /\ sets[v].key = k} IN
  IF at = {} THEN None ELSE CHOOSE v \in at : \A w \in at : w <= v

\* No span and no log written now has an attribute that another request set, and
\* a span carries what its store held when it started, else what it held when it
\* ended, unless the application set the attribute itself
\* (MutableAsyncLocalStorageContextManager.ts:47-57, spanProcessor.ts:39-74).
AttributesOfTheTrace ==
  /\ Running => \A own \in SUBSET Keys : \A meta \in LogMetas(own), k \in Keys :
       meta[k] \in DOMAIN sets => sets[meta[k]].req = Top.req
  /\ \A i \in DOMAIN traced, k \in Keys :
       LET s == traced[i]
           expected == IF LastSet(k, s.start) # None \/ s.open THEN LastSet(k, s.start)
                       ELSE LastSet(k, s.end) IN
       s.attrs[k] # Own => /\ s.attrs[k] = IF beta THEN expected ELSE None
                           /\ s.attrs[k] # None => sets[s.attrs[k]].req = s.req

=============================================================================
