------------------------------- MODULE NodeParts -------------------------------
(***************************************************************************)
(* The parts of the Node SDK, one of them in each behaviour: which one is  *)
(* chosen in the initial state and the others stay in theirs.  The states  *)
(* are the sum of those of the parts, and each part follows its own        *)
(* specification.                                                          *)
(***************************************************************************)
EXTENDS Integers, Sequences

CONSTANTS
  \* LocalVariables: Thrown are its Stacks, MaxVisited its MaxFrames
  Thrown, NoHash, MaxPerSecond, FirstRetry, LongestRetry, CacheSize, MaxVisited, MaxThrows,
  \* TraceAttributes: NoValue is None, OwnValue is Own
  Traces, Keys, NoValue, OwnValue, MaxSets, MaxStores, MaxSpans, MaxJobs, MaxFrames,
  \* NodeSdk
  Modules, Fact, Telemetry, MaxInits, MaxWaits,
  \* HttpCapture
  Pieces, Keywords, MaxPieces,
  \* LogTransports
  SpanIds, NoSpan, BufferSize, QueueSize, MaxLogged,
  \* SourceContext: EventStacks are its Stacks
  EventStacks, NoFile, Capacity, MaxEvents, MaxTroubled

\* A value that was set is the number of a call.
ASSUME AttributeAssumption ==
  /\ MaxSets \in Nat /\ MaxStores \in Nat /\ MaxFrames \in Nat \ {0}
  /\ NoValue \notin Nat /\ OwnValue \notin Nat /\ NoValue # OwnValue

ASSUME SdkAssumption == MaxInits \in Nat /\ MaxWaits \in Nat

\* The event that ends a body is no piece of it.
ASSUME HttpAssumption == "end" \notin Pieces

ASSUME LogAssumption == BufferSize \in Nat \ {0} /\ MaxLogged \in Nat

VARIABLES
  part,
  impl, session, limiter, pauseOn, throws, pausedBy, captures, inbox, cachedFrames,
  shown, reported, captured, broken,
  beta, inits, frames, jobs, traceAttributes, sets, traced,
  authorization, instances, handlers, flushed, waits, exitedFor,
  message, encoding, chunks, piped, finished, garbled, spanOpen, body,
  transport, origin, lines, ending, closing, buffer, inFlight, sent, spilled, failed,
  refused,
  contents, events, troubled

LV == INSTANCE LocalVariables WITH Stacks <- Thrown, MaxFrames <- MaxVisited
TA == INSTANCE TraceAttributes WITH None <- NoValue, Own <- OwnValue
NS == INSTANCE NodeSdk
HC == INSTANCE HttpCapture
LT == INSTANCE LogTransports
SC == INSTANCE SourceContext WITH Stacks <- EventStacks

\* error.stack and the debugger list the same calls from the top; they differ by the
\* frames of `new Promise` and by where they end.
ASSUME ThrownAssumption ==
  /\ \A s \in Thrown : \E n \in 0..Len(s.shown) : LV!EventFrames(s) = [i \in 1..n |-> i]
  /\ CacheSize \in Nat \ {0} /\ MaxThrows \in Nat
  /\ LongestRetry \in Nat \ {0} /\ FirstRetry \in 1..LongestRetry

ASSUME SourceAssumption ==
  /\ EventStacks \subseteq Seq(Seq(SC!Files \cup {NoFile}))
  /\ Capacity \in Nat \ {0}

lvVars == <<impl, session, limiter, pauseOn, throws, pausedBy, captures, inbox,
            cachedFrames, shown, reported, captured, broken>>
taVars == <<beta, inits, frames, jobs, traceAttributes, sets, traced>>
sdkVars == <<authorization, instances, handlers, flushed, waits, exitedFor>>
hcVars == <<message, encoding, chunks, piped, finished, garbled, spanOpen, body>>
ltVars == <<transport, origin, lines, ending, closing, buffer, inFlight, sent, spilled,
            failed, refused>>
scVars == <<contents, events, troubled>>
partsVars == <<part, lvVars, taVars, sdkVars, hcVars, ltVars, scVars>>

PartsInit ==
  /\ part \in {"variables", "attributes", "sdk", "http", "logs", "lines"}
  /\ IF part = "variables" THEN LV!Init
     ELSE LV!InitWith([where |-> "sync", all |-> FALSE])
  /\ IF part = "attributes" THEN TA!Init ELSE TA!InitWith(FALSE)
  /\ NS!Init
  /\ IF part = "http" THEN HC!Init ELSE HC!InitWith("clientRequest", "identity")
  /\ IF part = "logs" THEN LT!LtInit
     ELSE LT!InitWith([lib |-> "pino", pkg |-> "otel", disabled |-> FALSE, mixin |-> FALSE])
  /\ SC!Init

PartsNext ==
  /\ UNCHANGED part
  /\ \/ /\ part = "variables" /\ LV!Next
        /\ UNCHANGED <<taVars, sdkVars, hcVars, ltVars, scVars>>
     \/ /\ part = "attributes" /\ TA!Next
        /\ UNCHANGED <<lvVars, sdkVars, hcVars, ltVars, scVars>>
     \/ /\ part = "sdk" /\ NS!Next
        /\ UNCHANGED <<lvVars, taVars, hcVars, ltVars, scVars>>
     \/ /\ part = "http" /\ HC!Next
        /\ UNCHANGED <<lvVars, taVars, sdkVars, ltVars, scVars>>
     \/ /\ part = "logs" /\ LT!LtNext
        /\ UNCHANGED <<lvVars, taVars, sdkVars, hcVars, scVars>>
     \/ /\ part = "lines" /\ SC!Next
        /\ UNCHANGED <<lvVars, taVars, sdkVars, hcVars, ltVars>>

PartsSpec == PartsInit /\ [][PartsNext]_partsVars

-----------------------------------------------------------------------------
(* The properties of the parts.                                            *)

\* the types of the part that runs; the others stay in their initial states
TypesOK ==
  CASE part = "variables" -> LV!TypeOK
    [] part = "attributes" -> TA!TypeOK
    [] part = "sdk" -> NS!TypeOK
    [] part = "http" -> HC!HcTypeOK
    [] part = "logs" -> LT!LtTypeOK
    [] part = "lines" -> SC!TypeOK

\* LocalVariables: a program paused at a throw will be resumed, unless the worker's
\* request was rejected (worker.ts:179-191); and the variables captured there stand in
\* the event of that throw and in no other (local-variables-sync.ts:273-319).
CapturesServeTheirThrow == LV!PausedIsAttendedTo /\ LV!VariablesBelong

\* SourceContext: the frames of an event get their lines of source, whatever other
\* events read meanwhile, while the files leave room in the cache
\* (contextlines.ts:81-106).
LinesOfEveryFrame == SC!LinesOfEveryFrame

\* TraceAttributes: no span and no log has attributes of another request
\* (MutableAsyncLocalStorageContextManager.ts:47-57).
AttributesOfTheTrace == TA!AttributesOfTheTrace

\* NodeSdk: a signal ends the process after the flush (otel.ts:545-558).
ExitAfterFlush == NS!ExitAfterFlush

\* HttpCapture: no keyword of the deny list can be read in a body
\* (http.ts:52-64).
NothingDeniedRecorded == HC!NothingDeniedRecorded

\* LogTransports: a transport that is closed has no log left
\* (otel-logger/winston.ts:88-100, pino.ts:106-113).
ClosedWithNothingLeft == LT!ClosedWithNothingLeft

=============================================================================
