-------------------------------- MODULE NodeSdk --------------------------------
(***************************************************************************)
(* The life cycle of the Node SDK (packages/node-opentelemetry/src/        *)
(* otel.ts): initSDK, which may be called more than once (a preloaded      *)
(* script and the application), the patching of modules that were loaded   *)
(* before (programmaticImports), shutdown and termination signals.         *)
(*                                                                         *)
(* initSDK is synchronous.  The require hooks of an instrumentation and    *)
(* the shutdown of an SDK are external: a provider of metrics that is      *)
(* asked to shut down again answers at once, the others answer when their  *)
(* flush ends; together they fail with the first that fails.               *)
(***************************************************************************)
EXTENDS Naturals, Sequences

CONSTANTS
  Modules,     \* what the instrumentations patch
  Fact,        \* of each module: "fine", "unsupported" (its version), "broken" (its
               \* require throws) or "absent" (it does not resolve)
  Telemetry,   \* traces, logs (which are treated alike) and "metrics"
  MaxInits,    \* bound: calls of initSDK
  MaxWaits     \* bound: calls of shutdown

VARIABLES
  authorization,  \* entries in OTEL_EXPORTER_OTLP_HEADERS
  instances,      \* per initSDK: programmaticImports, whether its hooks are on,
                  \* and how often each module carries its patch
  handlers,       \* listeners of SIGTERM, and of SIGINT
  flushed,        \* per NodeSDK: "open", "flushing", "done" or "failed", per signal
  waits,          \* promises of _shutdown: the SDK (0 if there is none), what they
                  \* wait for, and whether the process exits then
  exitedFor       \* the SDK whose shutdown a signal waited for when it ended the
                  \* process; empty as long as the process runs

sdkVars == <<authorization, instances, handlers, flushed, waits, exitedFor>>

Wait == [sdk : 0..MaxInits, for : SUBSET Telemetry, exits : BOOLEAN]

TypeOK ==
  /\ authorization \in 0..MaxInits
  /\ instances \in Seq([programmatic : BOOLEAN, enabled : BOOLEAN,
                        patches : [Modules -> 0..1]])
  /\ handlers \in 0..MaxInits
  /\ flushed \in Seq([Telemetry -> {"open", "flushing", "done", "failed"}])
  /\ waits \in Seq(Wait) /\ Len(waits) <= MaxWaits
  /\ exitedFor \in SUBSET (0..MaxInits)

Init ==
  /\ authorization = 0
  /\ instances = <<>> /\ handlers = 0
  /\ flushed = <<>> /\ waits = <<>>
  /\ exitedFor = {}

-----------------------------------------------------------------------------
(* initSDK.                                                                *)

Running == exitedFor = {}

\* setOtelEnvs: the key goes behind the headers that are there
SetOtelEnvs(key) == authorization' = authorization + (IF key THEN 1 ELSE 0)

\* isSupported, and moduleExports is there
Patchable(m) == Fact[m] = "fine"

\* the patches of hooks that are on, after the modules ms were required
Hooked(ms) == [m \in Modules |-> IF m \in ms /\ Patchable(m) THEN 1 ELSE 0]

\* mutant: the patches are not taken off before
Repatched_Again(patches) == [m \in Modules |-> patches[m] + IF Patchable(m) THEN 1 ELSE 0]

\* The loop of programmaticImports: disable takes the patches off, then every
\* module that resolves is required and, if it is supported, patched; what is
\* thrown on the way is logged.
Repatched(patches) == [m \in Modules |-> IF Patchable(m) THEN 1 ELSE 0]

\* key: config.apiKey or HYPERDX_API_KEY; early: modules that are required for the
\* first time while the instrumentations and the NodeSDK are constructed
InitSDK(key, programmatic, signals, early) ==
  /\ Running /\ Len(instances) < MaxInits
  /\ key \/ authorization > 0
  /\ SetOtelEnvs(key)
  /\ instances' = Append(instances,
       [programmatic |-> programmatic, enabled |-> ~programmatic,
        patches |-> IF programmatic THEN Repatched(Hooked(early)) ELSE Hooked(early)])
  /\ flushed' = Append(flushed, [k \in Telemetry |-> "open"])
  /\ handlers' = handlers + (IF signals THEN 1 ELSE 0)
  /\ UNCHANGED <<waits, exitedFor>>

\* the application requires a module: hooks that are on patch it, once
Require(m) ==
  /\ Running
  /\ instances' = [i \in DOMAIN instances |->
       IF instances[i].enabled /\ Patchable(m)
       THEN [instances[i] EXCEPT !.patches[m] = 1] ELSE instances[i]]
  /\ UNCHANGED <<authorization, handlers, flushed, waits, exitedFor>>

-----------------------------------------------------------------------------
(* Shutdown.                                                               *)

Sdk == Len(flushed)   \* the variable sdk

\* mutant: the process exits without waiting
Awaited_Nothing(i) == {}

\* what the promise of sdk.shutdown() waits for
Awaited(i) ==
  IF i = 0 THEN {}
  ELSE {k \in Telemetry : k = "metrics" => flushed[i][k] = "open"}

\* n calls of _shutdown
BeginShutdown(n, exits) ==
  /\ Running /\ Len(waits) + n <= MaxWaits
  /\ waits' = waits \o [j \in 1..n |->
       [sdk |-> Sdk, exits |-> exits,
        for |-> IF j = 1 THEN Awaited(Sdk) ELSE Awaited(Sdk) \ {"metrics"}]]
  /\ flushed' = [i \in DOMAIN flushed |-> IF i # Sdk THEN flushed[i] ELSE
       [k \in Telemetry |-> IF flushed[i][k] = "open" THEN "flushing" ELSE flushed[i][k]]]
  /\ UNCHANGED <<authorization, instances, handlers, exitedFor>>

Shutdown == BeginShutdown(1, FALSE)

\* SIGTERM or SIGINT: every listener calls _shutdown
Signal == handlers > 0 /\ BeginShutdown(handlers, TRUE)

\* a batch is exported, or its export gives up
FlushEnds(i, k, outcome) ==
  /\ Running /\ flushed[i][k] = "flushing"
  /\ flushed' = [flushed EXCEPT ![i][k] = outcome]
  /\ UNCHANGED <<authorization, instances, handlers, waits, exitedFor>>

Settled(w) ==
  \/ \A k \in w.for : flushed[w.sdk][k] = "done"
  \/ \E k \in w.for : flushed[w.sdk][k] = "failed"

\* the promise settles; finally(() => process.exit())
ShutdownEnds(j) ==
  /\ Running /\ Settled(waits[j])
  /\ exitedFor' = IF waits[j].exits THEN {waits[j].sdk} ELSE {}
  /\ waits' = SubSeq(waits, 1, j - 1) \o SubSeq(waits, j + 1, Len(waits))
  /\ UNCHANGED <<authorization, instances, handlers, flushed>>

Next ==
  \/ \E key, programmatic, signals \in BOOLEAN, early \in SUBSET Modules :
       InitSDK(key, programmatic, signals, early)
  \/ \E m \in Modules : Require(m)
  \/ Shutdown \/ Signal
  \/ \E i \in DOMAIN flushed, k \in Telemetry, outcome \in {"done", "failed"} :
       FlushEnds(i, k, outcome)
  \/ \E j \in DOMAIN waits : ShutdownEnds(j)

Spec == Init /\ [][Next]_sdkVars

-----------------------------------------------------------------------------
(* Properties.                                                             *)

\* A termination signal ends the process only after the spans and logs of the SDK
\* that was current when it came are out, unless an export failed: however many
\* signals, shutdowns and listeners there are, and whether initSDK is called again
\* while they wait (otel.ts:545-558, 670-685).
ExitAfterFlush ==
  \A i \in exitedFor \ {0} :
    \/ \A k \in Telemetry \ {"metrics"} : flushed[i][k] = "done"
    \/ \E k \in Telemetry : flushed[i][k] = "failed"

=============================================================================
