-------------------------- MODULE FatalErrorHandler --------------------------
(***************************************************************************)
(* How a Node process ends when the SDK watches it                         *)
(* (packages/instrumentation-exception and node-opentelemetry): handlers   *)
(* for uncaught exceptions and unhandled rejections record the error,      *)
(* which is asynchronous, then flush by shutting the SDK down and exit;    *)
(* SIGTERM and SIGINT shut the SDK down and exit as well.  Faults may      *)
(* arrive while the capture of an earlier one, the delay after a second    *)
(* error, or the flush is under way.                                       *)
(*                                                                         *)
(* External: the process, and the OpenTelemetry SDK, which exports ended   *)
(* spans in batches, drops spans that end after its shutdown began, and    *)
(* answers every call of shutdown() when the first one is done.            *)
(***************************************************************************)
EXTENDS Naturals

CONSTANTS
  Errors,           \* uncaught exceptions; each happens at most once
  Rejections,       \* unhandled rejections; each happens at most once
  NoError,          \* firstError is not set
  Configs           \* the configurations to consider

Faults == Errors \cup Rejections

ASSUME ConstAssumption ==
  /\ Errors \cap Rejections = {}
  /\ NoError \notin Faults
  /\ Configs \subseteq
       [exitEvenIfOthers : BOOLEAN,     \* ...OtherHandlersAreRegistered
        mode : {"none", "warn", "strict"},     \* unhandledRejectionMode
        stopOnSignals : BOOLEAN,        \* stopOnTerminationSignals
        flusher : {"shutdown", "own"}]  \* "shutdown": _internalForceFlush, as
                       \* the Node SDK sets it; "own": the instrumentation's
                       \* method, unbound

VARIABLES
  config,     \* the configuration; it never changes
  proc,       \* "up" or "exited"
  listeners,  \* the user has uncaughtException listeners
  caughtFirst, caughtSecond, calledFatal, firstError,
              \* the closure of makeErrorHandler
  delay,      \* the timer after a second error
  raised,     \* the faults that have happened
  capture,    \* recordException per fault: "none", "running", "recorded" or
              \* "failed"
  thenExit,   \* faults whose capture is followed by logAndExitProcess
  exits,      \* the shutdowns under way: why, and for which fault
  sdk,        \* "up", "flushing" (shutdown began) or "down"
  batch,      \* recorded faults that are not exported yet
  exported,
  fatal,      \* history: errors that arrived when the process had to exit
  lost,       \* history: an export failed
  how         \* history: how the process ended

handler == <<caughtFirst, caughtSecond, calledFatal, firstError>>
vars == <<config, proc, listeners, caughtFirst, caughtSecond, calledFatal, firstError,
          delay, raised, capture, thenExit, exits, sdk, batch, exported, fatal,
          lost, how>>

sdkVars == <<sdk, batch, exported, lost>>

Attempt == [by : {"capture", "delay", "forced", "rejection", "signal"},
            fault : Faults \cup {NoError}]

TypeOK ==
  /\ config \in Configs
  /\ proc \in {"up", "exited"}
  /\ listeners \in BOOLEAN
  /\ caughtFirst \in BOOLEAN
  /\ caughtSecond \in BOOLEAN
  /\ calledFatal \in BOOLEAN
  /\ firstError \in Errors \cup {NoError}
  /\ delay \in {"unset", "pending", "fired"}
  /\ raised \subseteq Faults
  /\ capture \in [Faults -> {"none", "running", "recorded", "failed"}]
  /\ thenExit \subseteq raised
  /\ exits \subseteq Attempt
  /\ sdk \in {"up", "flushing", "down"}
  /\ batch \subseteq Faults
  /\ exported \subseteq Faults \ batch
  /\ fatal \subseteq raised \cap Errors
  /\ lost \in BOOLEAN
  /\ how \in {"running", "flushed", "timeout", "flush failed"}

Init ==
  /\ config \in Configs
  /\ proc = "up"
  /\ listeners \in BOOLEAN
  /\ caughtFirst = FALSE
  /\ caughtSecond = FALSE
  /\ calledFatal = FALSE
  /\ firstError = NoError
  /\ delay = "unset"
  /\ raised = {}
  /\ capture = [f \in Faults |-> "none"]
  /\ thenExit = {}
  /\ exits = {}
  /\ sdk = "up"
  /\ batch = {}
  /\ exported = {}
  /\ fatal = {}
  /\ lost = FALSE
  /\ how = "running"

-----------------------------------------------------------------------------
(* shouldApplyFatalHandlingLogic *)
ShouldApply == config.exitEvenIfOthers \/ ~listeners

\* logAndExitProcess up to its await: the flush and its timeout start
StartExit(by, f) ==
  /\ exits' = exits \cup {[by |-> by, fault |-> f]}
  /\ sdk' = IF config.flusher = "shutdown" /\ sdk = "up" THEN "flushing" ELSE sdk

-----------------------------------------------------------------------------
(* The handlers.                                                           *)

\* mutant: calledFatalError is not set before the capture
FirstError_NoLatch(e) ==
  /\ ~caughtFirst
  /\ caughtFirst' = TRUE
  /\ firstError' = e
  /\ UNCHANGED calledFatal
  /\ capture' = [capture EXCEPT ![e] = "running"]
  /\ thenExit' = IF ShouldApply THEN thenExit \cup {e} ELSE thenExit
  /\ UNCHANGED <<caughtSecond, delay, exits, sdk>>

\* mutant: other listeners are not looked at
FirstError_AlwaysFatal(e) ==
  /\ ~caughtFirst
  /\ caughtFirst' = TRUE
  /\ firstError' = e
  /\ calledFatal' = TRUE
  /\ capture' = [capture EXCEPT ![e] = "running"]
  /\ thenExit' = thenExit \cup {e}
  /\ UNCHANGED <<caughtSecond, delay, exits, sdk>>

\* mutant: the exit does not wait for the capture
FirstError_ExitAtOnce(e) ==
  /\ ~caughtFirst
  /\ caughtFirst' = TRUE
  /\ firstError' = e
  /\ calledFatal' = ShouldApply
  /\ capture' = [capture EXCEPT ![e] = "running"]
  /\ \/ ShouldApply /\ StartExit("capture", e)
     \/ ~ShouldApply /\ UNCHANGED <<exits, sdk>>
  /\ UNCHANGED <<caughtSecond, delay, thenExit>>

FirstError(e) ==
  /\ ~caughtFirst
  /\ caughtFirst' = TRUE
  /\ firstError' = e
  /\ calledFatal' = ShouldApply
  /\ capture' = [capture EXCEPT ![e] = "running"]
  /\ thenExit' = IF ShouldApply THEN thenExit \cup {e} ELSE thenExit
  /\ UNCHANGED <<caughtSecond, delay, exits, sdk>>

\* a later error once onFatalError is on its way: shut down
ForcedShutdown(e) ==
  /\ caughtFirst /\ ShouldApply /\ calledFatal
  /\ StartExit("forced", e)
  /\ UNCHANGED <<handler, delay, capture, thenExit>>

\* a later error when the first one was not fatal: wait, then call onFatalError
SecondError ==
  /\ caughtFirst /\ ShouldApply /\ ~calledFatal
  /\ ~caughtSecond
  /\ caughtSecond' = TRUE
  /\ delay' = "pending"
  /\ UNCHANGED <<caughtFirst, calledFatal, firstError, capture,
                 thenExit, exits, sdk>>

IgnoredError ==
  /\ caughtFirst
  /\ ShouldApply => ~calledFatal /\ caughtSecond
  /\ UNCHANGED <<handler, delay, capture, thenExit, exits, sdk>>

UncaughtException(e) ==
  /\ proc = "up"
  /\ e \notin raised
  /\ raised' = raised \cup {e}
  /\ fatal' = IF ShouldApply THEN fatal \cup {e} ELSE fatal
  /\ FirstError(e) \/ ForcedShutdown(e) \/ SecondError \/ IgnoredError
  /\ UNCHANGED <<config, proc, listeners, batch, exported, lost, how>>

\* the timer of SecondError
DelayFires ==
  /\ proc = "up"
  /\ delay = "pending"
  /\ delay' = "fired"
  /\ \/ /\ ~calledFatal
        /\ calledFatal' = TRUE
        /\ StartExit("delay", firstError)
     \/ /\ calledFatal
        /\ UNCHANGED <<calledFatal, exits, sdk>>
  /\ UNCHANGED <<config, proc, listeners, caughtFirst, caughtSecond, firstError, raised,
                 capture, thenExit, batch, exported, fatal, lost, how>>

\* sendUnhandledPromise and handleRejection
UnhandledRejection(r) ==
  /\ proc = "up"
  /\ r \notin raised
  /\ raised' = raised \cup {r}
  /\ capture' = [capture EXCEPT ![r] = "running"]
  /\ thenExit' = IF config.mode = "strict" THEN thenExit \cup {r} ELSE thenExit
  /\ UNCHANGED <<config, proc, listeners, handler, delay, exits, sdkVars, fatal, how>>

\* recordException settles, and never rejects: its span is ended, or building
\* the event failed.  What follows in .finally runs right after.
CaptureSettles(f) ==
  /\ proc = "up"
  /\ capture[f] = "running"
  /\ \/ /\ capture' = [capture EXCEPT ![f] = "recorded"]
        /\ batch' = IF sdk = "up" THEN batch \cup {f} ELSE batch
     \/ /\ capture' = [capture EXCEPT ![f] = "failed"]
        /\ UNCHANGED batch
  /\ \/ /\ f \in thenExit
        /\ thenExit' = thenExit \ {f}
        /\ StartExit(IF f \in Errors THEN "capture" ELSE "rejection", f)
     \/ /\ f \notin thenExit
        /\ UNCHANGED <<thenExit, exits, sdk>>
  /\ UNCHANGED <<config, proc, listeners, handler, delay, raised, exported, fatal, lost,
                 how>>

-----------------------------------------------------------------------------
(* Flushing and exiting.                                                   *)

\* mutant: what was exported stays in the batch
Export_KeepBatch ==
  /\ UNCHANGED batch
  /\ \/ exported' = exported \cup batch /\ UNCHANGED lost
     \/ lost' = TRUE /\ UNCHANGED exported

\* an export of the batch, which may fail without anyone noticing
Export ==
  /\ batch' = {}
  /\ \/ exported' = exported \cup batch /\ UNCHANGED lost
     \/ lost' = TRUE /\ UNCHANGED exported

\* the batch processor's own schedule
ScheduledExport ==
  /\ proc = "up" /\ sdk = "up" /\ batch # {}
  /\ Export
  /\ UNCHANGED <<config, proc, listeners, handler, delay, raised, capture, thenExit,
                 exits, sdk, fatal, how>>

\* sdk.shutdown() is done, or failed, which _shutdown only reports
ShutdownDone ==
  /\ proc = "up" /\ sdk = "flushing"
  /\ sdk' = "down"
  /\ Export
  /\ UNCHANGED <<config, proc, listeners, handler, delay, raised, capture, thenExit,
                 exits, fatal, how>>

Ends(outcome) ==
  /\ proc' = "exited"
  /\ how' = outcome
  /\ UNCHANGED <<config, listeners, handler, delay, raised, capture, thenExit, exits,
                 sdkVars, fatal>>

\* the promise of shutdown() resolves and wins the race
ExitFlushed ==
  /\ proc = "up"
  /\ sdk = "down"
  /\ exits # {}
  /\ Ends("flushed")

\* mutant: the flush is awaited without a timeout
ExitTimeout_NoRace ==
  /\ proc = "up"
  /\ sdk = "down"
  /\ \E x \in exits : x.by # "signal"
  /\ Ends("timeout")

\* DEFAULT_SHUTDOWN_TIMEOUT passes first; a signal's shutdown has no timeout
ExitTimeout ==
  /\ proc = "up"
  /\ \E x \in exits : x.by # "signal"
  /\ Ends("timeout")

\* the unbound forceFlush reads a property of undefined: it always rejects
ExitFlushFailed ==
  /\ proc = "up"
  /\ config.flusher = "own"
  /\ \E x \in exits : x.by # "signal"
  /\ Ends("flush failed")

\* handleTerminationSignal
TerminationSignal ==
  /\ proc = "up"
  /\ config.stopOnSignals
  /\ exits' = exits \cup {[by |-> "signal", fault |-> NoError]}
  /\ sdk' = IF sdk = "up" THEN "flushing" ELSE sdk
  /\ UNCHANGED <<config, proc, listeners, handler, delay, raised, capture, thenExit,
                 batch, exported, fatal, lost, how>>

\* the application adds its first, or removes its last, listener
ListenersChange ==
  /\ proc = "up"
  /\ listeners' = ~listeners
  /\ UNCHANGED <<config, proc, handler, delay, raised, capture, thenExit, exits,
                 sdkVars, fatal, how>>

Next ==
  \/ \E e \in Errors : UncaughtException(e)
  \/ \E r \in Rejections : UnhandledRejection(r)
  \/ \E f \in Faults : CaptureSettles(f)
  \/ DelayFires
  \/ ScheduledExport \/ ShutdownDone
  \/ ExitFlushed \/ ExitTimeout \/ ExitFlushFailed
  \/ TerminationSignal \/ ListenersChange

Spec == Init /\ [][Next]_vars

\* Timers fire and captures, which only read local files, settle.  The network
\* owes nothing: a shutdown may hang for ever.
FairSpec ==
  /\ Spec
  /\ WF_vars(DelayFires) /\ WF_vars(ExitTimeout)
  /\ \A f \in Faults : WF_vars(CaptureSettles(f))

-----------------------------------------------------------------------------
(* Properties.                                                             *)

\* onFatalError runs once, although the callback of the first capture and the
\* timer of the second error both call it (onuncaughtexception.ts:116-154).
FatalErrorOnce ==
  \A x, y \in exits :
    x.by \in {"capture", "delay"} /\ y.by \in {"capture", "delay"} => x = y

\* With listeners of its own the application decides: the SDK ends the process,
\* or plans to, only after an error that met none of them
\* (onuncaughtexception.ts:77-96).
ApplicationDecides ==
  fatal = {} =>
    /\ delay = "unset"
    /\ \A f \in thenExit : f \in Rejections
    /\ \A x \in exits : x.by \in {"rejection", "signal"}

\* With the Node SDK's flush, the report of a fatal error that nothing else
\* interfered with has left the
\* process when it exits, unless the flush timed out or failed: the capture is
\* asynchronous and spans of a shut down SDK are dropped
\* (onuncaughtexception.ts:105-121, errorhandling.ts:30-35).
SoleReportExported ==
  \A e \in Errors :
    (/\ config.flusher = "shutdown"
     /\ proc = "exited" /\ how # "timeout" /\ ~lost
     /\ exits = {[by |-> "capture", fault |-> e]}
     /\ capture[e] # "failed")
      => e \in exported

\* An error that meets no other listener ends the process, even if the network
\* hangs, and also when it is one of those the handler ignores
\* (onuncaughtexception.ts:143-144, errorhandling.ts:31-34).
FatalErrorsExit == \A e \in Errors : e \in fatal ~> proc = "exited"

-----------------------------------------------------------------------------
(* What comments say and the code does not do.                             *)

\* onuncaughtexception.ts:134-135, "a second independent error happened while
\* waiting for first error to capture - want to avoid causing premature shutdown
\* before first error capture finishes".
NoPrematureShutdown ==
  [][ \A x \in exits' \ exits :
        x.by \in {"forced", "delay"} => capture[firstError] # "running" ]_vars

=============================================================================
