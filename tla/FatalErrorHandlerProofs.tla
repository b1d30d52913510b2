----------------------- MODULE FatalErrorHandlerProofs -----------------------
(* Theorems about FatalErrorHandler, for any errors and any configuration. *)
EXTENDS FatalErrorHandler, TLAPS

\* Only what happened is captured, only what is recorded is exported, and an
\* exit that waits for a capture waits for one that is running.
CaptureInv ==
  /\ \A f \in Faults : capture[f] # "none" => f \in raised
  /\ \A f \in batch \cup exported : capture[f] = "recorded"
  /\ \A f \in thenExit : capture[f] = "running"

\* calledFatal is set before onFatalError can run, and one of its two callers is
\* out of play as soon as it is set.
FatalInv ==
  /\ caughtFirst <=> firstError # NoError
  /\ calledFatal => caughtFirst
  /\ caughtSecond => caughtFirst
  /\ delay = "pending" => caughtFirst
  /\ \A f \in thenExit \cap Errors : f = firstError /\ calledFatal
  /\ \A x \in exits :
       x.by \in {"capture", "delay"} =>
         /\ calledFatal
         /\ x.fault = firstError
         /\ thenExit \cap Errors = {}

\* Nothing leads to an exit by the handler while no error was fatal.
QuietInv ==
  fatal = {} =>
    /\ ~calledFatal
    /\ delay = "unset"
    /\ \A f \in thenExit : f \in Rejections
    /\ \A x \in exits : x.by \in {"rejection", "signal"}

ReportOf(e) == [by |-> "capture", fault |-> e]

\* The report behind a lone exit is in the SDK's batch, or exported, or lost
\* with an export.
FlushOrder ==
  /\ exits = {} => sdk = "up"
  /\ sdk = "down" => batch = {}
  /\ proc = "exited" => how # "running"
  /\ how = "flushed" => sdk = "down"
  /\ how # "flush failed"

ReportSettled ==
  \A e \in Errors : ReportOf(e) \in exits => capture[e] \in {"recorded", "failed"}

ReportKept ==
  \A e \in Errors :
    (exits = {ReportOf(e)} /\ capture[e] = "recorded")
      => e \in batch \cup exported \/ lost

FlushInv == FlushOrder /\ ReportSettled /\ ReportKept

IInv == TypeOK /\ CaptureInv /\ FatalInv /\ FatalErrorOnce /\ QuietInv

LEMMA InitIInv == Init => IInv
<1>. SUFFICES ASSUME Init PROVE IInv
  OBVIOUS
<1>. USE ConstAssumption DEF Init, Faults, handler
<1>1. TypeOK
  BY DEF TypeOK
<1>2. CaptureInv /\ FatalInv
  BY DEF CaptureInv, FatalInv
<1>3. FatalErrorOnce /\ QuietInv
  BY DEF FatalErrorOnce, QuietInv
<1>. QED  BY <1>1, <1>2, <1>3 DEF IInv

\* What a new shutdown adds.
LEMMA StartExitLemma ==
  ASSUME TypeOK, NEW f \in Faults \cup {NoError},
         NEW by \in {"capture", "delay", "forced", "rejection"}, StartExit(by, f)
  PROVE  /\ exits' \subseteq Attempt
         /\ sdk' \in {"up", "flushing", "down"}
         /\ \A x \in exits' :
              x \in exits \/ (x.by = by /\ x.fault = f /\ x = [by |-> by, fault |-> f])
<1>1. [by |-> by, fault |-> f] \in Attempt
  BY DEF Attempt
<1>2. \A x \in exits' : x \in exits \/ x = [by |-> by, fault |-> f]
  BY DEF StartExit
<1>3. exits' \subseteq Attempt
  BY <1>1, <1>2 DEF TypeOK
<1>4. sdk' \in {"up", "flushing", "down"}
  BY DEF TypeOK, StartExit
<1>. QED  BY <1>2, <1>3, <1>4

LEMMA UncaughtPreserves ==
  ASSUME IInv, NEW e \in Errors, UncaughtException(e)
  PROVE  IInv'
<1>. USE ConstAssumption DEF IInv, handler, UncaughtException
<1>1. e \in Faults /\ capture[e] = "none" /\ e # NoError /\ e \notin Rejections
  BY DEF CaptureInv, ConstAssumption, Faults
<1>2. CASE FirstError(e)
  <2>. USE <1>1, <1>2 DEF FirstError
  <2>6. capture' \in [Faults -> {"none", "running", "recorded", "failed"}]
    BY DEF TypeOK
  <2>7. raised' \subseteq Faults /\ thenExit' \subseteq raised'
    BY DEF TypeOK
  <2>8. fatal' \subseteq raised' \cap Errors
    BY DEF TypeOK
  <2>9. calledFatal' \in BOOLEAN
    BY DEF TypeOK, ShouldApply, ConstAssumption
  <2>1. TypeOK'
    BY <2>6, <2>7, <2>8, <2>9 DEF TypeOK
  <2>2. CaptureInv'
    BY DEF TypeOK, CaptureInv
  <2>3. FatalInv'
    BY DEF TypeOK, CaptureInv, FatalInv
  <2>4. FatalErrorOnce'
    BY DEF FatalInv, FatalErrorOnce
  <2>5. QuietInv'
    BY DEF TypeOK, FatalInv, QuietInv
  <2>. QED  BY <2>1, <2>2, <2>3, <2>4, <2>5
<1>3. CASE ForcedShutdown(e)
  <2>. USE <1>1, <1>3 DEF ForcedShutdown
  <2>6. exits' \subseteq Attempt /\ sdk' \in {"up", "flushing", "down"}
    BY StartExitLemma
  <2>7. \A x \in exits' : x \in exits \/ x.by = "forced"
    BY StartExitLemma
  <2>. USE <2>6, <2>7
  <2>1. TypeOK'
    BY DEF TypeOK, CaptureInv
  <2>2. CaptureInv'
    BY DEF TypeOK, CaptureInv
  <2>3. FatalInv'
    BY DEF TypeOK, CaptureInv, FatalInv
  <2>4. FatalErrorOnce'
    BY DEF FatalInv, FatalErrorOnce
  <2>5. QuietInv'
    BY DEF TypeOK, FatalInv, QuietInv
  <2>. QED  BY <2>1, <2>2, <2>3, <2>4, <2>5
<1>4. CASE SecondError
  <2>. USE <1>1, <1>4 DEF SecondError
  <2>1. TypeOK'
    BY DEF TypeOK, CaptureInv
  <2>2. CaptureInv'
    BY DEF TypeOK, CaptureInv
  <2>3. FatalInv'
    BY DEF TypeOK, CaptureInv, FatalInv
  <2>4. FatalErrorOnce'
    BY DEF FatalInv, FatalErrorOnce
  <2>5. QuietInv'
    BY DEF TypeOK, FatalInv, QuietInv
  <2>. QED  BY <2>1, <2>2, <2>3, <2>4, <2>5
<1>5. CASE IgnoredError
  <2>. USE <1>1, <1>5 DEF IgnoredError
  <2>1. TypeOK'
    BY DEF TypeOK, CaptureInv
  <2>2. CaptureInv'
    BY DEF TypeOK, CaptureInv
  <2>3. FatalInv'
    BY DEF TypeOK, CaptureInv, FatalInv
  <2>4. FatalErrorOnce'
    BY DEF FatalInv, FatalErrorOnce
  <2>5. QuietInv'
    BY DEF TypeOK, FatalInv, QuietInv
  <2>. QED  BY <2>1, <2>2, <2>3, <2>4, <2>5
<1>. QED  BY <1>2, <1>3, <1>4, <1>5

LEMMA CapturePreserves ==
  ASSUME IInv, NEW f \in Faults, CaptureSettles(f)
  PROVE  IInv'
<1>. USE ConstAssumption DEF IInv, handler, CaptureSettles
<1>. DEFINE by == IF f \in Errors THEN "capture" ELSE "rejection"
<1>1. f \in raised /\ f \notin exported /\ f \notin batch
  BY DEF TypeOK, CaptureInv
<1>2. capture' \in [Faults -> {"none", "running", "recorded", "failed"}]
  BY DEF TypeOK
<1>3. exits' \subseteq Attempt /\ sdk' \in {"up", "flushing", "down"}
  BY StartExitLemma DEF TypeOK
<1>4. \A x \in exits' :
        x \in exits \/ (/\ f \in thenExit
                        /\ x = [by |-> by, fault |-> f]
                        /\ x.by = by
                        /\ x.fault = f)
  BY StartExitLemma
<1>5. thenExit' = thenExit \ {f}
  OBVIOUS
<1>6. TypeOK'
  <2>1. batch' \subseteq Faults /\ exported' \subseteq Faults \ batch'
    BY <1>1 DEF TypeOK
  <2>2. thenExit' \subseteq raised'
    BY <1>5 DEF TypeOK
  <2>3. UNCHANGED <<caughtFirst, caughtSecond, calledFatal, firstError>>
    OBVIOUS
  <2>4. UNCHANGED <<config, proc, listeners, delay, raised, fatal, lost, how>>
    OBVIOUS
  <2>. HIDE DEF CaptureSettles
  <2>. QED  BY <1>2, <1>3, <2>1, <2>2, <2>3, <2>4 DEF TypeOK
<1>7. CaptureInv'
  BY <1>1, <1>2, <1>5 DEF TypeOK, CaptureInv
<1>8. FatalInv'
  BY <1>4, <1>5 DEF FatalInv
<1>9. FatalErrorOnce'
  BY <1>4 DEF FatalInv, FatalErrorOnce
<1>10. QuietInv'
  BY <1>4, <1>5 DEF QuietInv
<1>. QED  BY <1>6, <1>7, <1>8, <1>9, <1>10

LEMMA DelayPreserves ==
  ASSUME IInv, DelayFires
  PROVE  IInv'
<1>. USE ConstAssumption DEF IInv, handler, DelayFires
<1>1. CASE ~calledFatal
  <2>1. firstError \in Faults
    BY DEF TypeOK, FatalInv, Faults
  <2>2. \A x \in exits' :
          \/ x \in exits
          \/ /\ x = [by |-> "delay", fault |-> firstError]
             /\ x.by = "delay"
             /\ x.fault = firstError
    BY <1>1, <2>1, StartExitLemma
  <2>3. TypeOK'
    BY <1>1, <2>1, StartExitLemma DEF TypeOK
  <2>4. CaptureInv'
    BY DEF CaptureInv
  <2>5. FatalInv'
    BY <1>1, <2>2 DEF FatalInv
  <2>6. FatalErrorOnce'
    BY <1>1, <2>2 DEF FatalInv, FatalErrorOnce
  <2>7. QuietInv'
    BY DEF QuietInv
  <2>. QED  BY <2>3, <2>4, <2>5, <2>6, <2>7
<1>2. CASE calledFatal
  BY <1>2 DEF TypeOK, CaptureInv, FatalInv, FatalErrorOnce, QuietInv
<1>. QED  BY <1>1, <1>2

LEMMA RejectionPreserves ==
  ASSUME IInv, NEW r \in Rejections, UnhandledRejection(r)
  PROVE  IInv'
<1>. USE ConstAssumption DEF IInv, handler, sdkVars, UnhandledRejection
<1>1. r \in Faults /\ capture[r] = "none" /\ r \notin Errors
  BY DEF CaptureInv, ConstAssumption, Faults
<1>2. TypeOK'
  <2>1. capture' \in [Faults -> {"none", "running", "recorded", "failed"}]
    BY DEF TypeOK
  <2>2. raised' \subseteq Faults /\ thenExit' \subseteq raised'
    BY <1>1 DEF TypeOK
  <2>3. fatal' \subseteq raised' \cap Errors
    BY DEF TypeOK
  <2>4. /\ UNCHANGED <<caughtFirst, caughtSecond, calledFatal, firstError>>
        /\ UNCHANGED <<config, proc, listeners, delay, exits, sdk, batch, exported,
                       lost, how>>
    OBVIOUS
  <2>. HIDE DEF UnhandledRejection
  <2>. QED  BY <2>1, <2>2, <2>3, <2>4, ZenonT(30) DEF IInv, TypeOK
<1>3. CaptureInv'
  BY <1>1 DEF TypeOK, CaptureInv
<1>4. FatalInv'
  BY <1>1 DEF FatalInv
<1>5. FatalErrorOnce'
  BY DEF FatalErrorOnce
<1>6. QuietInv'
  BY <1>1 DEF QuietInv
<1>. QED  BY <1>2, <1>3, <1>4, <1>5, <1>6

\* The steps of the SDK, the process and the application.
LEMMA OtherPreserves ==
  ASSUME IInv,
         \/ ScheduledExport \/ ShutdownDone
         \/ ExitFlushed \/ ExitTimeout \/ ExitFlushFailed
         \/ TerminationSignal \/ ListenersChange
  PROVE  IInv'
<1>. USE ConstAssumption DEF IInv, handler, sdkVars
<1>1. CASE ScheduledExport \/ ShutdownDone
  <2>. USE <1>1 DEF ScheduledExport, ShutdownDone, Export
  <2>1. TypeOK'
    BY DEF TypeOK, CaptureInv
  <2>2. CaptureInv'
    BY DEF CaptureInv
  <2>3. FatalInv' /\ FatalErrorOnce' /\ QuietInv'
    BY DEF FatalInv, FatalErrorOnce, QuietInv
  <2>. QED  BY <2>1, <2>2, <2>3
<1>2. CASE ExitFlushed \/ ExitTimeout \/ ExitFlushFailed
  <2>1. /\ proc' \in {"up", "exited"}
        /\ how' \in {"running", "flushed", "timeout", "flush failed"}
        /\ UNCHANGED <<caughtFirst, caughtSecond, calledFatal, firstError>>
        /\ UNCHANGED <<config, listeners, delay, raised, capture, thenExit, exits, sdk,
                       batch, exported, lost, fatal>>
    BY <1>2 DEF ExitFlushed, ExitTimeout, ExitFlushFailed, Ends
  <2>2. TypeOK'
    BY <2>1 DEF TypeOK
  <2>3. CaptureInv' /\ FatalInv'
    BY <2>1 DEF CaptureInv, FatalInv
  <2>4. FatalErrorOnce' /\ QuietInv'
    BY <2>1 DEF FatalErrorOnce, QuietInv
  <2>. QED  BY <2>2, <2>3, <2>4
<1>3. CASE TerminationSignal
  <2>. DEFINE s == [by |-> "signal", fault |-> NoError]
  <2>1. s \in Attempt /\ s.by = "signal"
    BY DEF Attempt
  <2>2. /\ exits' = exits \cup {s}
        /\ sdk' \in {"up", "flushing", "down"}
        /\ UNCHANGED <<caughtFirst, caughtSecond, calledFatal, firstError>>
        /\ UNCHANGED <<config, proc, listeners, delay, raised, capture, thenExit, batch,
                       exported, fatal, lost, how>>
    BY <1>3 DEF TerminationSignal, TypeOK
  <2>. HIDE DEF s
  <2>3. TypeOK'
    BY <2>1, <2>2 DEF TypeOK
  <2>4. CaptureInv'
    BY <2>2 DEF CaptureInv
  <2>5. FatalInv'
    BY <2>1, <2>2 DEF FatalInv
  <2>6. FatalErrorOnce'
    BY <2>1, <2>2 DEF FatalErrorOnce
  <2>7. QuietInv'
    BY <2>1, <2>2 DEF QuietInv
  <2>. QED  BY <2>3, <2>4, <2>5, <2>6, <2>7
<1>4. CASE ListenersChange
  <2>. USE <1>4 DEF ListenersChange
  <2>1. TypeOK'
    BY DEF TypeOK
  <2>2. CaptureInv' /\ FatalInv'
    BY DEF CaptureInv, FatalInv
  <2>3. FatalErrorOnce' /\ QuietInv'
    BY DEF FatalErrorOnce, QuietInv
  <2>. QED  BY <2>1, <2>2, <2>3
<1>. QED  BY <1>1, <1>2, <1>3, <1>4

LEMMA StutterPreserves ==
  ASSUME IInv, UNCHANGED vars
  PROVE  IInv'
<1>1. TypeOK'
  BY ZenonT(30) DEF IInv, TypeOK, vars
<1>2. CaptureInv' /\ FatalInv'
  BY DEF IInv, CaptureInv, FatalInv, vars
<1>3. FatalErrorOnce' /\ QuietInv'
  BY DEF IInv, FatalErrorOnce, QuietInv, vars
<1>. QED  BY <1>1, <1>2, <1>3 DEF IInv

LEMMA StepIInv == IInv /\ [Next]_vars => IInv'
BY UncaughtPreserves, CapturePreserves, DelayPreserves, RejectionPreserves,
   OtherPreserves, StutterPreserves DEF Next

LEMMA Invariance == Spec => []IInv
BY InitIInv, StepIInv, PTL DEF Spec

-----------------------------------------------------------------------------
(* The flush before an exit, when the SDK shuts down to flush.             *)

LEMMA InitFlushInv == Init => FlushInv
BY DEF Init, FlushInv, FlushOrder, ReportSettled, ReportKept

\* A step that starts no exit for a capture, settles no capture behind one and
\* takes nothing from the batch unseen keeps the reports.
LEMMA KeepReports ==
  ASSUME FlushInv,
         \A e \in Errors :
           /\ ReportOf(e) \in exits' =>
                ReportOf(e) \in exits /\ capture'[e] = capture[e]
           /\ exits' = {ReportOf(e)} => exits = {ReportOf(e)}
           /\ e \in batch \cup exported => e \in batch' \cup exported' \/ lost',
         lost => lost'
  PROVE  ReportSettled' /\ ReportKept'
<1>1. ReportSettled'
  BY DEF FlushInv, ReportSettled
<1>2. ASSUME NEW e \in Errors, exits' = {ReportOf(e)}, capture'[e] = "recorded"
      PROVE  e \in batch' \cup exported' \/ lost'
  <2>1. exits = {ReportOf(e)} /\ capture[e] = "recorded"
    BY <1>2
  <2>. QED  BY <2>1 DEF FlushInv, ReportKept
<1>. QED  BY <1>1, <1>2 DEF ReportKept

\* An exit that is not for a capture is none of the reports.
LEMMA OtherExit ==
  ASSUME NEW x, x.by # "capture", exits' = exits \cup {x}
  PROVE  \A e \in Errors :
           /\ ReportOf(e) \in exits' => ReportOf(e) \in exits
           /\ exits' # {ReportOf(e)}
<1>1. \A e \in Errors : ReportOf(e) # x
  BY DEF ReportOf
<1>. QED  BY <1>1

LEMMA CaptureFlushInv ==
  ASSUME config.flusher = "shutdown", IInv, FlushInv, NEW f \in Faults, CaptureSettles(f)
  PROVE  FlushInv'
<1>. USE DEF CaptureSettles
<1>1. capture[f] = "running" /\ capture'[f] \in {"recorded", "failed"}
  BY DEF IInv, TypeOK
<1>2. \A g \in Faults \ {f} : capture'[g] = capture[g]
  BY DEF IInv, TypeOK
<1>3. CASE f \in thenExit
  <2>. DEFINE by == IF f \in Errors THEN "capture" ELSE "rejection"
              x == [by |-> by, fault |-> f]
  <2>1. exits' = exits \cup {x} /\ x.by = by /\ x.fault = f
    BY <1>3 DEF StartExit
  <2>2. sdk' # "up" /\ (sdk' = "down" => sdk = "down")
    BY <1>3 DEF StartExit, IInv, TypeOK
  <2>3. ASSUME NEW e \in Errors, ReportOf(e) \in exits'
        PROVE  capture'[e] \in {"recorded", "failed"}
    <3>1. e \in Faults /\ ReportOf(e).fault = e
      BY DEF Faults, ReportOf
    <3>2. CASE e = f
      BY <1>1, <3>2
    <3>3. CASE e # f
      <4>1. ReportOf(e) \in exits
        BY <2>1, <2>3, <3>1, <3>3
      <4>. QED  BY <1>2, <3>1, <3>3, <4>1 DEF FlushInv, ReportSettled
    <3>. QED  BY <3>2, <3>3
  <2>4. ASSUME NEW e \in Errors, exits' = {ReportOf(e)}, capture'[e] = "recorded"
        PROVE  e \in batch' \cup exported' \/ lost'
    <3>1. ReportOf(e).fault = e /\ ReportOf(e).by = "capture"
      BY DEF ReportOf
    <3>2. x = ReportOf(e) /\ e = f
      BY <2>1, <2>4, <3>1
    <3>3. exits = {}
      BY <1>3, <2>1, <2>4, <3>1, <3>2 DEF IInv, FatalInv
    <3>4. sdk = "up"
      BY <3>3 DEF FlushInv, FlushOrder
    <3>. QED  BY <2>4, <3>2, <3>4 DEF IInv, TypeOK
  <2>5. sdk' = "down" => batch' = {}
    BY <2>2 DEF FlushInv, FlushOrder
  <2>7. exits' # {} /\ UNCHANGED <<proc, how>>
    BY <2>1
  <2>6. FlushOrder'
    <3>. HIDE DEF CaptureSettles
    <3>1. FlushOrder
      BY DEF FlushInv
    <3>2. how' = "flushed" => sdk' = "down"
      BY <2>7, <3>1, <1>3 DEF FlushOrder, CaptureSettles, StartExit
    <3>. QED  BY <2>5, <2>7, <3>1, <3>2 DEF FlushOrder
  <2>. QED  BY <2>3, <2>4, <2>6 DEF FlushInv, ReportSettled, ReportKept
<1>4. CASE f \notin thenExit
  <2>1. UNCHANGED <<exits, sdk, proc, how, lost, exported>>
    BY <1>4
  <2>2. ASSUME NEW e \in Errors, ReportOf(e) \in exits
        PROVE  e \in Faults /\ e # f
    BY <1>1, <2>2 DEF FlushInv, ReportSettled, Faults
  <2>3. (sdk = "down" => batch' = {}) /\ batch \subseteq batch'
    BY DEF FlushInv, FlushOrder
  <2>4. FlushOrder'
    BY <2>1, <2>3 DEF FlushInv, FlushOrder
  <2>. QED  BY <1>2, <2>1, <2>2, <2>3, <2>4, KeepReports DEF FlushInv
<1>. QED  BY <1>3, <1>4

LEMMA StepFlushInv ==
  ASSUME config.flusher = "shutdown", IInv, FlushInv, [Next]_vars
  PROVE  FlushInv'
<1>1. ASSUME NEW f \in Faults, CaptureSettles(f) PROVE FlushInv'
  BY <1>1, CaptureFlushInv
<1>2. ASSUME NEW e \in Errors, UncaughtException(e) PROVE FlushInv'
  <2>1. e \in Faults /\ capture[e] = "none"
    BY <1>2 DEF UncaughtException, IInv, CaptureInv, Faults
  <2>2. UNCHANGED <<proc, how, batch, exported, lost>>
    BY <1>2 DEF UncaughtException
  <2>3. CASE ForcedShutdown(e)
    <3>. DEFINE x == [by |-> "forced", fault |-> e]
    <3>1. exits' = exits \cup {x} /\ x.by # "capture"
      BY <2>3 DEF ForcedShutdown, StartExit
    <3>2. (sdk' = "down" => sdk = "down") /\ UNCHANGED capture
      BY <2>3 DEF ForcedShutdown, StartExit
    <3>3. FlushOrder'
      BY <2>2, <2>3, <3>1, <3>2 DEF FlushInv, FlushOrder, ForcedShutdown, StartExit
    <3>. QED  BY <2>2, <3>1, <3>2, <3>3, KeepReports, OtherExit DEF FlushInv
  <2>4. CASE FirstError(e) \/ SecondError \/ IgnoredError
    <3>1. UNCHANGED <<exits, sdk>>
      BY <2>4 DEF FirstError, SecondError, IgnoredError
    <3>2. \A g \in Faults \ {e} : capture'[g] = capture[g]
      BY <2>4 DEF FirstError, SecondError, IgnoredError, IInv, TypeOK
    <3>3. \A g \in Errors : ReportOf(g) \in exits => g \in Faults \ {e}
      BY <2>1 DEF FlushInv, ReportSettled, Faults
    <3>4. FlushOrder'
      BY <2>2, <3>1 DEF FlushInv, FlushOrder
    <3>. QED  BY <2>2, <3>1, <3>2, <3>3, <3>4, KeepReports DEF FlushInv
  <2>. QED  BY <1>2, <2>3, <2>4 DEF UncaughtException
<1>3. CASE DelayFires
  <2>1. UNCHANGED <<proc, how, batch, exported, lost, capture>>
    BY <1>3 DEF DelayFires
  <2>2. CASE calledFatal
    <3>1. UNCHANGED <<exits, sdk>>
      BY <1>3, <2>2 DEF DelayFires
    <3>2. FlushOrder'
      BY <2>1, <3>1 DEF FlushInv, FlushOrder
    <3>. QED  BY <2>1, <3>1, <3>2, KeepReports DEF FlushInv
  <2>3. CASE ~calledFatal
    <3>. DEFINE x == [by |-> "delay", fault |-> firstError]
    <3>1. exits' = exits \cup {x} /\ x.by # "capture"
      BY <1>3, <2>3 DEF DelayFires, StartExit
    <3>2. sdk' = "down" => sdk = "down"
      BY <1>3, <2>3 DEF DelayFires, StartExit
    <3>3. FlushOrder'
      BY <1>3, <2>1, <2>3, <3>1, <3>2 DEF FlushInv, FlushOrder, DelayFires, StartExit
    <3>. QED  BY <2>1, <3>1, <3>3, KeepReports, OtherExit DEF FlushInv
  <2>. QED  BY <2>2, <2>3
<1>4. ASSUME NEW r \in Rejections, UnhandledRejection(r) PROVE FlushInv'
  <2>1. UNCHANGED <<proc, how, exits, sdk, batch, exported, lost>>
    BY <1>4 DEF UnhandledRejection, sdkVars
  <2>2. \A g \in Errors : capture'[g] = capture[g]
    BY <1>4, ConstAssumption DEF UnhandledRejection, IInv, TypeOK, Faults
  <2>3. FlushOrder'
    BY <2>1 DEF FlushInv, FlushOrder
  <2>. QED  BY <2>1, <2>2, <2>3, KeepReports DEF FlushInv
<1>5. CASE ScheduledExport \/ ShutdownDone
  <2>1. UNCHANGED <<proc, how, exits, capture>> /\ Export
    BY <1>5 DEF ScheduledExport, ShutdownDone
  <2>2. /\ batch' = {} /\ (lost => lost')
        /\ \A e \in batch \cup exported : e \in exported' \/ lost'
    BY <2>1 DEF Export
  <2>3. (sdk' = sdk /\ sdk = "up") \/ (sdk = "flushing" /\ sdk' = "down")
    BY <1>5 DEF ScheduledExport, ShutdownDone
  <2>4. FlushOrder'
    BY <2>1, <2>2, <2>3 DEF FlushInv, FlushOrder
  <2>. QED  BY <2>1, <2>2, <2>4, KeepReports DEF FlushInv
<1>6. CASE ExitFlushed \/ ExitTimeout \/ ExitFlushFailed
  <2>1. UNCHANGED <<capture, exits, sdk, batch, exported, lost>>
    BY <1>6 DEF ExitFlushed, ExitTimeout, ExitFlushFailed, Ends, sdkVars
  <2>2. (how' = "flushed" /\ sdk = "down") \/ how' = "timeout"
    BY <1>6 DEF ExitFlushed, ExitTimeout, ExitFlushFailed, Ends
  <2>3. FlushOrder'
    BY <2>1, <2>2 DEF FlushInv, FlushOrder
  <2>. QED  BY <2>1, <2>3, KeepReports DEF FlushInv
<1>7. CASE TerminationSignal
  <2>. DEFINE x == [by |-> "signal", fault |-> NoError]
  <2>1. exits' = exits \cup {x} /\ x.by # "capture"
    BY <1>7 DEF TerminationSignal
  <2>2. /\ sdk' = "down" => sdk = "down"
        /\ UNCHANGED <<proc, how, batch, exported, lost, capture>>
    BY <1>7 DEF TerminationSignal
  <2>3. FlushOrder'
    BY <1>7, <2>1, <2>2 DEF FlushInv, FlushOrder, TerminationSignal
  <2>. QED  BY <2>1, <2>2, <2>3, KeepReports, OtherExit DEF FlushInv
<1>8. CASE ListenersChange \/ UNCHANGED vars
  <2>1. UNCHANGED <<proc, how, exits, sdk, batch, exported, lost, capture>>
    BY <1>8 DEF ListenersChange, sdkVars, vars
  <2>2. FlushOrder'
    BY <2>1 DEF FlushInv, FlushOrder
  <2>. QED  BY <2>1, <2>2, KeepReports DEF FlushInv
<1>. QED
  BY <1>1, <1>2, <1>3, <1>4, <1>5, <1>6, <1>7, <1>8 DEF Next

-----------------------------------------------------------------------------
\* Every variable keeps its type, whatever order faults, captures, timers and
\* flushes come in.
THEOREM TypeCorrect == Spec => []TypeOK
BY Invariance, PTL DEF IInv

\* onFatalError runs at most once (onuncaughtexception.ts:116-154).
THEOREM FatalErrorRunsOnce == Spec => []FatalErrorOnce
BY Invariance, PTL DEF IInv

\* The SDK does not end, or plan to end, a process whose uncaught errors all met
\* a listener of the application (onuncaughtexception.ts:77-96).
THEOREM ApplicationKeepsControl == Spec => []ApplicationDecides
<1>1. IInv => ApplicationDecides
  BY DEF IInv, QuietInv, ApplicationDecides
<1>. QED  BY <1>1, Invariance, PTL

\* With the Node SDK's flush, the report of a fatal error that nothing else
\* interfered with is exported before the process exits, unless the flush timed
\* out or failed (onuncaughtexception.ts:105-121, errorhandling.ts:30-35).
THEOREM LoneReportExported == Spec => []SoleReportExported
<1>. DEFINE Kept == config.flusher = "shutdown" => FlushInv
<1>1. Init => Kept
  BY InitFlushInv
<1>2. [Next]_vars => UNCHANGED config
  BY DEF Next, vars, UncaughtException, UnhandledRejection, CaptureSettles,
         DelayFires, ScheduledExport, ShutdownDone, ExitFlushed, ExitTimeout,
         ExitFlushFailed, Ends, TerminationSignal, ListenersChange
<1>3. IInv /\ Kept /\ [Next]_vars => Kept'
  <2>. SUFFICES ASSUME IInv, Kept, [Next]_vars, (config.flusher = "shutdown")'
                PROVE  FlushInv'
    OBVIOUS
  <2>1. config.flusher = "shutdown"
    BY <1>2
  <2>. QED  BY <2>1, StepFlushInv
<1>4. IInv /\ Kept => SoleReportExported
  <2>. SUFFICES ASSUME IInv, Kept, NEW e \in Errors, config.flusher = "shutdown",
                       proc = "exited", how # "timeout", ~lost,
                       exits = {ReportOf(e)}, capture[e] # "failed"
                PROVE  e \in exported
    BY DEF SoleReportExported, ReportOf
  <2>1. capture[e] = "recorded"
    BY DEF FlushInv, ReportSettled
  <2>2. e \in batch \cup exported
    BY <2>1 DEF FlushInv, ReportKept
  <2>3. how = "flushed"
    BY DEF FlushInv, FlushOrder, IInv, TypeOK
  <2>. QED  BY <2>2, <2>3 DEF FlushInv, FlushOrder
<1>5. Spec => []Kept
  BY <1>1, <1>3, Invariance, PTL DEF Spec
<1>. QED  BY <1>4, <1>5, Invariance, PTL

=============================================================================
