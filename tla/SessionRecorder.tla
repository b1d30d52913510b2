--------------------------- MODULE SessionRecorder ---------------------------
(***************************************************************************)
(* The session recorder (packages/session-recorder/src): rrweb hands page  *)
(* events to emit (index.ts), which numbers them, cuts them into chunks    *)
(* and queues one log per chunk in a BatchLogProcessor; a timer or the     *)
(* unload event flushes the queue through the OTLPLogExporter, whose       *)
(* requests may fail unnoticed.  All of it runs on one thread, so each     *)
(* callback is one step, nested calls included; callbacks interleave       *)
(* freely.                                                                 *)
(*                                                                         *)
(* rrweb and the browser are external and modelled by how the recorder     *)
(* uses them: record() and takeFullSnapshot() call emit with a full        *)
(* snapshot before they return, every other event is incremental.          *)
(***************************************************************************)
EXTENDS Naturals, Sequences, SequencesExt

CONSTANTS
  MaxRec,       \* MAX_RECORDING_LENGTH, in ticks
  MaxChunks,    \* bound: chunks per event
  MaxSessions,  \* bound: session ids, numbered in the order they appear
  MaxInits,     \* bound: calls of init that start a recording
  MaxLogs       \* bound: logs recorded in a behaviour

ASSUME ConstAssumption ==
  /\ MaxRec \in Nat
  /\ MaxChunks \in Nat \ {0}
  /\ MaxSessions \in Nat \ {0}
  /\ MaxInits \in Nat \ {0}
  /\ MaxLogs \in Nat

VARIABLES
  session,    \* resource.attributes['rum.sessionId'], a getter
  hidden,     \* document.hidden
  page,       \* "up", "unloading" or "gone"
  inited,     \* a recording runs
  paused,
  rec,        \* lastKnownSession, sessionStartTime (as an age), the counters
  snapTimer,  \* queuedFullSnapshotTimeout is pending
  procs,      \* the BatchLogProcessors, oldest first: logs and timeout
  timers,     \* processors with a pending timeout, in firing order
  unloaded,   \* processors whose unload listener has run
  sent,       \* history: the requests made
  shipped,    \* history: the number of logs in them
  recorded,   \* history: all logs handed to a processor, in order
  gap         \* history: why events were not recorded since the last full
              \* snapshot: "none", "paused" (stop), or "other"

recVars == <<rec, recorded, gap>>
vars == <<session, hidden, page, inited, paused, recVars, snapTimer, procs,
          timers, unloaded, sent, shipped>>

Log == [sess : 1..MaxSessions, offset : 1..MaxLogs, event : 1..MaxLogs,
        chunk : 1..MaxChunks, total : 1..MaxChunks, kind : {"full", "incr"}]

TypeOK ==
  /\ session \in 1..MaxSessions
  /\ hidden \in BOOLEAN
  /\ page \in {"up", "unloading", "gone"}
  /\ inited \in BOOLEAN
  /\ paused \in BOOLEAN
  /\ rec \in [known : 0..MaxSessions, age : 0..MaxRec + 1,
              eventCounter : 1..MaxLogs + 1, logCounter : 1..MaxLogs + 1]
  /\ snapTimer \in BOOLEAN
  /\ procs \in Seq([logs : Seq(Log), armed : BOOLEAN])
  /\ Len(procs) <= MaxInits
  /\ timers \in Seq(1..Len(procs))
  /\ unloaded \in 0..Len(procs)
  /\ sent \in Seq([stamp : 1..MaxSessions, logs : Seq(Log)])
  /\ shipped \in Nat
  /\ recorded \in Seq(Log)
  /\ gap \in {"none", "paused", "other"}

Init ==
  /\ session = 1
  /\ hidden \in BOOLEAN
  /\ page = "up"
  /\ inited = FALSE
  /\ paused = FALSE
  /\ rec = [known |-> 0, age |-> 0, eventCounter |-> 1, logCounter |-> 1]
  /\ snapTimer = FALSE
  /\ procs = <<>>
  /\ timers = <<>>
  /\ unloaded = 0
  /\ sent = <<>> /\ shipped = 0
  /\ recorded = <<>>
  /\ gap = "none"

-----------------------------------------------------------------------------
(* emit.  Its state is the record r with the fields of rec, the gap, and   *)
(* out, the logs it hands to the processor.                                *)

EmitState(r, g) ==
  [known |-> r.known, age |-> r.age, eventCounter |-> r.eventCounter,
   logCounter |-> r.logCounter, gap |-> g, out |-> <<>>]

\* the loop over the chunks of one event, n of them
ChunkLogs(r, kind, n) ==
  [i \in 1..n |->
     [sess |-> r.known, offset |-> r.logCounter + i - 1,
      event |-> r.eventCounter, chunk |-> i, total |-> n, kind |-> kind]]

Record(r, kind, n) ==
  [r EXCEPT !.eventCounter = @ + 1,
            !.logCounter = @ + n,
            !.out = @ \o ChunkLogs(r, kind, n),
            !.gap = IF kind = "full" THEN "none" ELSE @]

\* an event that is not recorded leaves a gap
Drop(r, why) == [r EXCEPT !.gap = IF @ = "paused" THEN @ ELSE why]

\* emit after the session check.  n = 0: throttleMutations dropped the event.
EmitKnown(r, kind, n) ==
  CASE r.age > MaxRec -> Drop(r, "other")
    [] r.age <= MaxRec /\ n = 0 -> r
    [] OTHER -> Record(r, kind, n)

\* mutant: the counters start at zero
Adopt_ZeroCounters(r, m) ==
  EmitKnown([r EXCEPT !.known = session, !.age = 0,
                      !.eventCounter = 0, !.logCounter = 0], "full", m)

\* mutant: the counters are reset after the snapshot was taken
Adopt_ResetLate(r, m) ==
  [EmitKnown([r EXCEPT !.known = session, !.age = 0], "full", m)
     EXCEPT !.eventCounter = 1, !.logCounter = 1]

\* mutant: no snapshot is taken
Adopt_NoSnapshot(r, m) ==
  [r EXCEPT !.known = session, !.age = 0, !.eventCounter = 1, !.logCounter = 1]

\* the session changed and the tab is visible: start over, with a snapshot of
\* m chunks, whose emit is nested in this one
Adopt(r, m) ==
  EmitKnown([r EXCEPT !.known = session, !.age = 0,
                      !.eventCounter = 1, !.logCounter = 1], "full", m)

\* mutant: lastKnownSession is updated before the test of document.hidden
Emit_LatchBeforeHidden(r, kind, n, m) ==
  CASE paused -> Drop(r, "paused")
    [] ~paused /\ session # r.known /\ hidden ->
         Drop([r EXCEPT !.known = session, !.age = 0], "other")
    [] ~paused /\ session # r.known /\ ~hidden -> EmitKnown(Adopt(r, m), kind, n)
    [] OTHER -> EmitKnown(r, kind, n)

Emit(r, kind, n, m) ==
  CASE paused -> Drop(r, "paused")
    [] ~paused /\ session # r.known /\ hidden -> Drop(r, "other")
    [] ~paused /\ session # r.known /\ ~hidden -> EmitKnown(Adopt(r, m), kind, n)
    [] OTHER -> EmitKnown(r, kind, n)

\* BatchLogProcessor.onLog for each log of out: queue it, arm the timer once
OnLogs(ps, p, out) ==
  [ps EXCEPT ![p] = [logs |-> ps[p].logs \o out,
                     armed |-> ps[p].armed \/ out # <<>>]]

\* r becomes the recorder's state and its logs go to the newest processor
Commit(r, ps) ==
  LET p == Len(ps) IN
  /\ rec' = [known |-> r.known, age |-> r.age,
             eventCounter |-> r.eventCounter, logCounter |-> r.logCounter]
  /\ gap' = r.gap
  /\ Len(recorded) + Len(r.out) <= MaxLogs
  /\ recorded' = recorded \o r.out
  /\ procs' = OnLogs(ps, p, r.out)
  /\ timers' = IF r.out # <<>> /\ ~ps[p].armed THEN Append(timers, p) ELSE timers

Sizes == 1..MaxChunks

\* record.takeFullSnapshot()
TakeFullSnapshot ==
  \E n, m \in Sizes : Commit(Emit(EmitState(rec, gap), "full", n, m), procs)

-----------------------------------------------------------------------------
(* The recorder's interface.                                               *)

\* init: a new exporter and processor, and rrweb's record(), which snapshots
InitRecorder ==
  /\ page = "up"
  /\ ~inited
  /\ Len(procs) < MaxInits
  /\ inited' = TRUE
  /\ \E n \in Sizes :
       LET r == [EmitState(rec, gap) EXCEPT !.known = session, !.age = 0] IN
       Commit(Emit(r, "full", n, 0),
              Append(procs, [logs |-> <<>>, armed |-> FALSE]))
  /\ UNCHANGED <<session, hidden, page, paused, snapTimer, unloaded, sent, shipped>>

Resume ==
  /\ page = "up"
  /\ inited
  /\ paused' = FALSE
  /\ \/ ~paused /\ TakeFullSnapshot
     \/ paused /\ UNCHANGED <<recVars, procs, timers>>
  /\ UNCHANGED <<session, hidden, page, inited, snapTimer, unloaded, sent, shipped>>

Stop ==
  /\ page = "up"
  /\ inited
  /\ paused' = TRUE
  /\ UNCHANGED <<session, hidden, page, inited, recVars, snapTimer, procs,
                 timers, unloaded, sent, shipped>>

\* neither the queue, the timers nor paused are touched; what the page does
\* until the next init is not seen
DeinitRecorder ==
  /\ page = "up"
  /\ inited
  /\ inited' = FALSE
  /\ gap' = IF gap = "paused" THEN gap ELSE "other"
  /\ UNCHANGED <<session, hidden, page, paused, rec, recorded, snapTimer,
                 procs, timers, unloaded, sent, shipped>>

-----------------------------------------------------------------------------
(* Callbacks.                                                              *)

\* An incremental event: n chunks, or throttled away (n = 0).  The rate limiter
\* may report a blocked node, which (re)starts the snapshot timer.
DomEvent ==
  /\ page = "up"
  /\ inited
  /\ \E n \in 0..MaxChunks, m \in Sizes, blocked \in BOOLEAN :
       LET r == Emit(EmitState(rec, gap), "incr", n, m) IN
       /\ Commit(r, procs)
       /\ blocked => ~paused /\ r.known = session /\ r.age <= MaxRec
       /\ snapTimer' = (snapTimer \/ blocked)
  /\ UNCHANGED <<session, hidden, page, inited, paused, unloaded, sent, shipped>>

\* the timer of onBlockedNode; after deinit takeFullSnapshot throws
SnapTimerFires ==
  /\ page = "up"
  /\ snapTimer
  /\ snapTimer' = FALSE
  /\ \/ inited /\ TakeFullSnapshot
     \/ ~inited /\ UNCHANGED <<recVars, procs, timers>>
  /\ UNCHANGED <<session, hidden, page, inited, paused, unloaded, sent, shipped>>

\* mutant: the queue is copied, not emptied
Flush_Copy(ps, p) ==
  /\ procs' = ps
  /\ sent' = IF ps[p].logs = <<>> THEN sent
             ELSE Append(sent, [stamp |-> session, logs |-> ps[p].logs])
  /\ shipped' = shipped + Len(ps[p].logs)

\* mutant: a request carries the session of its first log
Flush_StampOfFirstLog(ps, p) ==
  LET q == ps[p].logs IN
  /\ procs' = [ps EXCEPT ![p].logs = <<>>]
  /\ sent' = IF q = <<>> THEN sent
             ELSE Append(sent, [stamp |-> Head(q).sess, logs |-> q])
  /\ shipped' = shipped + Len(q)

\* _flushAll and export of the queue q by processor p: the request carries the
\* session id of the moment; an empty queue makes no request.  What becomes of
\* the request changes nothing: a failed fetch is swallowed.
Flush(ps, p) ==
  LET q == ps[p].logs IN
  /\ procs' = [ps EXCEPT ![p].logs = <<>>]
  /\ \/ /\ q = <<>>
        /\ UNCHANGED <<sent, shipped>>
     \/ /\ q # <<>>
        /\ sent' = Append(sent, [stamp |-> session, logs |-> q])
        /\ shipped' = shipped + Len(q)

\* mutant: timeout is not set back to undefined
FlushTimer_KeepTimeout ==
  /\ page = "up"
  /\ timers # <<>>
  /\ timers' = Tail(timers)
  /\ Flush(procs, Head(timers))
  /\ UNCHANGED <<session, hidden, page, inited, paused, recVars, snapTimer,
                 unloaded>>

\* the timeout callback of onLog; equal delays fire in the order they were set
FlushTimer ==
  /\ page = "up"
  /\ timers # <<>>
  /\ timers' = Tail(timers)
  /\ Flush([procs EXCEPT ![Head(timers)].armed = FALSE], Head(timers))
  /\ UNCHANGED <<session, hidden, page, inited, paused, recVars, snapTimer,
                 unloaded>>

\* the unload listeners run in the order the processors were made
UnloadStart ==
  /\ page = "up"
  /\ page' = "unloading"
  /\ UNCHANGED <<session, hidden, inited, paused, recVars, snapTimer, procs,
                 timers, unloaded, sent, shipped>>

UnloadFlush ==
  /\ page = "unloading"
  /\ unloaded < Len(procs)
  /\ unloaded' = unloaded + 1
  /\ Flush(procs, unloaded + 1)
  /\ UNCHANGED <<session, hidden, page, inited, paused, recVars, snapTimer,
                 timers>>

UnloadEnd ==
  /\ page = "unloading"
  /\ unloaded = Len(procs)
  /\ page' = "gone"
  /\ UNCHANGED <<session, hidden, inited, paused, recVars, snapTimer, procs,
                 timers, unloaded, sent, shipped>>

-----------------------------------------------------------------------------
(* The environment.                                                        *)

\* the browser kills the page: no unload event
Killed ==
  /\ page = "up"
  /\ page' = "gone"
  /\ UNCHANGED <<session, hidden, inited, paused, recVars, snapTimer, procs,
                 timers, unloaded, sent, shipped>>

\* session tracking moves on to a new session
SessionChange ==
  /\ page = "up"
  /\ session < MaxSessions
  /\ session' = session + 1
  /\ UNCHANGED <<hidden, page, inited, paused, recVars, snapTimer, procs,
                 timers, unloaded, sent, shipped>>

VisibilityChange ==
  /\ page = "up"
  /\ hidden' = ~hidden
  /\ UNCHANGED <<session, page, inited, paused, recVars, snapTimer, procs,
                 timers, unloaded, sent, shipped>>

Tick ==
  /\ page = "up"
  /\ rec.age <= MaxRec
  /\ rec' = [rec EXCEPT !.age = @ + 1]
  /\ UNCHANGED <<session, hidden, page, inited, paused, recorded, gap,
                 snapTimer, procs, timers, unloaded, sent, shipped>>

Next ==
  \/ InitRecorder \/ Resume \/ Stop \/ DeinitRecorder
  \/ DomEvent \/ SnapTimerFires \/ FlushTimer
  \/ UnloadStart \/ UnloadFlush \/ UnloadEnd
  \/ Killed \/ SessionChange \/ VisibilityChange \/ Tick

Spec == Init /\ [][Next]_vars

\* a timer that was set fires; nothing else is owed
FairSpec == Spec /\ WF_vars(FlushTimer)

-----------------------------------------------------------------------------
(* Properties.                                                             *)

\* The queues, timers and requests of all processors together implement the
\* delivery contract: in order, at most once, nothing left behind by a flush
\* (BatchLogProcessor.ts:42-60, OTLPLogExporter.ts:123-146).
Delivery == INSTANCE ReplayDelivery WITH
  Logs <- Log,
  accepted <- recorded,
  requests <- [k \in DOMAIN sent |-> sent[k].logs],
  alive <- page # "gone"

ImplementsDelivery == Delivery!Spec

\* A queued log has a timer that will send it while the page is up: no state of
\* pauses, re-inits and flushes strands a log (BatchLogProcessor.ts:42-51).
NoStrandedLogs ==
  page = "up" =>
    \A p \in DOMAIN procs :
      /\ procs[p].logs # <<>> => procs[p].armed
      /\ procs[p].armed <=> \E k \in DOMAIN timers : timers[k] = p

\* Offsets number the logs of a session without holes or repeats, across
\* nested snapshots, pauses and re-inits (index.ts:176-180, 196, 209).
OffsetsDense ==
  \A k \in 1..Len(recorded) - 1 :
    LET a == recorded[k] b == recorded[k + 1] IN
    \/ b.offset = a.offset + 1
    \/ b.offset = 1 /\ b.sess # a.sess

\* The replay of a session starts with a full snapshot: the event that detects
\* a session change comes after the snapshot it triggers (index.ts:171-196).
SnapshotFirst ==
  \A k \in DOMAIN recorded : recorded[k].event = 1 => recorded[k].kind = "full"

\* Events missed while a hidden tab ignores a new session, after the recording
\* limit or across deinit are followed by a full snapshot before the next
\* incremental event is recorded (index.ts:171-185).
ReplayAnchored ==
  [][ (Len(recorded') > Len(recorded) /\ Last(recorded').kind = "incr")
        => gap' # "other" ]_vars

\* The session id is read when a request is made, not when its logs were
\* recorded: a log may be filed under a later session, never under an earlier
\* one (OTLPLogExporter.ts:98-121, otel-web index.ts:632-638).
NeverFiledBackwards ==
  \A k \in DOMAIN sent :
    \A i \in DOMAIN sent[k].logs : sent[k].logs[i].sess <= sent[k].stamp

\* What is queued is sent, unless the page dies (BatchLogProcessor.ts:45-50).
Queued(p) == p \in DOMAIN procs /\ procs[p].logs # <<>>
QueueDrains == \A p \in 1..MaxInits : Queued(p) ~> (page # "up" \/ ~Queued(p))

-----------------------------------------------------------------------------
(* What the documentation says and the code does not do.                   *)

\* browser/README.md:149-156, "Stop/Resume Session Recorder Dynamically": a
\* recording that is resumed can be replayed, so the events missed while it was
\* stopped are covered by a full snapshot.
ResumeRestartsReplay ==
  [][ (Len(recorded') > Len(recorded) /\ Last(recorded').kind = "incr")
        => gap' # "paused" ]_vars

=============================================================================
