---------------------------- MODULE LogTransports ----------------------------
(***************************************************************************)
(* The transports of winston and pino: node-opentelemetry/src/otel-logger  *)
(* and the older copy in node-logger/src, which loads no context and       *)
(* cannot be disabled.  winston calls the transport at once; pino sends    *)
(* lines to a worker thread, whose transport reads them one by one.  Both  *)
(* hand the log to a batch processor and shut that down when they close.   *)
(*                                                                         *)
(* Logs are numbered.  External: the streams of winston and pino, and the  *)
(* BatchLogRecordProcessor with its exporter.                              *)
(***************************************************************************)
EXTENDS Integers, Sequences, FiniteSets, SequencesExt

CONSTANTS
  SpanIds,      \* spans in which something is logged
  NoSpan,
  BufferSize, QueueSize,   \* of LoggerOptions
  MaxLogged     \* bound: logs

VARIABLES
  transport,    \* lib: "winston" or "pino"; pkg: "otel" or "node-logger"; disabled:
                \* OTEL_LOGS_EXPORTER=none; mixin: getMixinFunction is used
  origin,       \* the span of each log so far
  lines,        \* pino: lines on the way to the worker
  ending,       \* the application has ended the logger
  closing,      \* of the transport: "open", "flushing", "closed", "rejected"
  buffer,       \* of the processor
  inFlight,     \* batches on their way, and whether shutdown waits for them
  sent,         \* records that were exported
  spilled,      \* logs dropped because the buffer was full
  failed,       \* logs of exports that failed
  refused       \* logs that came too late, or when a line made the transport throw

ltVars == <<transport, origin, lines, ending, closing, buffer, inFlight, sent, spilled,
            failed, refused>>

Logs == 1..MaxLogged
SpansOrNone == SpanIds \cup {NoSpan}
Records == [log : Logs, span : SpansOrNone]
Lines == [log : Logs, ids : SUBSET {"trace_id", "span_id", "trace_flags"}]

LtTypeOK ==
  /\ transport \in [lib : {"winston", "pino"}, pkg : {"otel", "node-logger"},
                    disabled : BOOLEAN, mixin : BOOLEAN]
  /\ origin \in Seq(SpansOrNone) /\ Len(origin) <= MaxLogged
  /\ lines \in Seq(Lines)
  /\ ending \in BOOLEAN
  /\ closing \in {"open", "flushing", "closed", "rejected"}
  /\ buffer \in Seq(Records)
  /\ \A b \in inFlight : b \in [records : Seq(Records), awaited : BOOLEAN]
  /\ sent \subseteq Records
  /\ {spilled, failed, refused} \subseteq SUBSET Logs

InitWith(t) ==
  /\ transport = t
  /\ origin = <<>> /\ lines = <<>> /\ ending = FALSE /\ closing = "open"
  /\ buffer = <<>> /\ inFlight = {}
  /\ sent = {} /\ spilled = {} /\ failed = {} /\ refused = {}

Transports ==
  {t \in [lib : {"winston", "pino"}, pkg : {"otel", "node-logger"},
          disabled : BOOLEAN, mixin : BOOLEAN] :
     (t.disabled => t.pkg = "otel") /\ (t.mixin => t.lib = "pino" /\ t.pkg = "otel")}

LtInit == \E t \in Transports : InitWith(t)

-----------------------------------------------------------------------------
(* Logger.                                                                 *)

\* the sanity check of the constructor, in otel-logger/index.ts and logger.ts
MaxQueueSize == IF BufferSize > QueueSize THEN BufferSize ELSE QueueSize
NodeLoggerMaxQueueSize == IF BufferSize > QueueSize THEN BufferSize ELSE QueueSize

Bound == IF transport.pkg = "otel" THEN MaxQueueSize ELSE NodeLoggerMaxQueueSize

\* loadContext: all three ids, or the active context
LoadContext(active, ids, span) ==
  IF {"trace_id", "span_id", "trace_flags"} \subseteq ids THEN span ELSE active

\* BatchLogRecordProcessor.onEmit
Emitted(log, span) ==
  IF closing # "open"
  THEN refused' = refused \cup {log} /\ UNCHANGED <<buffer, spilled>>
  ELSE IF Len(buffer) >= Bound
  THEN spilled' = spilled \cup {log} /\ UNCHANGED <<buffer, refused>>
  ELSE buffer' = Append(buffer, [log |-> log, span |-> span]) /\ UNCHANGED <<spilled, refused>>

\* postMessage; nothing is emitted if the exporter is disabled
PostMessage(log, active, ids, span) ==
  IF transport.disabled THEN refused' = refused \cup {log} /\ UNCHANGED <<buffer, spilled>>
  ELSE Emitted(log, LoadContext(active, ids, span))

NodeLoggerPostMessage(log, active) == Emitted(log, active)

Batch(records) == SubSeq(records, 1, IF Len(records) > BufferSize THEN BufferSize ELSE Len(records))

\* the timer of the processor, or a full batch, sends one batch
SendBatch ==
  /\ buffer # <<>> /\ closing = "open"
  /\ inFlight' = inFlight \cup {[records |-> Batch(buffer), awaited |-> FALSE]}
  /\ buffer' = SubSeq(buffer, Len(Batch(buffer)) + 1, Len(buffer))
  /\ UNCHANGED <<transport, origin, lines, ending, closing, sent, spilled, failed, refused>>

\* the end of an export; shutdown is rejected by the first of its batches that fails
ExportEnds(b, ok) ==
  /\ inFlight' = inFlight \ {b}
  /\ IF ok THEN sent' = sent \cup ToSet(b.records) /\ UNCHANGED <<failed, closing>>
     ELSE /\ failed' = failed \cup {r.log : r \in ToSet(b.records)}
          /\ closing' = IF b.awaited /\ closing = "flushing" THEN "rejected" ELSE closing
          /\ UNCHANGED sent
  /\ UNCHANGED <<transport, origin, lines, ending, buffer, spilled, refused>>

\* Logger.shutdown: everything in the buffer is sent, batch by batch
Shutdown ==
  /\ closing' = IF transport.disabled THEN "closed" ELSE "flushing"
  /\ inFlight' = inFlight \cup
       {[records |-> SubSeq(buffer, i, IF i + BufferSize - 1 < Len(buffer)
                                       THEN i + BufferSize - 1 ELSE Len(buffer)),
         awaited |-> TRUE] : i \in {i \in DOMAIN buffer : (i - 1) % BufferSize = 0}}
  /\ buffer' = <<>>

-----------------------------------------------------------------------------
(* winston.                                                                *)

\* log: in the context of the caller
WinstonLog(span) ==
  /\ transport.lib = "winston" /\ transport.pkg = "otel"
  /\ Len(origin) < MaxLogged
  /\ origin' = Append(origin, span)
  /\ PostMessage(Len(origin'), span, {}, NoSpan)
  /\ UNCHANGED <<transport, lines, ending, closing, inFlight, sent, failed>>

NodeLoggerWinstonLog(span) ==
  /\ transport.lib = "winston" /\ transport.pkg = "node-logger"
  /\ Len(origin) < MaxLogged
  /\ origin' = Append(origin, span)
  /\ NodeLoggerPostMessage(Len(origin'), span)
  /\ UNCHANGED <<transport, lines, ending, closing, inFlight, sent, failed>>

\* close
WinstonClose ==
  /\ transport.lib = "winston" /\ closing = "open"
  /\ ending' = TRUE
  /\ Shutdown
  /\ UNCHANGED <<transport, origin, lines, sent, spilled, failed, refused>>

\* mutant: close does not wait for the exports
CanFinish_Early == closing = "flushing"

\* shutdown is fulfilled when the exports are over
CanFinish == closing = "flushing" /\ inFlight = {}

\* winston: finish and close are emitted; pino: the stream is destroyed
Finish ==
  /\ CanFinish
  /\ closing' = "closed"
  /\ UNCHANGED <<transport, origin, lines, ending, buffer, inFlight, sent, spilled, failed, refused>>

-----------------------------------------------------------------------------
(* pino.                                                                   *)

\* getMixinFunction, in the application's thread; an application may also write ids of
\* its own into a line
Mixin(span) ==
  IF transport.mixin /\ span # NoSpan THEN {"trace_id", "span_id", "trace_flags"} ELSE {}

PinoLog(span, ids) ==
  /\ transport.lib = "pino" /\ Len(origin) < MaxLogged /\ ~ending
  /\ origin' = Append(origin, span)
  /\ lines' = Append(lines, [log |-> Len(origin'), ids |-> ids \cup Mixin(span)])
  /\ UNCHANGED <<transport, ending, closing, buffer, inFlight, sent, spilled, failed, refused>>

PinoEnd ==
  /\ transport.lib = "pino" /\ ~ending
  /\ ending' = TRUE
  /\ UNCHANGED <<transport, origin, lines, closing, buffer, inFlight, sent, spilled, failed, refused>>

\* a step of the loop in the worker, where no span is active
PinoLine ==
  /\ transport.pkg = "otel" /\ closing = "open" /\ lines # <<>>
  /\ lines' = Tail(lines)
  /\ PostMessage(Head(lines).log, NoSpan, Head(lines).ids, origin[Head(lines).log])
  /\ UNCHANGED <<transport, origin, ending, closing, inFlight, sent, failed>>

NodeLoggerPinoLine ==
  /\ transport.pkg = "node-logger" /\ closing = "open" /\ lines # <<>>
  /\ lines' = Tail(lines)
  /\ NodeLoggerPostMessage(Head(lines).log, NoSpan)
  /\ UNCHANGED <<transport, origin, ending, closing, inFlight, sent, failed>>

\* The loop ends with the stream, or because a line (getCustomMeta) throws, after which
\* nobody reads the others; either way the transport closes.
PinoClose(throws) ==
  /\ transport.lib = "pino" /\ closing = "open"
  /\ IF throws THEN lines # <<>> ELSE ending /\ lines = <<>>
  /\ Shutdown
  /\ refused' = refused \cup {lines[i].log : i \in DOMAIN lines}
  /\ lines' = <<>>
  /\ UNCHANGED <<transport, origin, ending, sent, spilled, failed>>

\* what is written to a destroyed stream
PinoTooLate ==
  /\ closing # "open" /\ lines # <<>>
  /\ refused' = refused \cup {Head(lines).log} /\ lines' = Tail(lines)
  /\ UNCHANGED <<transport, origin, ending, closing, buffer, inFlight, sent, spilled, failed>>

LtNext ==
  \/ \E s \in SpansOrNone : WinstonLog(s) \/ NodeLoggerWinstonLog(s)
  \/ \E s \in SpansOrNone, ids \in {{}, {"trace_id"}} : PinoLog(s, ids)
  \/ SendBatch
  \/ \E b \in inFlight, ok \in BOOLEAN : ExportEnds(b, ok)
  \/ WinstonClose \/ Finish
  \/ PinoEnd \/ PinoLine \/ NodeLoggerPinoLine
  \/ \E throws \in BOOLEAN : PinoClose(throws)
  \/ PinoTooLate

LtSpec == LtInit /\ [][LtNext]_ltVars

-----------------------------------------------------------------------------
(* Properties.                                                             *)

\* Once a transport says that it is closed, every log was exported, unless the buffer
\* was full, its export failed or it came too late, and none was both exported and
\* given up; an exported log is in the span it was logged in, which pino's lines carry
\* to the worker if the mixin is used, and in no span otherwise
\* (otel-logger/index.ts:44-76, pino.ts:93-113, winston.ts:88-100).
ClosedWithNothingLeft ==
  LET exported == {r.log : r \in sent} IN
  /\ closing = "closed" /\ lines = <<>> =>
       DOMAIN origin \subseteq exported \cup spilled \cup failed \cup refused
  /\ exported \cap (spilled \cup failed \cup refused) = {}
  /\ \A r \in sent :
       r.span = IF transport.lib = "winston" \/ transport.mixin THEN origin[r.log] ELSE NoSpan

=============================================================================
