------------------------------ MODULE OtlpCodec ------------------------------
(***************************************************************************)
(* What a request of the session recorder says: OTLPLogExporter turns a    *)
(* batch of logs into a LogsData message, and generated protobuf code      *)
(* (packages/session-recorder/src/opentelemetry/proto) into bytes.  The    *)
(* same code can read bytes, and write and read JSON.                      *)
(*                                                                         *)
(* A message is a function on the names of the fields that are set.  Bytes *)
(* are a sequence of items: a tag and a scalar, or, delimited by its       *)
(* length, the items of a message.  A JSON value is a record: its type and *)
(* what it is, the entries of an object in order.  Numbers are whole;      *)
(* beyond MaxSafe only every Spacing-th of them exists.                    *)
(***************************************************************************)
EXTENDS Integers, Sequences, SequencesExt

CONSTANTS
  NanosPerMilli,   \* 1000000
  MaxSafe,         \* Number.MAX_SAFE_INTEGER
  Spacing,         \* of doubles at today's time in nanoseconds
  Batches,         \* what the batch processor hands over: sequences of logs
  ResourceEntries  \* entries of config.resource.attributes

VARIABLES
  batch,      \* the logs of the latest export
  request,    \* the bytes of the request, <<>> before the first
  received,   \* the message in these bytes
  readBack    \* what LogsData.decode makes of it: "nothing" yet, "message" or "threw"

ocVars == <<batch, request, received, readBack>>

-----------------------------------------------------------------------------
(* The fields of the messages, in the order in which encode writes them.   *)
(* "plain" fields are left out when they have the default of their type,   *)
(* "optional" ones only when they are undefined.                           *)

F(num, name, type, label) == [num |-> num, name |-> name, type |-> type, label |-> label]

AnyValueFields ==
  <<F(1, "stringValue", "string", "optional"), F(2, "boolValue", "bool", "optional"),
    F(3, "intValue", "int64", "optional"), F(4, "doubleValue", "double", "optional"),
    F(5, "arrayValue", "ArrayValue", "optional"),
    F(6, "kvlistValue", "KeyValueList", "optional"),
    F(7, "bytesValue", "bytes", "optional")>>
ArrayValueFields == <<F(1, "values", "AnyValue", "repeated")>>
KeyValueListFields == <<F(1, "values", "KeyValue", "repeated")>>
KeyValueFields == <<F(1, "key", "string", "plain"), F(2, "value", "AnyValue", "optional")>>
InstrumentationScopeFields ==
  <<F(1, "name", "string", "plain"), F(2, "version", "string", "plain")>>
InstrumentationLibraryFields ==
  <<F(1, "name", "string", "plain"), F(2, "version", "string", "plain")>>
ResourceFields ==
  <<F(1, "attributes", "KeyValue", "repeated"),
    F(2, "droppedAttributesCount", "uint32", "plain")>>
LogsDataFields == <<F(1, "resourceLogs", "ResourceLogs", "repeated")>>
ResourceLogsFields ==
  <<F(1, "resource", "Resource", "optional"), F(2, "scopeLogs", "ScopeLogs", "repeated"),
    F(1000, "instrumentationLibraryLogs", "InstrumentationLibraryLogs", "repeated"),
    F(3, "schemaUrl", "string", "plain")>>
ScopeLogsFields ==
  <<F(1, "scope", "InstrumentationScope", "optional"),
    F(2, "logRecords", "LogRecord", "repeated"), F(3, "schemaUrl", "string", "plain")>>
InstrumentationLibraryLogsFields ==
  <<F(1, "instrumentationLibrary", "InstrumentationLibrary", "optional"),
    F(2, "logRecords", "LogRecord", "repeated"), F(3, "schemaUrl", "string", "plain")>>
LogRecordFields ==
  <<F(1, "timeUnixNano", "fixed64", "plain"),
    F(11, "observedTimeUnixNano", "fixed64", "plain"),
    F(2, "severityNumber", "int32", "plain"), F(3, "severityText", "string", "plain"),
    F(5, "body", "AnyValue", "optional"), F(6, "attributes", "KeyValue", "repeated"),
    F(7, "droppedAttributesCount", "uint32", "plain"), F(8, "flags", "fixed32", "plain"),
    F(9, "traceId", "bytes", "plain"), F(10, "spanId", "bytes", "plain")>>

FieldsOf ==
  [AnyValue |-> AnyValueFields, ArrayValue |-> ArrayValueFields,
   KeyValueList |-> KeyValueListFields, KeyValue |-> KeyValueFields,
   InstrumentationScope |-> InstrumentationScopeFields,
   InstrumentationLibrary |-> InstrumentationLibraryFields,
   Resource |-> ResourceFields, LogsData |-> LogsDataFields,
   ResourceLogs |-> ResourceLogsFields, ScopeLogs |-> ScopeLogsFields,
   InstrumentationLibraryLogs |-> InstrumentationLibraryLogsFields,
   LogRecord |-> LogRecordFields]

IsMessage(type) == type \in DOMAIN FieldsOf
Default(type) == CASE type = "string" -> "" [] type = "bytes" -> <<>> [] OTHER -> 0

\* mutant: a plain field's rule for the fields of the oneof in AnyValue
Written_Plain(f, m) ==
  /\ f.name \in DOMAIN m
  /\ CASE f.label = "repeated" -> m[f.name] # <<>>
       [] IsMessage(f.type) -> TRUE
       [] f.type = "bool" -> m[f.name]
       [] OTHER -> m[f.name] # Default(f.type)

\* the condition under which encode and toJSON write a field
Written(f, m) ==
  /\ f.name \in DOMAIN m
  /\ CASE f.label = "repeated" -> m[f.name] # <<>>
       [] f.label = "plain" -> m[f.name] # Default(f.type)
       [] f.label = "optional" -> TRUE

-----------------------------------------------------------------------------
(* encode and decode.                                                      *)

WireType(type) ==
  CASE type \in {"bool", "int64", "int32", "uint32"} -> 0
    [] type \in {"double", "fixed64"} -> 1
    [] type = "fixed32" -> 5
    [] OTHER -> 2

Tag(f) == 8 * f.num + WireType(f.type)

RECURSIVE Encode(_, _)
Encode(type, m) ==
  LET Item(f, v) ==
        [tag |-> Tag(f), value |-> IF IsMessage(f.type) THEN Encode(f.type, v) ELSE v]
      Items(f) ==
        IF ~Written(f, m) THEN <<>>
        ELSE IF f.label = "repeated"
             THEN [i \in DOMAIN m[f.name] |-> Item(f, m[f.name][i])]
             ELSE <<Item(f, m[f.name])>> IN
  FoldLeft(LAMBDA items, f : items \o Items(f), <<>>, FieldsOf[type])

\* the fields that have a value in every message: createBase...
Base(type) ==
  LET always == {f \in ToSet(FieldsOf[type]) : f.label # "optional"} IN
  [name \in {f.name : f \in always} |->
     LET f == CHOOSE f \in always : f.name = name IN
     IF f.label = "repeated" THEN <<>> ELSE Default(f.type)]

Set(m, name, value) ==
  [x \in DOMAIN m \cup {name} |-> IF x = name THEN value ELSE m[x]]

\* items whose number is unknown, or which have another type, are skipped
RECURSIVE Decode(_, _)
Decode(type, items) ==
  LET Fields(item) == SelectSeq(FieldsOf[type], LAMBDA f : Tag(f) = item.tag)
      Value(f, item) ==
        IF IsMessage(f.type) THEN Decode(f.type, item.value) ELSE item.value
      Take(m, item) ==
        IF Fields(item) = <<>> THEN m
        ELSE LET f == Head(Fields(item)) IN
             Set(m, f.name, IF f.label = "repeated"
                            THEN Append(m[f.name], Value(f, item)) ELSE Value(f, item)) IN
  FoldLeft(Take, Base(type), items)

\* longToNumber throws somewhere
RECURSIVE Throws(_, _)
Throws(type, items) ==
  \E i \in DOMAIN items : \E f \in ToSet(FieldsOf[type]) :
    /\ Tag(f) = items[i].tag
    /\ \/ f.type \in {"int64", "fixed64"} /\ items[i].value > MaxSafe
       \/ IsMessage(f.type) /\ Throws(f.type, items[i].value)

-----------------------------------------------------------------------------
(* toJSON, fromJSON and fromPartial.                                       *)

\* the names of the severities: a level and its rank, TRACE, TRACE2, ..., FATAL4
Levels == <<"TRACE", "DEBUG", "INFO", "WARN", "ERROR", "FATAL">>
Unspecified == <<"UNSPECIFIED">>
Unrecognized == <<"UNRECOGNIZED">>

SeverityNames ==
  [n \in 0..24 |-> IF n = 0 THEN Unspecified
                   ELSE <<Levels[((n - 1) \div 4) + 1], ((n - 1) % 4) + 1>>]

SeverityNumberToJson(n) == IF n \in 0..24 THEN SeverityNames[n] ELSE Unrecognized

\* a number stands for itself; whatever is neither a severity nor its name is -1
SeverityNumberFromJson(j) ==
  IF j.json = "number" /\ j.is \in 0..24 THEN j.is
  ELSE IF j.json = "string" /\ \E n \in 0..24 : SeverityNames[n] = j.is
       THEN CHOOSE n \in 0..24 : SeverityNames[n] = j.is
       ELSE -1

\* what conversion of a single value does to the values of each field
Mapped(m, f, Op(_)) ==
  IF f.label = "repeated" THEN [i \in DOMAIN m[f.name] |-> Op(m[f.name][i])]
  ELSE Op(m[f.name])

RECURSIVE ToJson(_, _)
ToJson(type, m) ==
  LET Json(f, v) ==
        CASE IsMessage(f.type) -> ToJson(f.type, v)
          [] f.type = "bytes" -> [base64 |-> v]
          [] f.name = "severityNumber" -> [json |-> "string", is |-> SeverityNumberToJson(v)]
          [] OTHER -> v IN
  FoldLeft(LAMBDA j, f : IF Written(f, m)
                         THEN Set(j, f.name, Mapped(m, f, LAMBDA v : Json(f, v))) ELSE j,
           <<>>, FieldsOf[type])

RECURSIVE FromJson(_, _)
FromJson(type, j) ==
  LET Value(f, v) ==
        CASE IsMessage(f.type) -> FromJson(f.type, v)
          [] f.type = "bytes" -> v.base64
          [] f.name = "severityNumber" -> SeverityNumberFromJson(v)
          [] OTHER -> v IN
  FoldLeft(LAMBDA m, f : IF f.name \in DOMAIN j
                         THEN Set(m, f.name, Mapped(j, f, LAMBDA v : Value(f, v))) ELSE m,
           Base(type), FieldsOf[type])

RECURSIVE FromPartial(_, _)
FromPartial(type, p) ==
  LET Value(f, v) == IF IsMessage(f.type) THEN FromPartial(f.type, v) ELSE v IN
  FoldLeft(LAMBDA m, f : IF f.name \in DOMAIN p
                         THEN Set(m, f.name, Mapped(p, f, LAMBDA v : Value(f, v))) ELSE m,
           Base(type), FieldsOf[type])

-----------------------------------------------------------------------------
(* OTLPLogExporter.                                                        *)

\* null and undefined become a value of no type
RECURSIVE ConvertToAnyValue(_)
ConvertToAnyValue(v) ==
  CASE v.json = "object" ->
         [kvlistValue |-> [values |-> [i \in DOMAIN v.is |->
            [key |-> v.is[i][1], value |-> ConvertToAnyValue(v.is[i][2])]]]]
    [] v.json = "array" ->
         [arrayValue |-> [values |-> [i \in DOMAIN v.is |-> ConvertToAnyValue(v.is[i])]]]
    [] v.json = "string" -> [stringValue |-> v.is]
    [] v.json = "number" -> [doubleValue |-> v.is]
    [] v.json = "boolean" -> [boolValue |-> v.is]
    [] OTHER -> <<>>

\* the double nearest to n
Double(n) ==
  IF n <= MaxSafe THEN n ELSE ((n + Spacing \div 2) \div Spacing) * Spacing

\* `attributes || {}`
Attributes(a) ==
  ConvertToAnyValue(IF a.json = "undefined" THEN [json |-> "object", is |-> <<>>] ELSE a)
    .kvlistValue.values

LogRecordOf(log) ==
  [body |-> ConvertToAnyValue(log.body),
   timeUnixNano |-> Double(log.timeUnixNano * NanosPerMilli),
   attributes |-> Attributes(log.attributes)]

ConstructLogData(logs) ==
  [resourceLogs |-> <<
     [resource |-> [attributes |-> Attributes([json |-> "object", is |-> ResourceEntries])],
      scopeLogs |-> <<
        [scope |-> [name |-> "rum.rr-web", version |-> "VERSION"],
         logRecords |-> [i \in DOMAIN logs |-> LogRecordOf(logs[i])]]>>]>>]

-----------------------------------------------------------------------------
OcInit == batch = <<>> /\ request = <<>> /\ received = <<>> /\ readBack = "nothing"

\* export: nothing is sent for no logs
Export(logs) ==
  /\ readBack = "nothing" /\ batch = <<>> /\ logs # <<>>
  /\ batch' = logs
  /\ request' = Encode("LogsData", ConstructLogData(logs))
  /\ UNCHANGED <<received, readBack>>

ReadRequest ==
  /\ request # <<>> /\ readBack = "nothing"
  /\ received' = Decode("LogsData", request)
  /\ readBack' = IF Throws("LogsData", request) THEN "threw" ELSE "message"
  /\ UNCHANGED <<batch, request>>

OcNext == (\E logs \in Batches : Export(logs)) \/ ReadRequest

OcSpec == OcInit /\ [][OcNext]_ocVars

-----------------------------------------------------------------------------
(* Properties.                                                             *)

\* the JSON value that an AnyValue stands for
RECURSIVE Meant(_)
Meant(a) ==
  CASE "kvlistValue" \in DOMAIN a ->
         [json |-> "object", is |-> [i \in DOMAIN a.kvlistValue.values |->
            <<a.kvlistValue.values[i].key, Meant(a.kvlistValue.values[i].value)>>]]
    [] "arrayValue" \in DOMAIN a ->
         [json |-> "array",
          is |-> [i \in DOMAIN a.arrayValue.values |-> Meant(a.arrayValue.values[i])]]
    [] "stringValue" \in DOMAIN a -> [json |-> "string", is |-> a.stringValue]
    [] "doubleValue" \in DOMAIN a -> [json |-> "number", is |-> a.doubleValue]
    [] "boolValue" \in DOMAIN a -> [json |-> "boolean", is |-> a.boolValue]
    [] OTHER -> [json |-> "undefined"]

MeantEntries(attributes) ==
  Meant([kvlistValue |-> [values |-> attributes]])

\* null has no type either
RECURSIVE NoNull(_)
NoNull(v) ==
  CASE v.json = "null" -> [json |-> "undefined"]
    [] v.json = "array" -> [v EXCEPT !.is = [i \in DOMAIN @ |-> NoNull(@[i])]]
    [] v.json = "object" ->
         [v EXCEPT !.is = [i \in DOMAIN @ |-> <<@[i][1], NoNull(@[i][2])>>]]
    [] OTHER -> v

\* A request holds, under the recorder's scope and resource, exactly the logs of the
\* batch in their order: empty strings, zeros, FALSE and empty lists inside a value
\* included, null alone turned into no value, and the time of a log to the
\* millisecond; the code that wrote the bytes reads them, or refuses because the
\* time is no safe integer, and its JSON form says the same, severities by name or by
\* number included (OTLPLogExporter.ts:44-118, common.ts:88-145, logs.ts:874-1005).
RequestSaysTheBatch ==
  readBack # "nothing" =>
    LET resourceLogs == received.resourceLogs[1]
        scopeLogs == resourceLogs.scopeLogs[1]
        records == scopeLogs.logRecords IN
    /\ Len(received.resourceLogs) = 1 /\ Len(resourceLogs.scopeLogs) = 1
    /\ MeantEntries(resourceLogs.resource.attributes).is = ResourceEntries
    /\ scopeLogs.scope.name = "rum.rr-web"
    /\ Len(records) = Len(batch)
    /\ \A i \in DOMAIN batch :
         LET r == records[i] IN
         /\ Meant(r.body) = NoNull(batch[i].body)
         /\ IF batch[i].attributes.json = "undefined" THEN r.attributes = <<>>
            ELSE MeantEntries(r.attributes) = NoNull(batch[i].attributes)
         /\ (r.timeUnixNano + Spacing \div 2) \div NanosPerMilli = batch[i].timeUnixNano
    /\ readBack = "threw" => \E i \in DOMAIN records : records[i].timeUnixNano > MaxSafe
    /\ FromPartial("LogsData", ConstructLogData(batch)) = received
    /\ FromJson("LogsData", ToJson("LogsData", received)) = received
    /\ \A n \in {-1, 0, 1, 4, 5, 9, 12, 24} :
         /\ SeverityNumberFromJson([json |-> "number", is |-> n]) = n
         /\ SeverityNumberFromJson([json |-> "string", is |-> SeverityNumberToJson(n)]) = n

=============================================================================
