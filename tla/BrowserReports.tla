---------------------------- MODULE BrowserReports ----------------------------
(***************************************************************************)
(* Errors of a page and the spans that report them: HyperDXError-          *)
(* Instrumentation wraps console.error and listens for errors of the page, *)
(* recordException makes an event of an error, asynchronously, and an      *)
(* event processor puts it on the span                                     *)
(* (packages/instrumentation-exception/src/browser,                        *)
(* packages/instrumentation-sentry-node/src/eventProcessor.ts).            *)
(*                                                                         *)
(* Each Rum.init that is not refused makes an instance, with a number; the *)
(* rest of its life cycle is the subject of RumLifecycle.  Another library *)
(* may wrap console.error over and under the instrumentation.  What is     *)
(* logged or thrown is a record of ErrorEvents, with its text: "useful",   *)
(* one of the useless "blank", "object" ("[object ...") and "error", or    *)
(* "breaks", if the code that makes a text of it throws.                   *)
(* External: Sentry's functions that make and prepare an event, and its    *)
(* inbound filter, which drops the events of some errors.                  *)
(***************************************************************************)
EXTENDS ErrorEvents, Lists

CONSTANTS
  Logged,       \* what the page hands to console.error: sequences of values
  Thrown,       \* the values of error and rejection events
  Handed,       \* what the application hands to Rum.recordException
  MaxInstances, \* bound: instances
  MaxIncidents, \* bound: errors logged or thrown
  MaxForeign    \* bound: wrappers of the other library

VARIABLES
  instances,   \* instances so far
  running,     \* the instance of the running SDK; 0: not inited
  errorInstr,  \* _errorInstrumentation; 0: undefined
  layers,      \* the wrappers of console.error, innermost first; 0: foreign
  hearing,     \* instances whose listeners are on the window and the document
  shutting,    \* instances whose provider has not shut down completely
  reports,     \* spans that are, or are to be, made of incidents
  incidents    \* history: what was logged or thrown so far

brVars == <<instances, running, errorInstr, layers, hearing, shutting, reports, incidents>>

Instances == 1..MaxInstances
Values ==
  LET given == Thrown \cup Handed \cup UNION {ToSet(values) : values \in Logged}
  IN  given \cup UNION {ToSet(v.error) : v \in {w \in given : w.is = "ErrorEvent"}}
NoError == [is |-> "none"]
Statuses == {"processing", "exported", "lost", "none"}

\* by: the instance whose tracer makes the span; own: the span is started when the
\* event is there; said and name: the exceptions on the span and, if it is an own one,
\* its name; path: of the target of an event
IsReport(r) ==
  /\ r.of \in 1..MaxIncidents /\ r.by \in Instances
  /\ r.about = NoError \/ r.about \in Values
  /\ r.own \in BOOLEAN /\ r.status \in Statuses
  /\ r.status = "processing" => r.said = <<>> /\ r.name = <<>>

BrTypeOK ==
  /\ instances \in 0..MaxInstances
  /\ {running, errorInstr} \subseteq 0..instances
  /\ layers \in Seq(0..instances)
  /\ hearing \subseteq Instances /\ shutting \subseteq Instances
  /\ \A i \in DOMAIN reports : IsReport(reports[i])
  /\ Len(incidents) <= MaxIncidents

Init ==
  /\ instances = 0 /\ running = 0 /\ errorInstr = 0
  /\ layers = <<>> /\ hearing = {} /\ shutting = {}
  /\ reports = <<>> /\ incidents = <<>>

-----------------------------------------------------------------------------
(* hdxReport: no span, or one with the error it is about.                  *)

\* hdxReportError and hdxReportString
SpanOfError(e) == IF e.text = "useful" \/ e.stack # <<>> THEN <<e>> ELSE <<>>
SpanOfString(v) == IF v.text = "useful" THEN <<NoError>> ELSE <<>>

\* hdxReport for a single value
SpanOfValue(v) ==
  CASE v.is \in {"Error", "DOMException"} -> SpanOfError(v)
    [] v.is = "ErrorEvent" ->
         IF v.error = <<>> THEN SpanOfString(v) ELSE SpanOfError(v.error[1])
    [] v.is = "Event" -> IF v.text = "useful" \/ v.target # NoNode THEN <<v>> ELSE <<>>
    [] OTHER -> SpanOfString(v)

\* the text of a list is useless if it starts with that of an object, or is blank
SpanOfList(values) ==
  LET errors == {i \in DOMAIN values : values[i].is = "Error"} IN
  IF values[1].text # "object" /\ \E i \in DOMAIN values : values[i].text # "blank"
  THEN <<IF errors = {} THEN NoError ELSE values[Min(errors)]>> ELSE <<>>

HdxReport(values) ==
  CASE values = <<>> -> <<>>
    [] Len(values) = 1 -> SpanOfValue(values[1])
    [] OTHER -> SpanOfList(values)

\* the report throws, in the page's code that logs or in the listener
Fails(values) == \E i \in DOMAIN values : values[i].text = "breaks"

-----------------------------------------------------------------------------
(* The spans.                                                              *)

\* a provider that has shut down exports nothing
Exported(by) == IF by = running \/ by \in shutting THEN "exported" ELSE "lost"

\* a span with an error is ended when the error was recorded, others at once
NewReport(incident, n, about) ==
  [of |-> incident, by |-> n, about |-> about, own |-> FALSE, said |-> <<>>,
   name |-> <<>>,
   path |-> IF about.is = "Event" /\ about.target # NoNode
            THEN GetElementXPath(about.target, TRUE) ELSE <<>>,
   status |-> IF about = NoError THEN Exported(n) ELSE "processing"]

\* the reports of instances ns, in this order, of values
Reported(ns, values) ==
  LET span == HdxReport(values) IN
  IF span = <<>> THEN <<>>
  ELSE [i \in DOMAIN ns |-> NewReport(Len(incidents) + 1, ns[i], span[1])]

Incident(via, values) ==
  [via |-> via, values |-> values, to |-> running, heard |-> running \in hearing,
   calm |-> shutting = {}]

Happens(via, values, newReports) ==
  /\ Len(incidents) < MaxIncidents
  /\ incidents' = Append(incidents, Incident(via, values))
  /\ reports' = reports \o newReports
  /\ UNCHANGED <<instances, running, errorInstr, layers, hearing, shutting>>

\* the wrappers of console.error that are instances, the outermost first
Wrappers == Kept(Reverse(layers), {i \in DOMAIN layers : Reverse(layers)[i] # 0})

\* mutant: diag writes failures with the page's console.error
Diagnosed_Wrapped(r) ==
  [i \in DOMAIN Wrappers |-> NewReport(r.of, Wrappers[i], NoError)]

\* diag has a console.error that was not wrapped, or none
Diagnosed(r) == <<>>

\* the event processor: the exceptions of the event go to the span, or to one of its
\* own, and without an event no such span is made
Processed(r) ==
  LET event == BuildEventFromException(r.about) IN
  IF r.about.filtered THEN [r EXCEPT !.status = IF r.own THEN "none" ELSE Exported(r.by)]
  ELSE [r EXCEPT !.said = event.exceptions,
                 !.name = IF r.own THEN GetSpanNameFromEvent(event) ELSE @,
                 !.status = Exported(r.by)]

\* recordException: the event is made, prepared, and handed to every integration in
\* turn, and then recorded on the span; when one of them fails, or the filter has
\* dropped the event, which makes the next one fail, that is logged and the span
\* ended as it is.  These promises resolve in any order.
RecordException(i) ==
  LET r == reports[i] IN
  /\ r.status = "processing"
  /\ reports' = [reports EXCEPT ![i] = Processed(r)]
                \o (IF r.about.filtered THEN Diagnosed(r) ELSE <<>>)
  /\ UNCHANGED <<instances, running, errorInstr, layers, hearing, shutting, incidents>>

-----------------------------------------------------------------------------
(* What happens on the page.                                               *)

\* the wrappers report from the outermost on, unless the values break the first one,
\* and then neither the next ones nor the console see the call
ConsoleError(values) ==
  Happens("console", values,
          IF Fails(values) THEN <<>> ELSE Reported(Wrappers, values))

\* an uncaught error, an unhandled rejection, or an element that does not load
ErrorEvent(v) ==
  Happens("event", <<v>>,
          IF Fails(<<v>>) THEN <<>> ELSE Reported(SetToSeq(hearing), <<v>>))

\* Rum.error; hdxReport drops an empty list
RumError(values) ==
  /\ running # 0
  /\ Happens("Rum.error", values,
             IF errorInstr = 0 \/ Fails(values) THEN <<>>
             ELSE Reported(<<errorInstr>>, values))

\* Rum.recordException: the span is started by the event processor
RumRecordException(v) ==
  /\ running # 0
  /\ Happens("Rum.recordException", <<v>>,
             <<[NewReport(Len(incidents) + 1, running, v) EXCEPT !.own = TRUE]>>)

\* the other library
ForeignWrap ==
  /\ Len(SelectSeq(layers, LAMBDA n : n = 0)) < MaxForeign
  /\ layers' = Append(layers, 0)
  /\ UNCHANGED <<instances, running, errorInstr, hearing, shutting, reports, incidents>>

ForeignUnwrap ==
  /\ layers # <<>> /\ Last(layers) = 0
  /\ layers' = Front(layers)
  /\ UNCHANGED <<instances, running, errorInstr, hearing, shutting, reports, incidents>>

-----------------------------------------------------------------------------
(* The life cycle.                                                         *)

\* Rum.init, with the instrumentation of errors or without; an instrumentation of
\* a former init stays the one of Rum.error
RumInit(withErrors) ==
  LET n == instances + 1 IN
  /\ running = 0 /\ n \in Instances
  /\ instances' = n /\ running' = n
  /\ IF withErrors
     THEN errorInstr' = n /\ layers' = Append(layers, n) /\ hearing' = hearing \cup {n}
     ELSE UNCHANGED <<errorInstr, layers, hearing>>
  /\ UNCHANGED <<shutting, reports, incidents>>

\* Rum.deinit: the listeners are taken off, and shimmer.unwrap takes the outermost wrapper off, if it is shimmer's
RumDeinit ==
  /\ running # 0
  /\ running' = 0 /\ shutting' = shutting \cup {running}
  /\ IF running \in hearing
     THEN /\ hearing' = hearing \ {running}
          /\ layers' = IF layers # <<>> /\ Last(layers) # 0 THEN Front(layers) ELSE layers
     ELSE UNCHANGED <<hearing, layers>>
  /\ UNCHANGED <<instances, errorInstr, reports, incidents>>

\* the provider has shut down
ShutDown(n) ==
  /\ n \in shutting /\ shutting' = shutting \ {n}
  /\ UNCHANGED <<instances, running, errorInstr, layers, hearing, reports, incidents>>

Next ==
  \/ \E values \in Logged : ConsoleError(values) \/ RumError(values)
  \/ \E v \in Thrown : ErrorEvent(v)
  \/ \E v \in Handed : RumRecordException(v)
  \/ ForeignWrap \/ ForeignUnwrap
  \/ \E i \in DOMAIN reports : RecordException(i)
  \/ \E withErrors \in BOOLEAN : RumInit(withErrors)
  \/ RumDeinit
  \/ \E n \in Instances : ShutDown(n)

Spec == Init /\ [][Next]_brVars

-----------------------------------------------------------------------------
\* worth a report
Telling(values) ==
  /\ ~Fails(values)
  /\ \E i \in DOMAIN values : values[i].text = "useful" /\ values[1].text # "object"

\* the error that v is, or holds
ErrorIn(v) ==
  CASE v.is = "Error" -> <<v>>
    [] v.is = "DOMException" -> IF v.stack = <<>> THEN <<>> ELSE <<v>>
    [] v.is = "ErrorEvent" -> v.error
    [] v.is \in {"object", "Event"} -> v.errors
    [] OTHER -> <<>>

\* the page's own calls in the stack of an error
CallsOfThePage(e) == Reverse(SelectSeq(e.stack, LAMBDA l : l.whose = "page"))

\* exceptions on a span say what v is: the name and the message of the error, and the
\* page's own calls in their order
Says(exceptions, v) ==
  /\ Len(exceptions) = 1
  /\ LET x == exceptions[1] IN
     IF ErrorIn(v) # <<>>
     THEN LET e == ErrorIn(v)[1]
              message == IF e.inner # <<>> THEN e.inner[1] ELSE e.message
          IN  /\ x.type = e.name
              /\ message # <<>> => x.value = message
              /\ x.frames = CallsOfThePage(e)
     ELSE /\ x.type # <<>> /\ IsSuffix(v.message, x.value)
          /\ v.is # "other" => x.value # <<>>

\* the node a path leads to
NodeAt(path) ==
  LET Is(c, name) == name = (CASE Dom[c].type = "element" -> Dom[c].localName
                               [] Dom[c].type = "comment" -> "comment()"
                               [] OTHER -> "text()")
      Child(n, step) ==
        LET same == {c \in DOMAIN Dom : Dom[c].parent = n /\ Is(c, step.name)} IN
        CHOOSE c \in same :
          Cardinality({d \in same : Dom[d].position <= Dom[c].position})
            = IF step.index = 0 THEN 1 ELSE step.index
      Step(n, step) ==
        CASE "id" \in DOMAIN step -> CHOOSE c \in DOMAIN Dom : Dom[c].id = step.id
          [] step.name = "/" -> CHOOSE c \in DOMAIN Dom : Dom[c].type = "document"
          [] OTHER -> Child(n, step) IN
  FoldLeft(Step, NoNode, path)

\* a value on its own: the stack of its error is read as the calls of the page, and the
\* path of the node it is about leads to that node
ReadsAlone(v) ==
  /\ ErrorIn(v) # <<>> =>
       LET e == ErrorIn(v)[1] IN FilteredFrames(ParseStackFrames(e)) = CallsOfThePage(e)
  /\ v.is = "Event" /\ v.target # NoNode => NodeAt(GetElementXPath(v.target, TRUE)) = v.target

\* Of whatever is logged or thrown while no former provider is still shutting down at
\* most one span is exported, though another library keeps the wrapper of a former
\* init on console.error.  If it is worth a report and the running SDK is the one
\* that heard it, there is exactly one as soon as nothing of it is being processed
\* (HyperDXErrorInstrumentation.ts:33-207, hyperdx.ts:10-68, index.ts:430-487).
ReportedOnce ==
  \A k \in DOMAIN incidents :
    LET c == incidents[k]
        spans == {i \in DOMAIN reports : reports[i].of = k /\ reports[i].status # "none"}
        sent == {i \in spans : reports[i].status = "exported"} IN
    c.calm =>
      /\ \A i, j \in sent : i = j
      /\ /\ c.heard /\ c.to = running /\ Telling(c.values)
         /\ \A i \in spans : reports[i].status # "processing"
         /\ c.via # "Rum.recordException"
         => \E i \in sent : reports[i].by = c.to

\* Unless the filter drops the error, the span says which one it was and where the
\* page was, without the calls of the SDK and of frameworks, and the path of an
\* event's target leads to it (browser/index.ts:79-106, eventbuilder.ts:230-364,
\* utils.ts:47-122).
ReportedAsWhatItIs ==
  \A i \in DOMAIN reports :
    LET r == reports[i] IN
    /\ r.path # <<>> => NodeAt(r.path) = r.about.target
    /\ r.status = "exported" =>
         IF r.about = NoError THEN r.said = <<>>
         ELSE IF r.about.filtered THEN r.said = <<>> /\ ~r.own
         ELSE Says(r.said, r.about) /\ (r.own => IsSuffix(r.said[1].value, r.name))

\* An error is reported once, as what it is.
ErrorsReportedOnce == ReportedOnce /\ ReportedAsWhatItIs

=============================================================================
