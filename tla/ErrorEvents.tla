----------------------------- MODULE ErrorEvents -----------------------------
(***************************************************************************)
(* What the report of an error says: eventbuilder.ts makes an event of     *)
(* whatever was thrown, the integrations of browser/index.ts complete it,  *)
(* and the path of an element names the one an event is about              *)
(* (packages/instrumentation-exception/src/browser).                       *)
(*                                                                         *)
(* Texts are sequences of words.  What is thrown is a record: "is" says    *)
(* which of the types the code tells apart it has.  An Error has a name, a *)
(* message, inner (the message of the error in its message, if that is an  *)
(* object: a sequence of one), a stack, minified (its message is that of a *)
(* minified React error) and framesToPop; an ErrorEvent the error, or      *)
(* none; an object or event those of its properties that are errors.       *)
(* A stack is a sequence of lines, innermost first.  Left out: what        *)
(* depends on a client of Sentry (there is none), the source lines of      *)
(* frames, tags, and the linking of causes, which asks the hint for the    *)
(* error and does not find it there.                                       *)
(***************************************************************************)
EXTENDS Naturals, Sequences, SequencesExt, FiniteSets

CONSTANTS
  Dom,      \* the nodes of the page: parent, type, localName, id and position
  NoNode    \* the parent of the document, and the target of some events

Undefined == <<"undefined">>
NoFile == ""

AnEvent(message, exceptions) == [message |-> message, exceptions |-> exceptions]

-----------------------------------------------------------------------------
(* Exceptions.                                                             *)

\* createStackParser of Sentry: lines to skip, frames to pop, innermost frame last
StackParser(stack, skip, pop) ==
  LET frames == SelectSeq(SubSeq(stack, skip + 1, Len(stack)), LAMBDA l : l.frame) IN
  Reverse(SubSeq(frames, pop + 1, Len(frames)))

\* the first line of the stack of a minified React error holds a link
GetSkipFirstStackStringLines(ex) == IF ex.minified THEN 1 ELSE 0

ParseStackFrames(ex) ==
  StackParser(ex.stack, GetSkipFirstStackStringLines(ex), ex.framesToPop)

ExtractMessage(ex) ==
  IF ex.inner # <<>> THEN ex.inner[1]
  ELSE IF ex.message = <<>> THEN <<"No error message">> ELSE ex.message

ExceptionFromError(ex) ==
  LET message == ExtractMessage(ex) IN
  [type |-> ex.name,
   value |-> IF ex.name = Undefined /\ message = <<>>
             THEN <<"Unrecoverable error caught">> ELSE message,
   frames |-> ParseStackFrames(ex)]

EventFromError(ex) == AnEvent(<<>>, <<ExceptionFromError(ex)>>)

-----------------------------------------------------------------------------
(* Events.                                                                 *)

GetNonErrorObjectExceptionValue(v) ==
  CASE v.is = "ErrorEvent" -> <<"Event ErrorEvent captured with message">> \o v.message
    [] v.is = "Event" -> <<"Event captured">>
    [] OTHER -> <<"Object captured with keys">>

\* the first property that is an error stands for the object
EventFromPlainObject(v) ==
  IF v.errors # <<>> THEN EventFromError(v.errors[1])
  ELSE AnEvent(<<>>,
         <<[type |-> IF v.is = "object" THEN <<"Error">> ELSE <<v.is>>,
            value |-> GetNonErrorObjectExceptionValue(v), frames |-> <<>>]>>)

\* a parameterized string goes to logentry
EventFromString(text, parameterized) ==
  AnEvent(IF parameterized THEN <<>> ELSE text, <<>>)

\* addExceptionTypeValue of Sentry, for an event without an exception
AddExceptionTypeValue(event, value) ==
  [event EXCEPT !.exceptions =
     <<[type |-> <<"Error">>, value |-> value, frames |-> <<>>]>>]

\* of a DOMException without a stack
DomMessage(v) ==
  (IF v.name = <<>> THEN <<"DOMException">> ELSE v.name) \o v.message

EventFromUnknownInput(v) ==
  IF v.is = "ErrorEvent" /\ v.error # <<>> THEN EventFromError(v.error[1])
  ELSE IF v.is = "DOMException" /\ v.stack = <<>>
  THEN AddExceptionTypeValue(EventFromString(DomMessage(v), FALSE), DomMessage(v))
  ELSE IF v.is \in {"DOMException", "Error"} THEN EventFromError(v)
  ELSE IF v.is \in {"object", "Event", "ErrorEvent"} THEN EventFromPlainObject(v)
  ELSE AddExceptionTypeValue(EventFromString(v.message, v.parameterized), v.message)

-----------------------------------------------------------------------------
(* hyperdxIntegration.                                                     *)

SdkReports ==
  {"hdxReportString", "hdxReportError", "hdxReportErrorEvent", "hdxReportEvent"}

\* mutant: the file is not forgotten with its frame
FilteredFrames_KeepFile(frames) ==
  LET Step(f, acc) ==
        IF f.file = "framework-" \/ f.function \in SdkReports THEN acc
        ELSE IF f.function = "hdxReport" THEN [acc EXCEPT !.remove = f.file]
        ELSE IF acc.remove # NoFile /\ f.file = acc.remove THEN acc
        ELSE [acc EXCEPT !.kept = <<f>> \o @] IN
  FoldRight(Step, frames, [kept |-> <<>>, remove |-> NoFile]).kept

\* Without frames of frameworks and of the SDK; the frame that called hdxReport is
\* known by its file only.
FilteredFrames(frames) ==
  LET Step(f, acc) ==
        IF f.file = "framework-" \/ f.function \in SdkReports THEN acc
        ELSE IF f.function = "hdxReport" THEN [acc EXCEPT !.remove = f.file]
        ELSE IF acc.remove # NoFile /\ f.file = acc.remove THEN [acc EXCEPT !.remove = NoFile]
        ELSE [acc EXCEPT !.kept = <<f>> \o @] IN
  FoldRight(Step, frames, [kept |-> <<>>, remove |-> NoFile]).kept

GetPossibleEventMessages(event) ==
  LET last == Last(event.exceptions) IN
  (IF event.message = <<>> THEN <<>> ELSE <<event.message>>)
  \o (IF last.value = <<>> THEN <<>> ELSE <<last.value>>)
  \o (IF last.value = <<>> \/ last.type \in {<<>>, Undefined} THEN <<>>
      ELSE <<last.type \o last.value>>)

HyperdxIntegration(event) ==
  LET messages == GetPossibleEventMessages(event) IN
  [message |-> IF messages = <<>> THEN event.message ELSE Last(messages),
   exceptions |->
     [i \in DOMAIN event.exceptions |->
        [event.exceptions[i] EXCEPT !.frames = FilteredFrames(@)]]]

BuildEventFromException(v) == HyperdxIntegration(EventFromUnknownInput(v))

\* without a message the type and the transaction, of which there is none
GetSpanNameFromEvent(event) ==
  IF event.message # <<>> THEN event.message ELSE event.exceptions[1].type

-----------------------------------------------------------------------------
(* The path of an element: a step has the name of the node, or "//" for    *)
(* the document and its attribute id, and an index, 0 for none.            *)

\* among the nodes of the same type and name; only CDATA sections count texts in
GetNodeIndex(n) ==
  IF Dom[n].parent = NoNode THEN 0
  ELSE Cardinality({s \in DOMAIN Dom :
         /\ Dom[s].parent = Dom[n].parent /\ Dom[s].position <= Dom[n].position
         /\ Dom[s].localName = Dom[n].localName
         /\ \/ Dom[s].type = Dom[n].type
            \/ Dom[n].type = "cdata" /\ Dom[s].type = "text"})

GetNodeValue(n, optimised) ==
  LET index == IF GetNodeIndex(n) > 1 THEN GetNodeIndex(n) ELSE 0 IN
  CASE Dom[n].type = "element" ->
         IF optimised /\ Dom[n].id # "" THEN [id |-> Dom[n].id]
         ELSE [name |-> Dom[n].localName, index |-> index]
    [] Dom[n].type \in {"text", "cdata"} -> [name |-> "text()", index |-> index]
    [] Dom[n].type = "comment" -> [name |-> "comment()", index |-> index]

\* the identifiers of ancestors are not used
AncestorPath[n \in DOMAIN Dom] ==
  IF Dom[n].type = "document" THEN << [name |-> "/", index |-> 0] >>
  ELSE (IF Dom[n].parent = NoNode THEN <<>> ELSE AncestorPath[Dom[n].parent])
       \o <<GetNodeValue(n, FALSE)>>

GetElementXPath(n, optimised) ==
  IF Dom[n].type # "document" /\ "id" \in DOMAIN GetNodeValue(n, optimised)
  THEN <<GetNodeValue(n, optimised)>>
  ELSE AncestorPath[n]

=============================================================================
