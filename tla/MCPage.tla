-------------------------------- MODULE MCPage --------------------------------
(***************************************************************************)
(* A page and what it may throw, log and report, for MCBrowserParts: the   *)
(* records of ErrorEvents and BrowserReports.                              *)
(***************************************************************************)
EXTENDS Sequences

\* The page: a document with an element that has an identifier, two images, texts and a
\* comment.
Node(parent, type, localName, id, position) ==
  [parent |-> parent, type |-> type, localName |-> localName, id |-> id,
   position |-> position]
Page ==
  [document |-> Node("none", "document", "", "", 1),
   html |-> Node("document", "element", "html", "", 1),
   main |-> Node("html", "element", "div", "main", 1),
   text |-> Node("main", "text", "", "", 1),
   first |-> Node("main", "element", "img", "", 2),
   note |-> Node("main", "comment", "", "", 3),
   second |-> Node("main", "element", "img", "", 4),
   tail |-> Node("main", "text", "", "", 5)]

\* Stacks of the page and of the SDK, which may be in one bundle.
Line(whose, file, function) ==
  [frame |-> TRUE, whose |-> whose, file |-> file, function |-> function]
Header == [frame |-> FALSE, whose |-> "header", file |-> "", function |-> ""]
Link == [frame |-> TRUE, whose |-> "header", file |-> "reactjs.org", function |-> ""]
PageCalls ==
  <<Line("page", "bundle", "f"), Line("page", "page", "f"),
    Line("framework", "framework-", "f"), Line("page", "bundle", "g")>>
SdkCalls ==
  <<Line("sdk", "bundle", "hdxReportString"), Line("sdk", "bundle", "hdxReport"),
    Line("sdk", "bundle", "anonymous")>>

\* An error that the filter drops or not, thrown by the page or by what the SDK calls.
Err(filtered) ==
  [is |-> "Error", text |-> "useful", name |-> <<"TypeError">>, message |-> <<"m">>,
   inner |-> <<>>, stack |-> <<Header>> \o PageCalls, minified |-> FALSE,
   framesToPop |-> 0, filtered |-> filtered]
Errs ==
  LET e == Err(FALSE) IN
  {e, [e EXCEPT !.name = <<"undefined">>], [e EXCEPT !.inner = << <<"inner">> >>],
   [e EXCEPT !.stack = <<Header>> \o SdkCalls \o PageCalls],
   [e EXCEPT !.stack = <<Link>> \o PageCalls, !.minified = TRUE],
   [e EXCEPT !.stack = <<Header, Line("helper", "page", "invariant")>> \o PageCalls,
             !.framesToPop = 1]}

\* Others: useless texts, or ones that break the code; an event of an image; errors
\* inside of something.
Text(t) ==
  [is |-> "other", text |-> t, message |-> <<t>>, parameterized |-> FALSE,
   filtered |-> FALSE]
Object(is, errors, target) ==
  [is |-> is, text |-> "error", message |-> <<>>, errors |-> errors,
   target |-> target, filtered |-> FALSE]
HandedOnPage ==
  Errs \cup {Text("useful"), [Text("useful") EXCEPT !.parameterized = TRUE]}
  \cup {Object("object", errors, "none") : errors \in {<<>>} \cup {<<e>> : e \in Errs}}
  \cup {[is |-> "ErrorEvent", text |-> "useful", message |-> <<"m">>, errors |-> <<>>,
         error |-> error, filtered |-> FALSE] : error \in {<<>>, <<Err(FALSE)>>}}
  \cup {[Err(FALSE) EXCEPT !.is = "DOMException", !.stack = stack, !.name = name] :
         stack \in {<<>>, PageCalls}, name \in {<<>>, <<"AbortError">>}}

=============================================================================
