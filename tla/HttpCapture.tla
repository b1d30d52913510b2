----------------------------- MODULE HttpCapture -----------------------------
(***************************************************************************)
(* Capture of HTTP bodies in Node (packages/node-opentelemetry/src/        *)
(* instrumentations/http.ts): what is written to an outgoing message goes  *)
(* through patched write and end, what an incoming message delivers is     *)
(* piped into a stream of the capture's own as well.  The chunks are kept  *)
(* until the end; the body is put on the span unless it contains a keyword *)
(* that is on the deny list.                                               *)
(*                                                                         *)
(* One message.  A chunk is a piece of text; a body contains a keyword if  *)
(* the pieces, put together, do.  External: the streams of Node, which     *)
(* hand pieces on in order, and the http instrumentation, which calls the  *)
(* hooks and ends the span, after which attributes are ignored.            *)
(***************************************************************************)
EXTENDS Naturals, Sequences, SequencesExt

CONSTANTS
  Pieces,      \* pieces of a body, as they are written or arrive
  Keywords,    \* httpCaptureBodyKeywordsFilter, or the default deny list: each
               \* keyword is a sequence of pieces.  The body is compared in lower
               \* case, so a keyword of the filter that is not never matches.
  MaxPieces    \* bound: pieces of a body

VARIABLES
  message,     \* which hook: "clientRequest", "serverRequest", "serverResponse" or
               \* "clientResponse"
  encoding,    \* its content-encoding: "identity", "gzip" or "br"
  chunks,      \* what the capture has collected
  piped,       \* pieces on the way through the PassThrough; "end" is the last
  finished,    \* end was called, or the sender's end arrived
  garbled,      \* something that is no piece got among the chunks
  spanOpen,
  body         \* http.request.body or http.response.body of the span

hcVars == <<message, encoding, chunks, piped, finished, garbled, spanOpen, body>>

Messages == {"clientRequest", "serverRequest", "serverResponse", "clientResponse"}
Unset == [kind |-> "unset", text |-> <<>>]
Filtered == [kind |-> "filtered", text |-> <<>>]

HcTypeOK ==
  /\ message \in Messages /\ encoding \in {"identity", "gzip", "br"}
  /\ chunks \in Seq(Pieces) /\ piped \in Seq(Pieces \cup {"end"})
  /\ finished \in BOOLEAN /\ garbled \in BOOLEAN /\ spanOpen \in BOOLEAN
  /\ body \in [kind : {"unset", "filtered", "readable", "bytes"}, text : Seq(Pieces)]

InitWith(m, e) ==
  /\ message = m /\ encoding = e
  /\ chunks = <<>> /\ piped = <<>>
  /\ finished = FALSE /\ garbled = FALSE /\ spanOpen = TRUE
  /\ body = Unset

Init == \E m \in Messages, e \in {"identity", "gzip", "br"} : InitWith(m, e)

Outgoing == message \in {"clientRequest", "serverResponse"}

-----------------------------------------------------------------------------
(* The body.                                                               *)

HasKeyword(text, keyword) ==
  \E i \in 1..(Len(text) + 1 - Len(keyword)) :
    SubSeq(text, i, i + Len(keyword) - 1) = keyword

\* mutant: every piece is judged by itself
ShouldRecordBody_ByPiece(text) ==
  \A i \in DOMAIN text : \A k \in Keywords : ~HasKeyword(<<text[i]>>, k)

\* getShouldRecordBody: no keyword, wherever one piece ends and the next begins
ShouldRecordBody(text) == \A k \in Keywords : ~HasKeyword(text, k)

\* responses are decompressed, if they are gzip
Decoded == message \in {"serverResponse", "clientResponse"} /\ encoding = "gzip"

\* what can be read in the text the capture works on
Readable == encoding = "identity" \/ Decoded

\* The body that is put on the span: of compressed bytes no keyword can be read, and
\* so they are recorded.
Recorded(text) ==
  IF ~Readable THEN [kind |-> "bytes", text |-> text]
  ELSE IF ShouldRecordBody(text) THEN [kind |-> "readable", text |-> text]
  ELSE Filtered

\* At the end: Buffer.concat throws if something else is among the chunks, gunzipSync
\* if the body is cut off; both leave the span without a body.
SetBody(text, isGarbled, cut) ==
  body' = IF spanOpen /\ text # <<>> /\ ~isGarbled /\ ~(Decoded /\ cut)
          THEN Recorded(text) ELSE body

-----------------------------------------------------------------------------
(* Outgoing messages: the patched write and end.                           *)

\* write, also after end, which the stream then refuses; only the data is handed on:
\* an encoding or a callback of the caller is lost
Write(p) ==
  /\ Outgoing /\ Len(chunks) < MaxPieces
  /\ chunks' = Append(chunks, p)
  /\ UNCHANGED <<message, encoding, piped, finished, garbled, spanOpen, body>>

\* end(), end(data), or end(callback), whose callback gets among the chunks; it may be
\* called again, and judges the same chunks again
EndWith(data, callback) ==
  /\ Outgoing /\ Len(data) <= 1 /\ Len(chunks) + Len(data) <= MaxPieces
  /\ finished' = TRUE
  /\ chunks' = chunks \o data
  /\ garbled' = (garbled \/ callback)
  /\ SetBody(chunks', garbled', FALSE)
  /\ UNCHANGED <<message, encoding, piped, spanOpen>>

-----------------------------------------------------------------------------
(* Incoming messages: interceptReadableStream and the PassThrough.         *)

\* the stream flows, which an application that reads it makes it do
Arrive(p) ==
  /\ ~Outgoing /\ ~finished /\ Len(chunks) + Len(piped) < MaxPieces
  /\ piped' = Append(piped, p)
  /\ UNCHANGED <<message, encoding, chunks, finished, garbled, spanOpen, body>>

ArriveEnd ==
  /\ ~Outgoing /\ ~finished
  /\ finished' = TRUE /\ piped' = Append(piped, "end")
  /\ UNCHANGED <<message, encoding, chunks, garbled, spanOpen, body>>

\* the connection breaks: no end follows
Abort ==
  /\ ~Outgoing /\ ~finished
  /\ finished' = TRUE
  /\ UNCHANGED <<message, encoding, chunks, piped, garbled, spanOpen, body>>

\* data and end of the PassThrough; cut: the sender compressed less than a whole
PassThrough(cut) ==
  /\ piped # <<>> /\ piped' = Tail(piped)
  /\ IF Head(piped) = "end"
     THEN SetBody(chunks, FALSE, cut) /\ UNCHANGED chunks
     ELSE chunks' = Append(chunks, Head(piped)) /\ UNCHANGED body
  /\ UNCHANGED <<message, encoding, finished, garbled, spanOpen>>

\* the http instrumentation ends the span: when the message is over or fails
SpanEnds ==
  /\ spanOpen /\ spanOpen' = FALSE
  /\ UNCHANGED <<message, encoding, chunks, piped, finished, garbled, body>>

Next ==
  \/ \E p \in Pieces : Write(p) \/ Arrive(p)
  \/ \E data \in {<<>>} \cup {<<p>> : p \in Pieces}, callback \in BOOLEAN :
       (callback => data = <<>>) /\ EndWith(data, callback)
  \/ ArriveEnd \/ Abort
  \/ \E cut \in BOOLEAN : PassThrough(cut)
  \/ SpanEnds

Spec == Init /\ [][Next]_hcVars

-----------------------------------------------------------------------------
(* Properties.                                                             *)

\* No span has a body in which a keyword of the deny list can be read, however the
\* body was cut into chunks, compressed or ended; and a body that can be read is
\* complete, as far as it was written or came through (http.ts:52-64, 114-187,
\* 211-311).
NothingDeniedRecorded ==
  body.kind = "readable" =>
    /\ \A k \in Keywords : ~HasKeyword(body.text, k)
    /\ IsPrefix(body.text, chunks)
    /\ finished

=============================================================================
