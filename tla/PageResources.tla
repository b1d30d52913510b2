---------------------------- MODULE PageResources ----------------------------
(***************************************************************************)
(* Scripts and images that a callback adds to the page, and the spans of   *)
(* their loads                                                             *)
(* (packages/otel-web/src/SplunkPostDocLoadResourceInstrumentation.ts).    *)
(* The observer of the head keeps records of added nodes; the context      *)
(* manager calls the instrumentation before and after a callback, so that  *)
(* the records are taken in the context they belong to.                    *)
(*                                                                         *)
(* Nodes that load nothing leave no trace and are left out.                *)
(***************************************************************************)
EXTENDS Naturals, Sequences, SequencesExt

CONSTANTS
  Urls,     \* of scripts and images that are not ignored
  Traces,   \* contexts with a span
  NoTrace,  \* ROOT_CONTEXT, or no context at all
  MaxNest   \* bound: depth of calls of with

VARIABLES
  observer,   \* of the head: "none" yet, "connected" or "disconnected"
  loaded,     \* the page has loaded
  performing, \* the performance observer is connected
  nest,       \* the contexts of the calls of with under way
  records,    \* the URLs in records that were not taken
  contextOf,  \* urlToContextMap
  fetched,    \* the span of the latest load: its URL and parent; <<>>: none
  added,      \* history: the context with a span a URL was last added in
  left        \* history: URLs whose records outlived their callback, which threw,
              \* or were thrown away

prVars == <<observer, loaded, performing, nest, records, contextOf, fetched, added, left>>

PrTypeOK ==
  /\ observer \in {"none", "connected", "disconnected"}
  /\ loaded \in BOOLEAN /\ performing \in BOOLEAN
  /\ nest \in Seq(Traces \cup {NoTrace}) /\ Len(nest) <= MaxNest
  /\ records \subseteq Urls /\ left \subseteq Urls
  /\ {contextOf, added} \subseteq [Urls -> Traces \cup {NoTrace}]
  /\ fetched \in {<<>>} \cup Urls \X (Traces \cup {NoTrace})

Init ==
  /\ observer = "none" /\ loaded = FALSE /\ performing = FALSE
  /\ nest = <<>> /\ records = {} /\ fetched = <<>> /\ left = {}
  /\ contextOf = [u \in Urls |-> NoTrace] /\ added = contextOf

Active == IF nest = <<>> THEN NoTrace ELSE Last(nest)

\* _processHeadMutationObserverRecords, with the context that is active
ProcessRecords(urls) ==
  contextOf' = IF Active = NoTrace THEN contextOf
               ELSE [u \in Urls |-> IF u \in urls THEN Active ELSE contextOf[u]]

OnBeforeContextChange == ProcessRecords(records) /\ records' = {}

-----------------------------------------------------------------------------
\* enable; the load event may be over
Enable ==
  /\ observer = "none"
  /\ observer' = "connected"
  /\ UNCHANGED <<loaded, performing, nest, records, contextOf, fetched, added, left>>

PageLoads ==
  /\ nest = <<>> /\ ~loaded
  /\ loaded' = TRUE /\ performing' = (observer = "connected")
  /\ UNCHANGED <<observer, nest, records, contextOf, fetched, added, left>>

\* disable, from Rum.deinit: the observers are disconnected, and the records gone
Disable ==
  /\ observer = "connected"
  /\ observer' = "disconnected" /\ performing' = FALSE /\ records' = {}
  /\ left' = left \cup records
  /\ UNCHANGED <<loaded, nest, contextOf, fetched, added>>

\* mutant: the records are only taken when a context ends
With_AtEnd(c) ==
  /\ observer # "none" /\ Len(nest) < MaxNest
  /\ nest' = Append(nest, c)
  /\ UNCHANGED <<observer, loaded, performing, records, contextOf, fetched, added, left>>

\* with: the records of the calling code are taken before c is active
With(c) ==
  /\ observer # "none" /\ Len(nest) < MaxNest
  /\ OnBeforeContextChange
  /\ nest' = Append(nest, c)
  /\ UNCHANGED <<observer, loaded, performing, fetched, added, left>>

\* the callback of with returns
EndWith ==
  /\ nest # <<>>
  /\ OnBeforeContextChange
  /\ nest' = Front(nest)
  /\ UNCHANGED <<observer, loaded, performing, fetched, added, left>>

\* it throws, and onBeforeContextEnd is not called
ThrowFromWith ==
  /\ nest # <<>>
  /\ nest' = Front(nest) /\ left' = left \cup records
  /\ UNCHANGED <<observer, loaded, performing, records, contextOf, fetched, added>>

\* code adds a node to the head; without the observer nothing notices
AddNode(u) ==
  /\ observer = "connected"
  /\ records' = records \cup {u}
  /\ IF Active = NoTrace THEN UNCHANGED <<added, left>>
     ELSE added' = [added EXCEPT ![u] = Active] /\ left' = left \ {u}
  /\ UNCHANGED <<observer, loaded, performing, nest, contextOf, fetched>>

\* the callback of the observer, a microtask: no context is active
HeadMutated ==
  /\ nest = <<>> /\ records # {}
  /\ OnBeforeContextChange
  /\ UNCHANGED <<observer, loaded, performing, nest, fetched, added, left>>

\* the performance observer has the entry of a load: _createSpan
Resource(u) ==
  /\ performing /\ nest = <<>>
  /\ fetched' = <<u, contextOf[u]>>
  /\ UNCHANGED <<observer, loaded, performing, nest, records, contextOf, added, left>>

Next ==
  \/ Enable \/ PageLoads \/ Disable
  \/ \E c \in Traces \cup {NoTrace} : With(c)
  \/ EndWith \/ ThrowFromWith
  \/ \E u \in Urls : AddNode(u) \/ Resource(u)
  \/ HeadMutated

Spec == Init /\ [][Next]_prVars

-----------------------------------------------------------------------------
\* The load of a URL belongs to the context with a span that was active when a node
\* with this URL was last added, however calls of with are nested and whenever the
\* observer runs; code without a context that adds it again does not change that.
\* A callback that throws is the exception: the code takes its nodes for those of
\* the calling code
\* (SplunkPostDocLoadResourceInstrumentation.ts:119-158, SplunkContextManager.ts:751-770).
ResourcesInContext ==
  \A u \in Urls \ (records \cup left) : contextOf[u] = added[u]

=============================================================================
