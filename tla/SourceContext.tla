----------------------------- MODULE SourceContext -----------------------------
(***************************************************************************)
(* The lines of source around the frames of an event                       *)
(* (instrumentation-exception/src/node/integrations/contextlines.ts): the  *)
(* files that events ask for are read concurrently into one cache of       *)
(* bounded size, and the lines are taken from the cache when the last read *)
(* of the event has ended.                                                 *)
(*                                                                         *)
(* A file's content is TRUE, and FALSE is the null of a file that could    *)
(* not be read.                                                            *)
(***************************************************************************)
EXTENDS Naturals, FiniteSets, SequencesExt

CONSTANTS
  Stacks,      \* what events may hold: per exception, the file of each frame
  NoFile,      \* a frame without a file
  Capacity,    \* of FILE_CONTENT_CACHE, 100 in the code
  MaxEvents,   \* bound: events in a behaviour
  MaxTroubled  \* bound: files that cannot be read at some time

VARIABLES
  contents,    \* FILE_CONTENT_CACHE: [file, found], the least recently used first
  events,      \* one record per event, in the order in which they came
  troubled     \* history: the files that could not be read at some time

vars == <<contents, events, troubled>>

Files == (UNION {UNION {Range(s[i]) : i \in DOMAIN s} : s \in Stacks}) \ {NoFile}

-----------------------------------------------------------------------------
(* The cache.                                                              *)

Cached(c, f) == \E i \in DOMAIN c : c[i].file = f
Found(c, f) == \E i \in DOMAIN c : c[i] = [file |-> f, found |-> TRUE]

\* get, which puts a file that is there behind the others
Get(c, f) ==
  IF Cached(c, f)
  THEN LET i == CHOOSE i \in DOMAIN c : c[i].file = f
       IN  Append(RemoveAt(c, i), c[i])
  ELSE c

\* set: room is made even when the file is there already, which keeps its place
Set(c, f, found) ==
  LET room == IF Len(c) >= Capacity THEN Tail(c) ELSE c
  IN  IF Cached(room, f)
      THEN [i \in DOMAIN room |-> IF room[i].file = f THEN [file |-> f, found |-> found]
                                  ELSE room[i]]
      ELSE Append(room, [file |-> f, found |-> found])

-----------------------------------------------------------------------------
(* The events.                                                             *)

Init == contents = <<>> /\ events = <<>> /\ troubled = {}

\* a plausible bug: the look into the cache does not count as a use
Visit_Peek(s, f) ==
  IF f = NoFile \/ f \in s.asked \/ Found(s.cache, f) THEN s
  ELSE [s EXCEPT !.asked = @ \cup {f},
                 !.reads = IF Cached(s.cache, f) THEN @ ELSE @ \cup {f}]

\* one frame of the first loop
Visit(s, f) ==
  IF f = NoFile \/ f \in s.asked THEN s
  ELSE [cache |-> Get(s.cache, f),
        asked |-> IF Found(s.cache, f) THEN s.asked ELSE s.asked \cup {f},
        reads |-> IF Cached(s.cache, f) THEN s.reads ELSE s.reads \cup {f}]

\* the frames of an exception, from the last one
Visited(s, frames) ==
  LET visited[n \in 0..Len(frames)] ==
        IF n = 0 THEN s ELSE Visit(visited[n - 1], frames[Len(frames) + 1 - n])
  IN  visited[Len(frames)]

\* the first loop: the exceptions in order
Scanned(stack) ==
  LET scanned[n \in 0..Len(stack)] ==
        IF n = 0 THEN [cache |-> contents, asked |-> {}, reads |-> {}]
        ELSE Visited(scanned[n - 1], stack[n])
  IN  scanned[Len(stack)]

Ended(e) == events[e].next > Len(events[e].stack)
Adding(e) == ~Ended(e) /\ events[e].reading = {}

\* addSourceContext up to where it waits for its reads
ProcessEvent(stack) ==
  LET s == Scanned(stack)
      alone == \A e \in DOMAIN events : Ended(e)
  IN  /\ Len(events) < MaxEvents
      /\ contents' = s.cache
      /\ events' = Append([e \in DOMAIN events |->
                             [events[e] EXCEPT !.alone = @ /\ Ended(e)]],
                          [stack |-> stack, reading |-> s.reads, next |-> 1,
                           lines |-> {}, alone |-> alone])
      /\ UNCHANGED troubled

\* A read of _readSourceFile ends.  It is a task of the event loop: an event that waits
\* for nothing goes on before.
ReadEnds(e, f, found) ==
  /\ f \in events[e].reading
  /\ \A o \in DOMAIN events : ~Adding(o)
  /\ contents' = Set(contents, f, found)
  /\ events' = [events EXCEPT ![e].reading = @ \ {f}]
  /\ troubled' = IF found THEN troubled ELSE troubled \cup {f}
  /\ Cardinality(troubled') <= MaxTroubled

\* what addSourceContextToFrames does to the cache
LookedUp(c, frames) ==
  LET seen[n \in 0..Len(frames)] ==
        IF n = 0 THEN c
        ELSE IF frames[n] = NoFile THEN seen[n - 1] ELSE Get(seen[n - 1], frames[n])
  IN  seen[Len(frames)]

\* addSourceContextToFrames of one exception; the await after it lets other events in
AddLines(e) ==
  LET n == events[e].next
      frames == events[e].stack[n]
  IN  /\ Adding(e)
      /\ contents' = LookedUp(contents, frames)
      /\ events' = [events EXCEPT
           ![e].next = n + 1,
           ![e].lines = @ \cup {<<n, i>> : i \in {j \in DOMAIN frames :
                                                    Found(contents, frames[j])}}]
      /\ UNCHANGED troubled

Next ==
  \/ \E s \in Stacks : ProcessEvent(s)
  \/ \E e \in DOMAIN events :
       \/ AddLines(e)
       \/ \E f \in events[e].reading, found \in BOOLEAN : ReadEnds(e, f, found)

Spec == Init /\ [][Next]_vars

-----------------------------------------------------------------------------
(* Properties.                                                             *)

TypeOK ==
  /\ contents \in Seq([file : Files, found : BOOLEAN]) /\ Len(contents) <= Capacity
  /\ \A i, j \in DOMAIN contents : contents[i].file = contents[j].file => i = j
  /\ \A e \in DOMAIN events :
       /\ events[e].stack \in Stacks /\ events[e].reading \subseteq Files
       /\ events[e].next \in 1..(Len(events[e].stack) + 1) /\ events[e].alone \in BOOLEAN
  /\ troubled \subseteq Files

FilesOf(e) == (UNION {Range(events[e].stack[i]) : i \in DOMAIN events[e].stack}) \ {NoFile}

\* The second loop may take it that the files of an event are in the cache
\* (contextlines.ts:95) when the event had the cache to itself and its files fit, however
\* full the cache was; and when all the files there are leave room in it, whatever other
\* events do meanwhile: every frame then gets its lines, unless its file could not be
\* read.
LinesOfEveryFrame ==
  \A e \in DOMAIN events :
    LET fits == \/ events[e].alone /\ Cardinality(FilesOf(e)) <= Capacity
                \/ Cardinality(UNION {FilesOf(o) : o \in DOMAIN events}) < Capacity
    IN  Ended(e) /\ fits =>
          \A n \in DOMAIN events[e].stack : \A i \in DOMAIN events[e].stack[n] :
            events[e].stack[n][i] \in {NoFile} \cup troubled \/ <<n, i>> \in events[e].lines

=============================================================================
