---------------------------- MODULE LocalVariables ----------------------------
(***************************************************************************)
(* Local variables in the frames of a reported exception                   *)
(* (packages/instrumentation-exception/src/node/integrations/              *)
(* local-variables).  The program pauses at a throw, the variables of its  *)
(* frames are fetched one frame after the other, the program resumes.  The *)
(* result waits in a small cache, under the hash of the stack, for the     *)
(* event that reports the exception.  On Node 18 all of this happens in    *)
(* the thread that is paused ("sync"), later in a worker that sends the    *)
(* result back in a message.  A rate limiter turns the pauses at caught    *)
(* exceptions off for a while.                                             *)
(*                                                                         *)
(* Throws are numbered; frame i of throw n stands for its variables.  The  *)
(* worker's debugger port is open to others, who may resume the program.   *)
(***************************************************************************)
EXTENDS Integers, Sequences, FiniteSets

CONSTANTS
  Stacks,        \* what can be thrown: hash, calls (the debugger's frames, top
                 \* first: fn, local, inApp) and shown (the frames of error.stack:
                 \* numbers of calls, 0 for `new Promise`)
  NoHash,        \* the hash of something without a stack
  MaxPerSecond, FirstRetry, LongestRetry,  \* of the rate limiter
  CacheSize,     \* of the LRU map
  MaxFrames,     \* frames looked into by the sync session
  MaxThrows      \* bound: throws

VARIABLES
  impl,          \* "sync" or "worker", and captureAllExceptions
  session,       \* "off", "connected" (no limiter yet), "ready", "failed"
  limiter,       \* count, retrySeconds, disabledTimeout of createRateLimiter
  pauseOn,       \* Debugger.setPauseOnExceptions
  throws,        \* the stacks thrown so far
  pausedBy,      \* the throw the program is paused at, 0 if it runs
  captures,      \* calls of handlePaused under way: the throw, frames to do and done
  inbox,         \* messages of the worker
  cachedFrames,  \* oldest first: hash, throw and the frames captured
  shown,         \* per throw: <<frame of the event, throw, frame>> in its event
  reported,      \* throws whose events were processed
  captured,      \* history: throws whose frames were put into the cache
  broken         \* history: throws whose capture was given up

lvVars == <<impl, session, limiter, pauseOn, throws, pausedBy, captures, inbox,
            cachedFrames, shown, reported, captured, broken>>
cacheVars == <<inbox, cachedFrames, captured>>
eventVars == <<shown, reported>>
setupVars == <<impl, session>>
debugVars == <<pausedBy, captures, broken>>

Throws == 1..MaxThrows
Frames == UNION {DOMAIN s.calls : s \in Stacks}
NotLimited == [count |-> 0, retry |-> FirstRetry, off |-> 0]

TypeOK ==
  /\ impl \in [where : {"sync", "worker"}, all : BOOLEAN]
  /\ session \in {"off", "connected", "ready", "failed"}
  /\ limiter \in [count : 0..MaxThrows, retry : 1..LongestRetry, off : 0..LongestRetry]
  /\ pauseOn \in {"none", "uncaught", "all"}
  /\ throws \in Seq(Stacks) /\ Len(throws) <= MaxThrows
  /\ pausedBy \in 0..MaxThrows
  /\ captures \subseteq [throw : Throws, todo : SUBSET Frames, done : SUBSET Frames]
  /\ inbox \in Seq([throw : Throws, done : SUBSET Frames])
  /\ cachedFrames \in Seq([throw : Throws, done : SUBSET Frames])
  /\ shown \in [Throws -> SUBSET (Frames \X Throws \X Frames)]
  /\ {reported, captured, broken} \subseteq SUBSET Throws

InitWith(i) ==
  /\ impl = i
  /\ session = "off"
  /\ limiter = NotLimited
  /\ pauseOn = "none"
  /\ throws = <<>>
  /\ pausedBy = 0
  /\ captures = {}
  /\ inbox = <<>> /\ cachedFrames = <<>>
  /\ shown = [n \in Throws |-> {}]
  /\ reported = {} /\ captured = {} /\ broken = {}

Init == \E i \in [where : {"sync", "worker"}, all : BOOLEAN] : InitWith(i)

-----------------------------------------------------------------------------
(* Starting: setupOnce of the sync integration, setup and startDebugger.   *)

\* configureAndConnect and the limiter in one go, or Debugger.enable and
\* setPauseOnExceptions of the worker, whose limiter comes after their answer
Connect ==
  /\ session = "off"
  /\ session' = IF impl.where = "sync" THEN "ready" ELSE "connected"
  /\ pauseOn' = IF impl.all THEN "all" ELSE "uncaught"
  /\ UNCHANGED <<impl, limiter, throws, debugVars, cacheVars, eventVars>>

Answered ==
  /\ session = "connected"
  /\ session' = "ready"
  /\ UNCHANGED <<impl, limiter, pauseOn, throws, debugVars, cacheVars, eventVars>>

\* no inspector, or the worker does not start
FailToStart ==
  /\ session = "off"
  /\ session' = "failed"
  /\ UNCHANGED <<impl, limiter, pauseOn, throws, debugVars, cacheVars, eventVars>>

-----------------------------------------------------------------------------
(* A throw.                                                                *)

Calls(n) == throws[n].calls
Hash(n) == throws[n].hash

\* the frames that handlePaused goes through
Visited(s) ==
  {i \in DOMAIN s.calls : impl.where = "sync" => i <= MaxFrames}

\* the LRU map: set drops the oldest entry of a full map, then sets
CacheSet(n, frames) ==
  LET full == Len(cachedFrames) >= CacheSize
      kept == IF full THEN Tail(cachedFrames) ELSE cachedFrames
      at == {k \in DOMAIN kept : Hash(kept[k].throw) = Hash(n)}
      entry == [throw |-> n, done |-> frames] IN
  IF at = {} THEN Append(kept, entry)
  ELSE [k \in DOMAIN kept |-> IF k \in at THEN entry ELSE kept[k]]

\* createRateLimiter's increment; there is a limiter if captureAll is on
Counted ==
  IF session = "ready" /\ impl.all THEN [limiter EXCEPT !.count = @ + 1] ELSE limiter

\* Debugger.paused and the start of handlePaused
Throw(s, caught) ==
  LET n == Len(throws) + 1 IN
  /\ pausedBy = 0 /\ n <= MaxThrows
  /\ throws' = Append(throws, s)
  /\ IF pauseOn = "all" \/ (pauseOn = "uncaught" /\ ~caught)
     THEN /\ pausedBy' = n
          /\ captures' = captures \cup {[throw |-> n, done |-> {},
               todo |-> IF s.hash = NoHash THEN {} ELSE Visited(s)]}
          /\ limiter' = Counted
     ELSE UNCHANGED <<pausedBy, captures, limiter>>
  /\ UNCHANGED <<setupVars, pauseOn, broken, cacheVars, eventVars>>

\* the frame that is next: the callback list of the sync session runs from the
\* last to the first, the worker's loop from the first to the last
IsNext(c, i) ==
  \A j \in c.todo : IF impl.where = "sync" THEN i >= j ELSE i <= j

CaptureFrame(c) ==
  /\ \E i \in c.todo :
       /\ IsNext(c, i)
       /\ captures' = (captures \ {c}) \cup
                      {[c EXCEPT !.todo = @ \ {i}, !.done = @ \cup {i}]}
  /\ UNCHANGED <<setupVars, limiter, pauseOn, throws, pausedBy, broken, cacheVars,
                 eventVars>>

\* mutant: createCallbackList does not catch
Fail_Uncaught(c) ==
  /\ c.todo # {}
  /\ captures' = captures \ {c}
  /\ UNCHANGED broken

\* A request to the inspector fails.  The callback list calls complete with what it
\* has; the worker's promise is rejected and nothing follows.
Fail(c) ==
  /\ c.todo # {}
  /\ IF impl.where = "sync"
     THEN /\ captures' = (captures \ {c}) \cup {[c EXCEPT !.todo = {}]}
          /\ UNCHANGED broken
     ELSE /\ captures' = captures \ {c}
          /\ broken' = broken \cup {c.throw}

RequestFails(c) ==
  /\ Fail(c)
  /\ UNCHANGED <<setupVars, limiter, pauseOn, throws, pausedBy, cacheVars, eventVars>>

\* The end of handlePaused: the frames, unless there is no hash, go into the cache
\* or to the parent port, and execution resumes, also from a pause that is not its own
\* (the worker only asks isPaused).
Complete(c) ==
  /\ c.todo = {}
  /\ captures' = captures \ {c}
  /\ pausedBy' = 0
  /\ CASE Hash(c.throw) = NoHash -> UNCHANGED cacheVars
       [] impl.where = "sync" ->
            /\ cachedFrames' = CacheSet(c.throw, c.done)
            /\ captured' = captured \cup {c.throw}
            /\ UNCHANGED inbox
       [] OTHER ->
            /\ inbox' = Append(inbox, [throw |-> c.throw, done |-> c.done])
            /\ UNCHANGED <<cachedFrames, captured>>
  /\ UNCHANGED <<setupVars, limiter, pauseOn, throws, broken, eventVars>>

\* another client of the open debugger port resumes the program
ResumeByOther ==
  /\ impl.where = "worker" /\ pausedBy # 0
  /\ pausedBy' = 0
  /\ UNCHANGED <<setupVars, limiter, pauseOn, throws, captures, broken, cacheVars,
                 eventVars>>

\* worker.on('message')
Message ==
  /\ pausedBy = 0 /\ inbox # <<>>
  /\ inbox' = Tail(inbox)
  /\ cachedFrames' = CacheSet(Head(inbox).throw, Head(inbox).done)
  /\ captured' = captured \cup {Head(inbox).throw}
  /\ UNCHANGED <<setupVars, limiter, pauseOn, throws, debugVars, eventVars>>

-----------------------------------------------------------------------------
(* The interval of createRateLimiter.                                      *)

Capped(seconds) == IF seconds > LongestRetry THEN LongestRetry ELSE seconds

\* the second in which the limiter calls enable
Lifted == limiter.off = 1

Second ==
  /\ session = "ready" /\ impl.all
  /\ impl.where = "sync" => pausedBy = 0
  /\ IF limiter.off = 0
     THEN IF limiter.count > MaxPerSecond
          THEN /\ limiter' = [count |-> 0, retry |-> Capped(2 * limiter.retry),
                              off |-> Capped(2 * limiter.retry)]
               /\ pauseOn' = "uncaught"
          ELSE /\ limiter' = [limiter EXCEPT !.count = 0]
               /\ UNCHANGED pauseOn
     ELSE /\ limiter' = [limiter EXCEPT !.count = 0, !.off = @ - 1]
          /\ pauseOn' = IF Lifted THEN "all" ELSE pauseOn
  /\ UNCHANGED <<setupVars, throws, debugVars, cacheVars, eventVars>>

-----------------------------------------------------------------------------
(* addLocalVariablesToException.                                           *)

\* the frames of the event of stack s without `new Promise`, top first
EventFrames(s) == SelectSeq(s.shown, LAMBDA f : f # 0)

\* the pairs of frames the loop meets before it runs out of frames
Matched(n, entry) ==
  LET frames == EventFrames(throws[n])
      Has(i) == i \in entry.done \/ (i \in Visited(throws[entry.throw])
                                     /\ ~Calls(entry.throw)[i].local)
      Fn(f) == IF f = 0 THEN "new Promise" ELSE Calls(n)[f].fn IN
  {i \in DOMAIN frames :
     /\ \A j \in 1..i : j \in DOMAIN Calls(entry.throw) /\ Has(j)
     /\ Calls(entry.throw)[i].local
     /\ frames[i] = 0 \/ Calls(n)[frames[i]].inApp
     /\ Fn(frames[i]) = Calls(entry.throw)[i].fn}

\* mutant: cachedFrames.get, which keeps the entry
Without_Get(k) == cachedFrames

\* cachedFrames.remove
Without(k) == SubSeq(cachedFrames, 1, k - 1) \o SubSeq(cachedFrames, k + 1, Len(cachedFrames))

ProcessEvent(n) ==
  /\ n \in DOMAIN throws /\ n \notin reported
  /\ pausedBy = 0
  /\ reported' = reported \cup {n}
  /\ LET at == {k \in DOMAIN cachedFrames : Hash(cachedFrames[k].throw) = Hash(n)} IN
       IF (impl.where = "sync" /\ session # "ready") \/ Hash(n) = NoHash \/ at = {}
       THEN UNCHANGED <<shown, cachedFrames>>
       ELSE LET k == CHOOSE k \in at : TRUE
                entry == cachedFrames[k] IN
            /\ shown' = [shown EXCEPT ![n] =
                 {<<EventFrames(throws[n])[i], entry.throw, i>> : i \in Matched(n, entry)}]
            /\ cachedFrames' = Without(k)
  /\ UNCHANGED <<setupVars, limiter, pauseOn, throws, debugVars, inbox, captured>>

Next ==
  \/ Connect \/ Answered \/ FailToStart
  \/ \E s \in Stacks, caught \in BOOLEAN : Throw(s, caught)
  \/ \E c \in captures : CaptureFrame(c) \/ RequestFails(c) \/ Complete(c)
  \/ ResumeByOther
  \/ Message
  \/ Second
  \/ \E n \in Throws : ProcessEvent(n)

Spec == Init /\ [][Next]_lvVars

-----------------------------------------------------------------------------
(* Properties.                                                             *)

\* A program that is paused will be resumed: the capture of that very pause is
\* under way, unless a request of the worker was rejected, and then nobody resumes
\* it (local-variables-sync.ts:75-84, 122-127, worker.ts:179-191).
PausedIsAttendedTo ==
  pausedBy # 0 => \/ \E c \in captures : c.throw = pausedBy
                  \/ impl.where = "worker" /\ pausedBy \in broken

\* The variables in an event were captured at the place where its exception was
\* thrown, stand at the frames they belong to, and stand in no other event; in
\* the sync session they are those of the exception itself, unless it was not
\* captured or the same place threw again before the event was processed
\* (local-variables-sync.ts:273-319, 367-372).
VariablesBelong ==
  /\ \A n \in Throws : \A v \in shown[n] :
       /\ Hash(v[2]) = Hash(n)
       /\ v[1] = v[3]
       /\ impl.where = "sync" /\ n \in captured => v[2] >= n
  /\ \A n, m \in Throws : n # m =>
       {v[2] : v \in shown[n]} \cap {v[2] : v \in shown[m]} = {}

=============================================================================
