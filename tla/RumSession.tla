----------------------------- MODULE RumSession -----------------------------
(***************************************************************************)
(* Session tracking of the browser SDK (packages/otel-web/src/session.ts): *)
(* the tabs of one origin share one session through the __rum_sid cookie.  *)
(* Each tab checks the cookie once per period, adopts the session it finds *)
(* or creates one, and renews the cookie when the user was active.  Tabs   *)
(* are separate processes: a tab's read and its write of document.cookie   *)
(* are two steps, and any other tab may come in between.                   *)
(*                                                                         *)
(* One clock tick stands for one minute.  Time is relative (ages and       *)
(* remaining lifetimes), so that the state space is finite without a bound *)
(* on the length of a behaviour.                                           *)
(***************************************************************************)
EXTENDS Integers

CONSTANTS
  Tabs,           \* the tabs (and iframes) of the origin that load the SDK
  Ids,            \* session ids; an id nobody holds any more is reused
  NoId,           \* rumSessionId = undefined, and "no cookie"
  MaxAge,         \* MaxSessionAgeMillis, in ticks
  Inactivity,     \* InactivityTimeoutSeconds, in ticks
  Period,         \* PeriodicCheckSeconds, in ticks
  MaxDelay,       \* how late an interval callback may finish, in ticks
  Punctual,       \* TRUE: callbacks are never later than MaxDelay
  MaxClockSteps   \* bound: times the wall clock is set back by one tick

ASSUME ConstAssumption ==
  /\ NoId \notin Ids
  /\ Period \in Nat \ {0}
  /\ MaxDelay \in Nat /\ MaxDelay < Period
  /\ MaxAge \in Nat /\ MaxAge > Period + MaxDelay
  /\ Inactivity \in Nat \ {0}
  /\ Punctual \in BOOLEAN
  /\ MaxClockSteps \in Nat

VARIABLES
  cookie,     \* id in the cookie, NoId when the browser has none
  ttl,        \* ticks until the browser drops the cookie
  age,        \* age[i] = Date.now() - startTime of session i
  phase,      \* "off", "idle", or "checking": inside updateSessionStatus,
              \* after the cookie was read and before it is renewed
  sid,        \* rumSessionId of each tab
  recent,     \* recentActivity of each tab
  due,        \* ticks until the tab's interval callback is due
  clockSteps, \* times the wall clock was set back
  idleFor,    \* history: ticks since the user was last active in the tab
  settled     \* history: ticks since the id in the cookie last changed

vars == <<cookie, ttl, age, phase, sid, recent, due, clockSteps, idleFor,
          settled>>

AgeCap     == MaxAge + Period + MaxDelay + 1
SettledCap == Period + MaxDelay + 1

CapAt(n, cap) == IF n > cap THEN cap ELSE n

TypeOK ==
  /\ cookie \in Ids \cup {NoId}
  /\ ttl \in 0..Inactivity
  /\ (cookie = NoId) <=> (ttl = 0)
  /\ age \in [Ids -> -1..AgeCap]
  /\ phase \in [Tabs -> {"off", "idle", "checking"}]
  /\ sid \in [Tabs -> Ids \cup {NoId}]
  /\ recent \in [Tabs -> BOOLEAN]
  /\ due \in [Tabs -> -MaxDelay..Period]
  /\ clockSteps \in 0..MaxClockSteps
  /\ idleFor \in [Tabs -> 0..Inactivity]
  /\ settled \in 0..SettledCap

Init ==
  /\ cookie = NoId
  /\ ttl = 0
  /\ age = [i \in Ids |-> 0]
  /\ phase = [t \in Tabs |-> "off"]
  /\ sid = [t \in Tabs |-> NoId]
  /\ recent = [t \in Tabs |-> FALSE]
  /\ due = [t \in Tabs |-> 0]
  /\ clockSteps = 0
  /\ idleFor = [t \in Tabs |-> 0]
  /\ settled = 0

-----------------------------------------------------------------------------
(* The functions of session.ts.                                            *)

Live(t) == phase[t] # "off"

\* mutant: the upper bound is not tested
PastMaxAge_FutureOnly(i) == age[i] < 0

\* mutant: the units of startTime and MaxSessionAgeMillis differ by one step
PastMaxAge_OneLate(i) == age[i] < 0 \/ age[i] > MaxAge + 1

\* pastMaxAge: the start lies in the future, or too far back
PastMaxAge(i) == age[i] < 0 \/ age[i] > MaxAge

\* parseCookieToSessionState returns a state only for such a cookie
Parses == cookie # NoId /\ ~PastMaxAge(cookie)

\* generateId(128) never returns an id that is still around
HeldIds == {cookie} \cup {sid[t] : t \in Tabs}
FreshIds == Ids \ HeldIds

NewSessionState(i) == i \in FreshIds /\ age' = [age EXCEPT ![i] = 0]

\* mutant: an id that is already known is not replaced by the cookie's
ReadCookie_KeepKnownId(t, active) ==
  /\ phase' = [phase EXCEPT ![t] = "checking"]
  /\ \/ /\ Parses
        /\ sid' = [sid EXCEPT ![t] = IF @ = NoId THEN cookie ELSE @]
        /\ recent' = [recent EXCEPT ![t] = active]
        /\ UNCHANGED age
     \/ /\ ~Parses
        /\ \E i \in Ids :
             /\ NewSessionState(i)
             /\ sid' = [sid EXCEPT ![t] = i]
        /\ recent' = [recent EXCEPT ![t] = TRUE]

\* updateSessionStatus up to the emit of session-changed; active is the value
\* of recentActivity on entry
ReadCookie(t, active) ==
  /\ phase' = [phase EXCEPT ![t] = "checking"]
  /\ \/ /\ Parses
        /\ sid' = [sid EXCEPT ![t] = cookie]
        /\ recent' = [recent EXCEPT ![t] = active]
        /\ UNCHANGED age
     \/ /\ ~Parses
        /\ \E i \in Ids :
             /\ NewSessionState(i)
             /\ sid' = [sid EXCEPT ![t] = i]
        /\ recent' = [recent EXCEPT ![t] = TRUE]

\* mutant: max-age is given in milliseconds
WriteCookie_Millis(i) ==
  /\ cookie' = i
  /\ ttl' = 1000 * Inactivity
  /\ settled' = IF i = cookie THEN settled ELSE 0

\* document.cookie = ... with max-age=InactivityTimeoutSeconds
WriteCookie(i) ==
  /\ cookie' = i
  /\ ttl' = Inactivity
  /\ settled' = IF i = cookie THEN settled ELSE 0

\* mutant: the cookie is only written when its value changes
RenewCookieTimeout_OnlyNewValue(t) ==
  \/ (PastMaxAge(sid[t]) \/ cookie = sid[t]) /\ UNCHANGED <<cookie, ttl, settled>>
  \/ ~PastMaxAge(sid[t]) /\ cookie # sid[t] /\ WriteCookie(sid[t])

RenewCookieTimeout(t) ==
  \/ PastMaxAge(sid[t]) /\ UNCHANGED <<cookie, ttl, settled>>
  \/ ~PastMaxAge(sid[t]) /\ WriteCookie(sid[t])

-----------------------------------------------------------------------------
(* Actions of a tab.                                                       *)

\* initSessionTracking: a page load, which counts as activity
InitSessionTracking(t) ==
  /\ phase[t] = "off"
  /\ ReadCookie(t, TRUE)
  /\ due' = [due EXCEPT ![t] = Period]
  /\ idleFor' = [idleFor EXCEPT ![t] = 0]
  /\ UNCHANGED <<cookie, ttl, clockSteps, settled>>

\* the interval callback starts
StartCheck(t) ==
  /\ phase[t] = "idle"
  /\ due[t] <= 0
  /\ ReadCookie(t, recent[t])
  /\ due' = [due EXCEPT ![t] = @ + Period]
  /\ UNCHANGED <<cookie, ttl, clockSteps, idleFor, settled>>

\* the rest of updateSessionStatus: renew if active, then reset the flag
FinishCheck(t) ==
  /\ phase[t] = "checking"
  /\ \/ recent[t] /\ RenewCookieTimeout(t)
     \/ ~recent[t] /\ UNCHANGED <<cookie, ttl, settled>>
  /\ recent' = [recent EXCEPT ![t] = FALSE]
  /\ phase' = [phase EXCEPT ![t] = "idle"]
  /\ UNCHANGED <<age, sid, due, clockSteps, idleFor>>

\* a click, key, scroll or visibility event of the tab
MarkActivity(t) ==
  /\ phase[t] = "idle"
  /\ recent' = [recent EXCEPT ![t] = TRUE]
  /\ idleFor' = [idleFor EXCEPT ![t] = 0]
  /\ UNCHANGED <<cookie, ttl, age, phase, sid, due, clockSteps, settled>>

\* deinit, or the tab is closed or navigates away
Deinit(t) ==
  /\ phase[t] = "idle"
  /\ phase' = [phase EXCEPT ![t] = "off"]
  /\ sid' = [sid EXCEPT ![t] = NoId]
  /\ due' = [due EXCEPT ![t] = 0]
  /\ UNCHANGED <<cookie, ttl, age, recent, clockSteps, idleFor, settled>>

-----------------------------------------------------------------------------
(* The browser, the clock and the user's cookie settings.                  *)

\* the browser drops the cookie: it ran out, or the user cleared it
ClearCookie ==
  /\ cookie # NoId
  /\ cookie' = NoId
  /\ ttl' = 0
  /\ settled' = 0
  /\ UNCHANGED <<age, phase, sid, recent, due, clockSteps, idleFor>>

\* the callback of t finishes in time even if one more tick passes first; the
\* interval is counted from the read, so due[t] is Period - lateness in a check
OnTime(t) ==
  /\ phase[t] = "idle" => due[t] > -MaxDelay
  /\ phase[t] = "checking" => due[t] > Period - MaxDelay

\* A minute passes.
Tick ==
  /\ Punctual => \A t \in Tabs : OnTime(t)
  /\ ttl' = IF ttl = 0 THEN 0 ELSE ttl - 1
  /\ cookie' = IF ttl <= 1 THEN NoId ELSE cookie
  /\ settled' = IF ttl = 1 THEN 0 ELSE CapAt(settled + 1, SettledCap)
  /\ age' = [i \in Ids |->
               IF i \in HeldIds THEN CapAt(age[i] + 1, AgeCap) ELSE 0]
  /\ due' = [t \in Tabs |->
               IF Live(t) /\ due[t] > -MaxDelay THEN due[t] - 1 ELSE due[t]]
  /\ idleFor' = [t \in Tabs |->
                   IF Live(t) THEN CapAt(idleFor[t] + 1, Inactivity) ELSE 0]
  /\ UNCHANGED <<phase, sid, recent, clockSteps>>

\* Date.now() is not monotonic: the wall clock is set back
ClockSetBack ==
  /\ clockSteps < MaxClockSteps
  /\ \A i \in Ids : age[i] >= 0
  /\ clockSteps' = clockSteps + 1
  /\ age' = [i \in Ids |-> age[i] - 1]
  /\ UNCHANGED <<cookie, ttl, phase, sid, recent, due, idleFor, settled>>

Next ==
  \/ \E t \in Tabs :
       \/ InitSessionTracking(t)
       \/ StartCheck(t)
       \/ FinishCheck(t)
       \/ MarkActivity(t)
       \/ Deinit(t)
  \/ ClearCookie
  \/ Tick
  \/ ClockSetBack

Spec == Init /\ [][Next]_vars

\* Time passes and interval callbacks run, however late; users and the wall
\* clock owe nothing.
Fairness ==
  /\ WF_vars(Tick)
  /\ \A t \in Tabs : WF_vars(StartCheck(t)) /\ WF_vars(FinishCheck(t))

FairSpec == Spec /\ Fairness

-----------------------------------------------------------------------------
(* Properties.                                                             *)

\* No tab reports under a session that is older than MaxAge by more than one
\* period and the lateness of its timer, although the in-memory id is refreshed
\* only by the interval callback (session.ts:133-147).
SessionAgeBound ==
  \A t \in Tabs : Live(t) => age[sid[t]] <= MaxAge + Period + MaxDelay

\* Two tabs can race to create a session, or one can write back a session the
\* other has replaced; whatever the cookie ends up with, a tab that still
\* reports another id does so for at most one period and the timer's lateness.
\* Once the clock was set back this may fail: a session that then starts in the
\* future is replaced by each tab on its own.
StaleIdBound ==
  clockSteps = 0 =>
    \A t \in Tabs :
      (phase[t] = "idle" /\ cookie # NoId /\ sid[t] # cookie)
        => settled <= Period + MaxDelay

\* A cookie times out only when each open tab was idle for the whole inactivity
\* timeout, or has activity that no periodic check has seen yet: activity that
\* a check has seen is never forgotten.  (Once the clock was set back, a session
\* that had been too old to be renewed may count as young again.)
ExpiryNeedsInactivity ==
  [][ (Tick /\ ttl = 1 /\ clockSteps = 0 /\ age[cookie] <= MaxAge)
        => \A t \in Tabs :
             phase[t] = "idle" => recent[t] \/ idleFor[t] >= Inactivity - 1 ]_vars

\* However late the timers of a throttled tab run, no tab stays for ever with
\* sessions past their maximum age (session.ts:133-147, 162-165).
Overaged(t) == Live(t) /\ age[sid[t]] > MaxAge
ExpiredSessionAbandoned == \A t \in Tabs : Overaged(t) ~> ~Overaged(t)

-----------------------------------------------------------------------------
(* What the header comment of session.ts says and the code does not do.    *)

\* session.ts:31-33: "tabs don't compete/race to do anything but set the
\* max-age": a write never replaces a valid session by another one.
TabsOnlySetMaxAge ==
  [][ (Parses /\ cookie' # NoId) => cookie' = cookie ]_vars

=============================================================================
