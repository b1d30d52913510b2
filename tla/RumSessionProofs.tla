--------------------------- MODULE RumSessionProofs ---------------------------
(* Theorems about RumSession, for any number of tabs and any time constants. *)
EXTENDS RumSession, TLAPS

\* An open tab has an id.
IdInv ==
  \A t \in Tabs :
    /\ ~Live(t) => sid[t] = NoId
    /\ Live(t) => sid[t] \in Ids

\* What ties the id of a tab to the time left until its next check: the age of
\* the session when it was read, at most MaxAge, plus the time since then.
AgeInv ==
  \A t \in Tabs : Live(t) => age[sid[t]] + due[t] <= MaxAge + Period

\* A tab whose id is not the one in the cookie has read the cookie before it
\* last changed, or has just made up a session and is about to write it.
StaleInv ==
  \A t \in Tabs :
    Live(t) => \/ cookie = NoId
               \/ sid[t] = cookie
               \/ settled + due[t] <= Period
               \/ /\ phase[t] = "checking"
                  /\ recent[t]
                  /\ age[sid[t]] + due[t] <= Period

NoFuture == \A i \in Ids : age[i] >= 0

IInv ==
  /\ TypeOK
  /\ IdInv
  /\ Punctual => AgeInv
  /\ (Punctual /\ clockSteps = 0) => NoFuture /\ StaleInv

\* What reading the cookie in tab t does to ids and ages.
ReadFacts(t) ==
  /\ age' \in [Ids -> -1..AgeCap]
  /\ sid' \in [Tabs -> Ids \cup {NoId}]
  /\ recent' \in [Tabs -> BOOLEAN]
  /\ phase' = [phase EXCEPT ![t] = "checking"]
  /\ sid'[t] \in Ids
  /\ age'[sid'[t]] <= MaxAge
  /\ sid'[t] = cookie \/ (recent'[t] /\ age'[sid'[t]] = 0)
  /\ \A i \in Ids : age'[i] = age[i] \/ age'[i] = 0
  /\ \A u \in Tabs \ {t} : recent'[u] = recent[u]
  /\ \A u \in Tabs \ {t} : sid'[u] = sid[u]
  /\ \A u \in Tabs \ {t} : sid[u] \in Ids => age'[sid[u]] = age[sid[u]]

\* Reading the cookie keeps the types, and the id it yields is young enough.
LEMMA ReadCookieLemma ==
  ASSUME IInv, NEW t \in Tabs, NEW b \in BOOLEAN, ReadCookie(t, b)
  PROVE  ReadFacts(t)
<1>. USE ConstAssumption DEF IInv, TypeOK, AgeCap, ReadFacts
<1>1. CASE /\ Parses
           /\ sid' = [sid EXCEPT ![t] = cookie]
           /\ recent' = [recent EXCEPT ![t] = b]
           /\ UNCHANGED age
  BY <1>1 DEF ReadCookie, Parses, PastMaxAge
<1>2. CASE /\ ~Parses
           /\ \E i \in Ids : /\ NewSessionState(i)
                             /\ sid' = [sid EXCEPT ![t] = i]
           /\ recent' = [recent EXCEPT ![t] = TRUE]
  <2>1. PICK i \in Ids : NewSessionState(i) /\ sid' = [sid EXCEPT ![t] = i]
    BY <1>2
  <2>2. age' = [age EXCEPT ![i] = 0] /\ \A u \in Tabs : sid[u] # i
    BY <2>1 DEF NewSessionState, FreshIds, HeldIds
  <2>3. age' \in [Ids -> -1..AgeCap]
    BY <2>2
  <2>. QED  BY <1>2, <2>1, <2>2, <2>3 DEF ReadCookie
<1>. QED  BY <1>1, <1>2 DEF ReadCookie

LEMMA InitIInv == Init => IInv
BY ConstAssumption DEF Init, IInv, TypeOK, IdInv, AgeInv, StaleInv, NoFuture,
                       Live, AgeCap, SettledCap

\* A read by tab t, in a check or on page load, leaves t Period short of due at
\* most.
LEMMA ReadPreserves ==
  ASSUME IInv, NEW t \in Tabs, NEW d \in -MaxDelay..Period,
         ReadFacts(t), due' = [due EXCEPT ![t] = d],
         UNCHANGED <<cookie, ttl, clockSteps, settled>>,
         idleFor' \in [Tabs -> 0..Inactivity]
  PROVE  IInv'
<1>. USE ConstAssumption DEF IInv, ReadFacts, IdInv, Live, NoFuture
<1>1. TypeOK'  BY DEF TypeOK
<1>2. IdInv'  BY DEF TypeOK
<1>3. ASSUME Punctual  PROVE AgeInv'
  BY <1>3 DEF TypeOK, AgeInv
<1>4. ASSUME Punctual, clockSteps' = 0  PROVE NoFuture' /\ StaleInv'
  BY <1>4 DEF TypeOK, StaleInv
<1>. QED  BY <1>1, <1>2, <1>3, <1>4

LEMMA StepIInv == IInv /\ [Next]_vars => IInv'
<1>. SUFFICES ASSUME IInv, [Next]_vars  PROVE IInv'
  OBVIOUS
<1>. USE ConstAssumption DEF IInv, Live, IdInv, NoFuture
<1>1. ASSUME NEW t \in Tabs, InitSessionTracking(t)  PROVE IInv'
  <2>1. ReadFacts(t)
    BY <1>1, ReadCookieLemma DEF InitSessionTracking
  <2>2. Period \in -MaxDelay..Period /\ idleFor' \in [Tabs -> 0..Inactivity]
    BY <1>1 DEF InitSessionTracking, TypeOK
  <2>. QED  BY <1>1, <2>1, <2>2, ReadPreserves DEF InitSessionTracking
<1>2. ASSUME NEW t \in Tabs, StartCheck(t)  PROVE IInv'
  <2>1. recent[t] \in BOOLEAN /\ due[t] + Period \in -MaxDelay..Period
    BY <1>2 DEF StartCheck, TypeOK
  <2>2. ReadFacts(t)
    BY <1>2, <2>1, ReadCookieLemma DEF StartCheck
  <2>3. idleFor' \in [Tabs -> 0..Inactivity]
    BY <1>2 DEF StartCheck, TypeOK
  <2>. QED  BY <1>2, <2>1, <2>2, <2>3, ReadPreserves DEF StartCheck
<1>3. ASSUME NEW t \in Tabs, FinishCheck(t)  PROVE IInv'
  <2>. USE DEF FinishCheck, RenewCookieTimeout, WriteCookie
  <2>1. TypeOK'  BY <1>3 DEF TypeOK, SettledCap
  <2>2. IdInv'  BY <1>3 DEF TypeOK
  <2>3. ASSUME Punctual  PROVE AgeInv'
    BY <1>3, <2>3 DEF TypeOK, AgeInv
  <2>4. ASSUME Punctual, clockSteps' = 0  PROVE NoFuture' /\ StaleInv'
    BY <1>3, <2>4 DEF TypeOK, StaleInv, PastMaxAge
  <2>. QED  BY <2>1, <2>2, <2>3, <2>4
<1>4. ASSUME NEW t \in Tabs, MarkActivity(t)  PROVE IInv'
  BY <1>4 DEF MarkActivity, TypeOK, AgeInv, StaleInv
<1>5. ASSUME NEW t \in Tabs, Deinit(t)  PROVE IInv'
  BY <1>5 DEF Deinit, TypeOK, AgeInv, StaleInv
<1>6. CASE ClearCookie
  BY <1>6 DEF ClearCookie, SettledCap, TypeOK, AgeInv, StaleInv
<1>7. CASE Tick
  <2>. USE DEF Tick, CapAt
  <2>1. TypeOK'  BY <1>7 DEF TypeOK, SettledCap, AgeCap
  <2>2. IdInv'  BY <1>7
  <2>3. ASSUME NEW t \in Tabs, Live(t)  PROVE age'[sid[t]] <= age[sid[t]] + 1
    BY <1>7, <2>3 DEF HeldIds, TypeOK, AgeCap
  <2>4. ASSUME Punctual, NEW t \in Tabs, Live(t)  PROVE due'[t] = due[t] - 1
    BY <1>7, <2>4 DEF OnTime, TypeOK
  <2>5. ASSUME Punctual  PROVE AgeInv'
    BY <1>7, <2>1, <2>3, <2>4, <2>5 DEF TypeOK, AgeInv
  <2>6. cookie' = NoId \/ (cookie' = cookie /\ settled' <= settled + 1)
    BY <1>7 DEF TypeOK, SettledCap
  <2>7. ASSUME Punctual, clockSteps' = 0  PROVE StaleInv'
    BY <1>7, <2>1, <2>3, <2>4, <2>6, <2>7 DEF TypeOK, StaleInv
  <2>8. ASSUME NoFuture  PROVE NoFuture'
    BY <1>7, <2>8 DEF TypeOK, AgeCap
  <2>9. clockSteps' = clockSteps
    BY <1>7
  <2>. QED  BY <2>1, <2>2, <2>5, <2>7, <2>8, <2>9
<1>8. CASE ClockSetBack
  <2>. USE DEF ClockSetBack
  <2>1. TypeOK'  BY <1>8 DEF TypeOK, AgeCap
  <2>2. IdInv'  BY <1>8
  <2>3. ASSUME Punctual  PROVE AgeInv'
    BY <1>8, <2>3 DEF TypeOK, AgeInv
  <2>4. clockSteps' # 0  BY <1>8 DEF TypeOK
  <2>. QED  BY <2>1, <2>2, <2>3, <2>4
<1>9. CASE UNCHANGED vars
  BY <1>9 DEF vars, TypeOK, AgeInv, StaleInv
<1>. QED
  BY <1>1, <1>2, <1>3, <1>4, <1>5, <1>6, <1>7, <1>8, <1>9 DEF Next

LEMMA Invariance == Spec => []IInv
<1>1. Init => IInv                  BY InitIInv
<1>2. IInv /\ [Next]_vars => IInv'  BY StepIInv
<1>. QED  BY <1>1, <1>2, PTL DEF Spec

\* The variables of RumSession keep their types.
THEOREM TypeCorrect == Spec => []TypeOK
<1>1. IInv => TypeOK  BY DEF IInv
<1>. QED  BY <1>1, Invariance, PTL

\* For any number of tabs and whatever the interleaving of their reads and
\* writes, no tab reports under a session older than MaxAge plus one period and
\* the lateness of its timer (session.ts:54-57, 133-147).
THEOREM SessionAgeBounded ==
  ASSUME Punctual = TRUE
  PROVE  Spec => []SessionAgeBound
<1>1. IInv => SessionAgeBound
  BY ConstAssumption DEF IInv, TypeOK, IdInv, AgeInv, SessionAgeBound, AgeCap, Live
<1>. QED  BY <1>1, Invariance, PTL

\* Whatever races about the cookie the tabs run, a tab disagrees with the cookie
\* for at most one period and the lateness of its timer after the cookie's id
\* last changed, as long as the clock is not set back (session.ts:105-147).
THEOREM StaleIdBounded ==
  ASSUME Punctual = TRUE
  PROVE  Spec => []StaleIdBound
<1>1. IInv => StaleIdBound
  BY ConstAssumption DEF IInv, TypeOK, StaleInv, StaleIdBound, Live
<1>. QED  BY <1>1, Invariance, PTL

-----------------------------------------------------------------------------
(* Activity and the time-out of the cookie.                                *)

\* A cookie that is young enough to be renewed has been renewed no longer ago than
\* an idle tab without activity to report has been idle.  A tab that is inside its
\* check may have activity to report about the cookie it has read.
ActivityInv ==
  (cookie # NoId /\ age[cookie] <= MaxAge) =>
    \A t \in Tabs :
      /\ phase[t] = "idle" /\ ~recent[t] => idleFor[t] >= Inactivity - ttl
      /\ phase[t] = "checking" => \/ recent[t] /\ sid[t] = cookie
                                  \/ idleFor[t] >= Inactivity - ttl

ExpiryInv == clockSteps = 0 => NoFuture /\ ActivityInv

\* A read adopts the cookie, or finds none that is young enough.
LEMMA ReadKeepsActivity ==
  ASSUME TypeOK, IdInv, NoFuture, ActivityInv, NEW t \in Tabs, NEW b \in BOOLEAN,
         ReadCookie(t, b), phase[t] = "idle" => b = recent[t],
         phase[t] = "off" => b = TRUE, phase[t] # "checking",
         UNCHANGED <<cookie, ttl>>,
         \A u \in Tabs : u # t => idleFor'[u] = idleFor[u],
         phase[t] = "idle" => idleFor'[t] = idleFor[t]
  PROVE  NoFuture' /\ ActivityInv'
<1>. USE ConstAssumption DEF TypeOK, AgeCap
<1>1. phase' = [phase EXCEPT ![t] = "checking"]
  BY DEF ReadCookie
<1>2. CASE /\ Parses
           /\ sid' = [sid EXCEPT ![t] = cookie]
           /\ recent' = [recent EXCEPT ![t] = b]
           /\ UNCHANGED age
  BY <1>1, <1>2 DEF NoFuture, ActivityInv
<1>3. CASE /\ ~Parses
           /\ \E i \in Ids : /\ NewSessionState(i)
                             /\ sid' = [sid EXCEPT ![t] = i]
           /\ recent' = [recent EXCEPT ![t] = TRUE]
  <2>1. PICK i \in Ids : NewSessionState(i)
    BY <1>3
  <2>2. i # cookie /\ age' = [age EXCEPT ![i] = 0]
    BY <2>1 DEF NewSessionState, FreshIds, HeldIds
  <2>3. cookie # NoId => age[cookie] > MaxAge /\ age'[cookie] = age[cookie]
    BY <1>3, <2>2 DEF Parses, PastMaxAge, NoFuture
  <2>4. NoFuture'
    BY <2>2 DEF NoFuture
  <2>. QED  BY <2>3, <2>4 DEF ActivityInv
<1>. QED  BY <1>2, <1>3 DEF ReadCookie

LEMMA InitExpiryInv == Init => ExpiryInv
BY DEF Init, ExpiryInv, NoFuture, ActivityInv

LEMMA StepExpiryInv ==
  ASSUME TypeOK, IdInv, ExpiryInv, [Next]_vars
  PROVE  ExpiryInv'
<1>. SUFFICES ASSUME clockSteps' = 0 PROVE NoFuture' /\ ActivityInv'
  BY DEF ExpiryInv
<1>. USE ConstAssumption DEF NoFuture
<1>1. clockSteps' # clockSteps => ClockSetBack
  BY DEF Next, vars, InitSessionTracking, StartCheck, FinishCheck, MarkActivity, Deinit,
         ClearCookie, Tick
<1>2. ~ClockSetBack
  BY DEF ClockSetBack, TypeOK
<1>3. NoFuture /\ ActivityInv
  BY <1>1, <1>2 DEF ExpiryInv
<1>4. ASSUME NEW t \in Tabs, InitSessionTracking(t) PROVE NoFuture' /\ ActivityInv'
  BY <1>3, <1>4, ReadKeepsActivity DEF InitSessionTracking, TypeOK
<1>5. ASSUME NEW t \in Tabs, StartCheck(t) PROVE NoFuture' /\ ActivityInv'
  <2>1. recent[t] \in BOOLEAN
    BY DEF TypeOK
  <2>. QED  BY <1>3, <1>5, <2>1, ReadKeepsActivity DEF StartCheck
<1>6. ASSUME NEW t \in Tabs, FinishCheck(t) PROVE NoFuture' /\ ActivityInv'
  <2>1. phase[t] = "checking" /\ phase' = [phase EXCEPT ![t] = "idle"]
        /\ recent' = [recent EXCEPT ![t] = FALSE] /\ UNCHANGED <<age, sid, idleFor>>
    BY <1>6 DEF FinishCheck
  <2>2. CASE cookie' = sid[t] /\ ttl' = Inactivity
    BY <1>3, <2>1, <2>2 DEF TypeOK, ActivityInv
  <2>3. CASE UNCHANGED <<cookie, ttl>> /\ (recent[t] => age[sid[t]] > MaxAge)
    BY <1>3, <2>1, <2>3 DEF TypeOK, ActivityInv
  <2>4. sid[t] \in Ids /\ age[sid[t]] >= 0
    BY <1>3, <2>1 DEF IdInv, Live
  <2>5. \/ cookie' = sid[t] /\ ttl' = Inactivity
        \/ UNCHANGED <<cookie, ttl>> /\ (recent[t] => age[sid[t]] > MaxAge)
    BY <1>6, <2>4 DEF FinishCheck, RenewCookieTimeout, WriteCookie, PastMaxAge, TypeOK
  <2>. QED  BY <2>2, <2>3, <2>5
<1>7. ASSUME NEW t \in Tabs, MarkActivity(t) PROVE NoFuture' /\ ActivityInv'
  BY <1>3, <1>7 DEF MarkActivity, TypeOK, ActivityInv
<1>8. ASSUME NEW t \in Tabs, Deinit(t) PROVE NoFuture' /\ ActivityInv'
  BY <1>3, <1>8 DEF Deinit, TypeOK, ActivityInv
<1>9. CASE ClearCookie
  BY <1>3, <1>9 DEF ClearCookie, ActivityInv
<1>10. CASE Tick
  <2>1. NoFuture'
    BY <1>3, <1>10 DEF Tick, TypeOK, CapAt, AgeCap
  <2>. SUFFICES ASSUME cookie' # NoId, age'[cookie'] <= MaxAge,
                       NEW t \in Tabs, phase[t] # "off"
                PROVE  /\ phase[t] = "idle" /\ ~recent[t] => idleFor'[t] >= Inactivity - ttl'
                       /\ phase[t] = "checking" => \/ recent[t] /\ sid[t] = cookie'
                                                   \/ idleFor'[t] >= Inactivity - ttl'
    BY <1>10, <2>1 DEF Tick, ActivityInv
  <2>2. cookie' = cookie /\ cookie \in Ids /\ ttl > 1 /\ ttl' = ttl - 1
    BY <1>10 DEF Tick, TypeOK
  <2>3. age[cookie] <= MaxAge
    BY <1>10, <2>2 DEF Tick, TypeOK, CapAt, AgeCap, HeldIds
  <2>4. idleFor'[t] = Inactivity \/ idleFor'[t] = idleFor[t] + 1
    BY <1>10 DEF Tick, TypeOK, CapAt, Live
  <2>. QED  BY <1>3, <2>2, <2>3, <2>4 DEF ActivityInv, TypeOK
<1>11. CASE UNCHANGED vars
  BY <1>3, <1>11 DEF vars, ActivityInv
<1>. QED
  BY <1>2, <1>4, <1>5, <1>6, <1>7, <1>8, <1>9, <1>10, <1>11 DEF Next

\* When the cookie times out, every open tab was idle for the whole time-out or has
\* activity that its next check will see: no activity that a check has seen is
\* forgotten, however checks of several tabs race (session.ts:105-147).
THEOREM ActivityNotForgotten == Spec => ExpiryNeedsInactivity
<1>1. Init => ExpiryInv
  BY InitExpiryInv
<1>2. IInv /\ ExpiryInv /\ [Next]_vars => ExpiryInv'
  BY StepExpiryInv DEF IInv
<1>3. ASSUME IInv, ExpiryInv, [Next]_vars
      PROVE  [(Tick /\ ttl = 1 /\ clockSteps = 0 /\ age[cookie] <= MaxAge)
                => \A t \in Tabs :
                     phase[t] = "idle" => recent[t] \/ idleFor[t] >= Inactivity - 1]_vars
  BY <1>3 DEF IInv, TypeOK, ExpiryInv, ActivityInv
<1>. QED  BY Invariance, <1>1, <1>2, <1>3, PTL DEF Spec, ExpiryNeedsInactivity

=============================================================================
