------------------------ MODULE SessionRecorderProofs ------------------------
(* Theorems about SessionRecorder, for any bounds: the numbering of logs, the *)
(* timers of the queues, the sessions that logs are filed under, what a replay *)
(* begins with, and the delivery contract.                                    *)
EXTENDS SessionRecorder, SequenceTheorems, TLAPS

\* Consecutive logs: the next offset, or a later session that starts over.
Follows(a, b) ==
  \/ b.offset = a.offset + 1
  \/ b.offset = 1 /\ b.sess # a.sess

Dense(s) == \A k \in 1..Len(s) - 1 : Follows(s[k], s[k + 1])

\* A log's numbers are no larger than its place, its session no later than the
\* current one.
Placed(l, k) ==
  /\ l.event <= l.offset
  /\ l.offset <= k
  /\ l.sess <= session

\* The counters continue the log l, or have been reset for a later session.
Continues(r, l) ==
  /\ l.sess <= r.known
  /\ \/ r.logCounter = l.offset + 1
     \/ r.logCounter = 1 /\ l.sess < r.known

\* The counters of r are right for the logs s.
Numbered(r, s) ==
  /\ Dense(s)
  /\ \A k \in 1..Len(s) : Placed(s[k], k)
  /\ Len(s) > 0 => Continues(r, s[Len(s)])
  /\ r.eventCounter <= r.logCounter
  /\ r.logCounter <= Len(s) + 1
  /\ r.known <= session

\* A queue that holds logs is armed, and the armed ones have one timer each.
TimersFit(ps, ts) ==
  /\ \A p \in 1..Len(ps) : Len(ps[p].logs) > 0 => ps[p].armed
  /\ \A p \in 1..Len(ps) : ps[p].armed <=> \E k \in 1..Len(ts) : ts[k] = p
  /\ \A j, k \in 1..Len(ts) : ts[j] = ts[k] => j = k

\* What is queued was recorded under this session or an earlier one.
QueuesFit(ps) ==
  \A p \in 1..Len(ps) : \A i \in 1..Len(ps[p].logs) : ps[p].logs[i].sess <= session

SentFits ==
  \A k \in 1..Len(sent) :
    /\ sent[k].stamp <= session
    /\ \A i \in 1..Len(sent[k].logs) : sent[k].logs[i].sess <= sent[k].stamp

IInv ==
  /\ TypeOK
  /\ inited => Len(procs) > 0
  /\ Numbered(rec, recorded)
  /\ TimersFit(procs, timers)
  /\ QueuesFit(procs)
  /\ SentFits

\* Logs and emit states before the bound on the number of logs is applied.
WideLog == [sess : 1..MaxSessions, offset : Nat \ {0}, event : Nat \ {0},
            chunk : 1..MaxChunks, total : 1..MaxChunks, kind : {"full", "incr"}]

EmitRec == [known : 0..MaxSessions, age : 0..MaxRec + 1,
            eventCounter : Nat \ {0}, logCounter : Nat \ {0},
            gap : {"none", "paused", "other"}, out : Seq(WideLog)]

EmitFits(r) == r \in EmitRec /\ Numbered(r, recorded \o r.out)

Proc == [logs : Seq(Log), armed : BOOLEAN]

\* What holds of the recorder and its queues after an emit.
Committed ==
  /\ rec' \in [known : 0..MaxSessions, age : 0..MaxRec + 1,
               eventCounter : 1..MaxLogs + 1, logCounter : 1..MaxLogs + 1]
  /\ gap' \in {"none", "paused", "other"}
  /\ recorded' \in Seq(Log)
  /\ procs' \in Seq(Proc)
  /\ timers' \in Seq(1..Len(procs'))
  /\ Numbered(rec, recorded)'
  /\ TimersFit(procs, timers)'
  /\ QueuesFit(procs)'

-----------------------------------------------------------------------------
(* Sequences.                                                              *)

LEMMA ConcatFacts ==
  ASSUME NEW S, NEW s \in Seq(S), NEW t \in Seq(S)
  PROVE  /\ s \o t \in Seq(S)
         /\ Len(s \o t) = Len(s) + Len(t)
         /\ \A i \in 1..Len(s) : (s \o t)[i] = s[i]
         /\ \A i \in 1..Len(t) : (s \o t)[Len(s) + i] = t[i]
         /\ \A i \in 1..Len(s) + Len(t) :
              (s \o t)[i] = IF i <= Len(s) THEN s[i] ELSE t[i - Len(s)]
BY ConcatProperties

LEMMA ConcatRegroup ==
  ASSUME NEW S, NEW s \in Seq(S), NEW t \in Seq(S), NEW u \in Seq(S)
  PROVE  s \o (t \o u) = (s \o t) \o u
BY ConcatAssociative

\* Dense logs followed by dense ones that go on where the first ones end.
LEMMA DenseConcat ==
  ASSUME NEW s \in Seq(WideLog), NEW t \in Seq(WideLog), Dense(s), Dense(t),
         Len(s) > 0 /\ Len(t) > 0 => Follows(s[Len(s)], t[1])
  PROVE  Dense(s \o t)
<1>. DEFINE u == s \o t
<1>1. /\ Len(s) \in Nat /\ Len(t) \in Nat /\ Len(u) = Len(s) + Len(t)
      /\ \A i \in 1..Len(s) + Len(t) : u[i] = IF i <= Len(s) THEN s[i] ELSE t[i - Len(s)]
  BY ConcatFacts
<1>. SUFFICES ASSUME NEW k \in 1..Len(u) - 1
              PROVE  Follows(u[k], u[k + 1])
  BY DEF Dense
<1>. HIDE DEF u
<1>2. CASE k < Len(s)
  <2>1. k \in 1..Len(s) - 1 /\ u[k] = s[k] /\ u[k + 1] = s[k + 1]
    BY <1>1, <1>2
  <2>. QED  BY <2>1 DEF Dense
<1>3. CASE k = Len(s)
  <2>1. Len(s) > 0 /\ Len(t) > 0 /\ u[k] = s[Len(s)] /\ u[k + 1] = t[1]
    BY <1>1, <1>3
  <2>. QED  BY <2>1
<1>4. CASE k > Len(s)
  <2>1. /\ k - Len(s) \in 1..Len(t) - 1
        /\ u[k] = t[k - Len(s)]
        /\ u[k + 1] = t[(k - Len(s)) + 1]
    BY <1>1, <1>4
  <2>. QED  BY <2>1 DEF Dense
<1>. QED  BY <1>1, <1>2, <1>3, <1>4

-----------------------------------------------------------------------------
(* Emitting.                                                               *)

LEMMA ChunkFacts ==
  ASSUME NEW r \in EmitRec, r.known \in 1..MaxSessions,
         NEW kind \in {"full", "incr"}, NEW n \in 1..MaxChunks
  PROVE  LET c == ChunkLogs(r, kind, n) IN
         /\ c \in Seq(WideLog)
         /\ Len(c) = n
         /\ \A i \in 1..n : /\ c[i].sess = r.known
                            /\ c[i].offset = r.logCounter + i - 1
                            /\ c[i].event = r.eventCounter
         /\ Dense(c)
<1>. DEFINE c == ChunkLogs(r, kind, n)
<1>1. MaxChunks \in Nat
  BY ConstAssumption
<1>2. /\ r.logCounter \in Nat \ {0} /\ r.eventCounter \in Nat \ {0}
      /\ n \in Nat
  BY <1>1 DEF EmitRec
<1>3. c = [i \in 1..n |-> [sess |-> r.known, offset |-> r.logCounter + i - 1,
            event |-> r.eventCounter, chunk |-> i, total |-> n, kind |-> kind]]
  BY DEF ChunkLogs
<1>4. \A i \in 1..n : c[i] \in WideLog
  BY <1>1, <1>2, <1>3 DEF WideLog
<1>5. c \in [1..n -> WideLog]
  BY <1>3, <1>4
<1>6. c \in Seq(WideLog) /\ Len(c) = n
  BY <1>2, <1>5
<1>7. \A i \in 1..n : /\ c[i].sess = r.known
                      /\ c[i].offset = r.logCounter + i - 1
                      /\ c[i].event = r.eventCounter
  BY <1>3
<1>8. Dense(c)
  <2>. HIDE DEF c
  <2>1. \A k \in 1..n - 1 : c[k + 1].offset = c[k].offset + 1
    BY <1>2, <1>7
  <2>. QED  BY <1>6, <2>1 DEF Dense, Follows
<1>. QED  BY <1>6, <1>7, <1>8

LEMMA RecordedWide ==
  ASSUME TypeOK
  PROVE  recorded \in Seq(WideLog)
<1>1. 1..MaxLogs \subseteq Nat \ {0}
  BY ConstAssumption
<1>2. Log \subseteq WideLog
  BY <1>1 DEF Log, WideLog
<1>3. recorded \in Seq(Log)
  BY DEF TypeOK
<1>. QED  BY <1>2, <1>3, SeqMonotonic

\* What recording n chunks does to the emit state.
LEMMA RecordFields ==
  ASSUME NEW r \in EmitRec, NEW kind \in {"full", "incr"}, NEW n \in Nat, n >= 1,
         ChunkLogs(r, kind, n) \in Seq(WideLog)
  PROVE  LET q == Record(r, kind, n) IN
         /\ q.known = r.known
         /\ q.eventCounter = r.eventCounter + 1
         /\ q.logCounter = r.logCounter + n
         /\ q.out = r.out \o ChunkLogs(r, kind, n)
         /\ q \in EmitRec
<1>. DEFINE o == r.out \o ChunkLogs(r, kind, n)
            g == IF kind = "full" THEN "none" ELSE r.gap
            q == [r EXCEPT !.eventCounter = @ + 1, !.logCounter = @ + n, !.out = o,
                           !.gap = g]
<1>1. Record(r, kind, n) = q
  BY DEF Record
<1>2. o \in Seq(WideLog)
  BY ConcatFacts DEF EmitRec
<1>3. g \in {"none", "paused", "other"}
  BY DEF EmitRec
<1>. HIDE DEF o, g
<1>4. /\ r.eventCounter + 1 \in Nat \ {0}
      /\ r.logCounter + n \in Nat \ {0}
  BY DEF EmitRec
<1>5. /\ q.known = r.known
      /\ q.eventCounter = r.eventCounter + 1
      /\ q.logCounter = r.logCounter + n
      /\ q.out = o
  BY DEF EmitRec
<1>6. q \in EmitRec
  BY <1>2, <1>3, <1>4 DEF EmitRec
<1>. QED  BY <1>1, <1>5, <1>6 DEF o

\* An emit state that is about to record n chunks under the current session.
LEMMA RecordFits ==
  ASSUME TypeOK, NEW r \in EmitRec, EmitFits(r), r.known = session,
         NEW kind \in {"full", "incr"}, NEW n \in 1..MaxChunks
  PROVE  EmitFits(Record(r, kind, n)) /\ Record(r, kind, n).known = session
<1>. DEFINE c == ChunkLogs(r, kind, n)
            s == recorded \o r.out
            q == Record(r, kind, n)
            u == s \o c
<1>1. n \in Nat /\ n >= 1 /\ session \in 1..MaxSessions /\ session \in Nat
  BY ConstAssumption DEF TypeOK
<1>2. recorded \in Seq(WideLog) /\ r.out \in Seq(WideLog)
  BY RecordedWide DEF EmitRec
<1>3. s \in Seq(WideLog) /\ Len(s) \in Nat
  BY <1>2, ConcatFacts
<1>4. /\ c \in Seq(WideLog) /\ Len(c) = n
      /\ \A i \in 1..n : /\ c[i].sess = session
                         /\ c[i].offset = r.logCounter + i - 1
                         /\ c[i].event = r.eventCounter
      /\ Dense(c)
  BY <1>1, ChunkFacts
<1>5. /\ q.known = r.known
      /\ q.eventCounter = r.eventCounter + 1
      /\ q.logCounter = r.logCounter + n
      /\ q.out = r.out \o c
      /\ q \in EmitRec
  BY <1>1, <1>4, RecordFields
<1>6. recorded \o q.out = u
  <2>. HIDE DEF c, q
  <2>1. c \in Seq(WideLog)
    BY <1>4
  <2>. HIDE DEF s, u
  <2>2. \A x, y, z \in Seq(WideLog) : x \o (y \o z) = (x \o y) \o z
    BY ConcatRegroup
  <2>3. recorded \o (r.out \o c) = (recorded \o r.out) \o c
    BY <1>2, <2>1, <2>2
  <2>. QED  BY <1>5, <2>3 DEF s, u
<1>. HIDE DEF c, s, q, u
<1>7. /\ Numbered(r, s)
      /\ r.logCounter \in Nat /\ r.eventCounter \in Nat
      /\ r.logCounter >= 1 /\ r.eventCounter >= 1
  BY DEF EmitFits, EmitRec, s
<1>8. /\ Len(u) = Len(s) + n
      /\ \A i \in 1..Len(s) : u[i] = s[i]
      /\ \A i \in 1..n : u[Len(s) + i] = c[i]
  BY <1>3, <1>4, ConcatFacts DEF u
<1>9. Dense(u)
  <2>1. Dense(s)
    BY <1>7 DEF Numbered
  <2>2. ASSUME Len(s) > 0 PROVE Follows(s[Len(s)], c[1])
    <3>1. Continues(r, s[Len(s)])
      BY <1>7, <2>2 DEF Numbered
    <3>2. s[Len(s)] \in WideLog
      BY <1>3, <2>2
    <3>3. c[1].sess = r.known /\ c[1].offset = r.logCounter
      BY <1>1, <1>4, <1>7
    <3>4. s[Len(s)].sess \in Nat /\ r.known \in Nat
      BY <1>1, <3>2, ConstAssumption DEF WideLog
    <3>. QED  BY <3>1, <3>3, <3>4 DEF Continues, Follows
  <2>. QED  BY <1>3, <1>4, <2>1, <2>2, DenseConcat DEF u
<1>10. \A k \in 1..Len(u) : Placed(u[k], k)
  <2>. SUFFICES ASSUME NEW k \in 1..Len(u) PROVE Placed(u[k], k)
    OBVIOUS
  <2>1. CASE k <= Len(s)
    <3>1. k \in 1..Len(s) /\ u[k] = s[k]
      BY <1>3, <1>8, <2>1
    <3>. QED  BY <1>7, <3>1 DEF Numbered
  <2>2. CASE k > Len(s)
    <3>. DEFINE i == k - Len(s)
    <3>1. i \in 1..n /\ k = Len(s) + i /\ u[k] = c[i] /\ i \in Nat /\ i >= 1
      BY <1>1, <1>3, <1>8, <2>2
    <3>. HIDE DEF i
    <3>2. /\ u[k].sess = session
          /\ u[k].offset = r.logCounter + i - 1
          /\ u[k].event = r.eventCounter
      BY <1>4, <3>1
    <3>3. r.eventCounter <= r.logCounter /\ r.logCounter <= Len(s) + 1
      BY <1>7 DEF Numbered
    <3>. QED  BY <1>1, <1>3, <1>7, <3>1, <3>2, <3>3 DEF Placed
  <2>. QED  BY <1>3, <2>1, <2>2
<1>11. Continues(q, u[Len(u)])
  <2>1. u[Len(u)] = c[n]
    BY <1>1, <1>8
  <2>2. c[n].sess = session /\ c[n].offset = r.logCounter + n - 1
    BY <1>1, <1>4
  <2>. QED  BY <1>1, <1>5, <1>7, <2>1, <2>2 DEF Continues
<1>12. /\ q.eventCounter <= q.logCounter
       /\ q.logCounter <= Len(u) + 1
       /\ q.known <= session
  <2>1. r.eventCounter <= r.logCounter /\ r.logCounter <= Len(s) + 1
    BY <1>7 DEF Numbered
  <2>. QED  BY <1>1, <1>3, <1>5, <1>7, <1>8, <2>1
<1>13. Numbered(q, u)
  BY <1>9, <1>10, <1>11, <1>12 DEF Numbered
<1>. QED  BY <1>5, <1>6, <1>13 DEF EmitFits, q

LEMMA DropFits ==
  ASSUME NEW r \in EmitRec, EmitFits(r), NEW why \in {"paused", "other"}
  PROVE  EmitFits(Drop(r, why))
BY DEF EmitFits, Drop, EmitRec, Numbered, Continues

LEMMA EmitKnownFits ==
  ASSUME TypeOK, NEW r \in EmitRec, EmitFits(r), r.known = session,
         NEW kind \in {"full", "incr"}, NEW n \in 0..MaxChunks
  PROVE  EmitFits(EmitKnown(r, kind, n))
<1>1. MaxChunks \in Nat /\ MaxRec \in Nat /\ r.age \in Nat
  BY ConstAssumption DEF EmitRec
<1>2. CASE r.age > MaxRec
  BY <1>1, <1>2, DropFits DEF EmitKnown
<1>3. CASE r.age <= MaxRec /\ n = 0
  BY <1>1, <1>3 DEF EmitKnown
<1>4. CASE r.age <= MaxRec /\ n # 0
  <2>1. n \in 1..MaxChunks
    BY <1>1, <1>4
  <2>2. EmitKnown(r, kind, n) = Record(r, kind, n)
    BY <1>1, <1>4 DEF EmitKnown
  <2>. QED  BY <2>1, <2>2, RecordFits
<1>. QED  BY <1>1, <1>2, <1>3, <1>4

\* A new session: the counters start over, before the snapshot.
LEMMA AdoptFits ==
  ASSUME TypeOK, NEW r \in EmitRec, EmitFits(r), r.known # session,
         NEW m \in 1..MaxChunks
  PROVE  EmitFits(Adopt(r, m)) /\ Adopt(r, m).known = session /\ Adopt(r, m) \in EmitRec
<1>. DEFINE q == [r EXCEPT !.known = session, !.age = 0,
                           !.eventCounter = 1, !.logCounter = 1]
            s == recorded \o r.out
<1>1. /\ session \in 1..MaxSessions /\ session \in Nat /\ MaxRec \in Nat
      /\ MaxChunks \in Nat
  BY ConstAssumption DEF TypeOK
<1>2. /\ q \in EmitRec /\ q.known = session /\ q.age = 0
      /\ q.eventCounter = 1 /\ q.logCounter = 1 /\ q.out = r.out
  <2>1. session \in 0..MaxSessions /\ 0 \in 0..MaxRec + 1 /\ 1 \in Nat \ {0}
    BY <1>1
  <2>. QED  BY <2>1 DEF EmitRec
<1>3. r.known \in Nat /\ r.known < session
  BY <1>1 DEF EmitFits, Numbered, EmitRec
<1>4. recorded \in Seq(WideLog) /\ r.out \in Seq(WideLog)
  BY RecordedWide DEF EmitRec
<1>5. s \in Seq(WideLog) /\ Len(s) \in Nat
  BY <1>4, ConcatFacts
<1>6. Numbered(q, s)
  <2>. HIDE DEF q, s
  <2>1. Numbered(r, s)
    BY DEF EmitFits, s
  <2>2. ASSUME Len(s) > 0 PROVE Continues(q, s[Len(s)])
    <3>1. Continues(r, s[Len(s)])
      BY <2>1, <2>2 DEF Numbered
    <3>2. s[Len(s)] \in WideLog
      BY <1>5, <2>2
    <3>3. s[Len(s)].sess \in Nat
      BY <3>2, ConstAssumption DEF WideLog
    <3>. QED  BY <1>1, <1>2, <1>3, <3>1, <3>3 DEF Continues
  <2>. QED  BY <1>1, <1>2, <1>5, <2>1, <2>2 DEF Numbered
<1>7. EmitFits(q)
  BY <1>2, <1>6 DEF EmitFits
<1>8. Adopt(r, m) = Record(q, "full", m)
  <2>1. m # 0
    BY <1>1
  <2>. QED  BY <1>1, <1>2, <2>1 DEF Adopt, EmitKnown
<1>. HIDE DEF q
<1>. QED  BY <1>2, <1>7, <1>8, RecordFits DEF EmitFits

LEMMA EmitFitsLemma ==
  ASSUME TypeOK, NEW r \in EmitRec, EmitFits(r), NEW kind \in {"full", "incr"},
         NEW n \in 0..MaxChunks, NEW m \in 0..MaxChunks,
         m = 0 => r.known = session
  PROVE  EmitFits(Emit(r, kind, n, m))
<1>1. MaxChunks \in Nat
  BY ConstAssumption
<1>2. CASE paused
  BY <1>2, DropFits DEF Emit
<1>3. CASE ~paused /\ session # r.known /\ hidden
  BY <1>3, DropFits DEF Emit
<1>4. CASE ~paused /\ session # r.known /\ ~hidden
  <2>1. m \in 1..MaxChunks
    BY <1>1, <1>4
  <2>2. Emit(r, kind, n, m) = EmitKnown(Adopt(r, m), kind, n)
    BY <1>4 DEF Emit
  <2>. QED  BY <1>4, <2>1, <2>2, AdoptFits, EmitKnownFits
<1>5. CASE ~paused /\ session = r.known
  <2>1. Emit(r, kind, n, m) = EmitKnown(r, kind, n)
    BY <1>5 DEF Emit
  <2>. QED  BY <1>5, <2>1, EmitKnownFits
<1>. QED  BY <1>2, <1>3, <1>4, <1>5 DEF TypeOK

-----------------------------------------------------------------------------
(* The queues.                                                             *)

LEMMA AppendFacts ==
  ASSUME NEW S, NEW s \in Seq(S), NEW e \in S
  PROVE  /\ Append(s, e) \in Seq(S)
         /\ Len(Append(s, e)) = Len(s) + 1
         /\ \A i \in 1..Len(s) + 1 :
              Append(s, e)[i] = IF i <= Len(s) THEN s[i] ELSE e
OBVIOUS

LEMMA TailFacts ==
  ASSUME NEW S, NEW s \in Seq(S), s # <<>>
  PROVE  /\ Head(s) = s[1] /\ Head(s) \in S
         /\ Tail(s) \in Seq(S)
         /\ Len(Tail(s)) = Len(s) - 1
         /\ Len(s) \in Nat /\ Len(s) >= 1
         /\ \A i \in 1..Len(s) - 1 : Tail(s)[i] = s[i + 1]
OBVIOUS

LEMMA EmptyFacts ==
  ASSUME NEW S, NEW s \in Seq(S)
  PROVE  (s = <<>> <=> Len(s) = 0) /\ Len(s) \in Nat
BY EmptySeq

\* What replacing one processor gives.
LEMMA ExceptProc ==
  ASSUME NEW ps \in Seq(Proc), NEW p \in 1..Len(ps), NEW e \in Proc
  PROVE  /\ [ps EXCEPT ![p] = e] \in Seq(Proc)
         /\ Len([ps EXCEPT ![p] = e]) = Len(ps)
         /\ [ps EXCEPT ![p] = e][p] = e
         /\ \A i \in 1..Len(ps) : i # p => [ps EXCEPT ![p] = e][i] = ps[i]
BY ExceptSeq

LEMMA SeqInto ==
  ASSUME NEW S, NEW T, NEW s \in Seq(S), \A i \in 1..Len(s) : s[i] \in T
  PROVE  s \in Seq(T)
OBVIOUS

\* The elements of a recording that respects the bound.
LEMMA WithinBound ==
  ASSUME NEW s \in Seq(WideLog), Len(s) <= MaxLogs,
         \A k \in 1..Len(s) : Placed(s[k], k)
  PROVE  s \in Seq(Log)
<1>1. MaxLogs \in Nat /\ Len(s) \in Nat
  BY ConstAssumption
<1>2. ASSUME NEW k \in 1..Len(s) PROVE s[k] \in Log
  <2>1. s[k] \in WideLog /\ Placed(s[k], k)
    OBVIOUS
  <2>a. s[k].offset \in Nat \ {0} /\ s[k].event \in Nat \ {0}
    BY <2>1 DEF WideLog
  <2>b. s[k].event <= s[k].offset /\ s[k].offset <= k /\ k \in Nat /\ k <= Len(s)
    BY <1>1, <2>1 DEF Placed
  <2>2. s[k].offset \in 1..MaxLogs /\ s[k].event \in 1..MaxLogs
    BY <1>1, <2>a, <2>b
  <2>. QED  BY <2>1, <2>2 DEF WideLog, Log
<1>. QED  BY <1>1, <1>2

\* Emitted logs go to the newest processor.
LEMMA CommitFits ==
  ASSUME TypeOK, NEW r \in EmitRec, EmitFits(r),
         NEW ps \in Seq(Proc), Len(ps) \in 1..MaxInits, timers \in Seq(1..Len(ps)),
         TimersFit(ps, timers), QueuesFit(ps), Commit(r, ps), session' = session
  PROVE  Committed /\ Len(procs') = Len(ps)
<1>. DEFINE p == Len(ps)
            s == recorded \o r.out
            l == ps[p].logs \o r.out
            a == (ps[p].armed \/ r.out # <<>>)
<1>1. MaxLogs \in Nat /\ MaxSessions \in Nat /\ MaxRec \in Nat /\ session \in Nat
  BY ConstAssumption DEF TypeOK
<1>2. recorded \in Seq(WideLog) /\ r.out \in Seq(WideLog) /\ recorded \in Seq(Log)
  BY RecordedWide DEF EmitRec, TypeOK
<1>3. /\ s \in Seq(WideLog) /\ Len(s) = Len(recorded) + Len(r.out)
      /\ \A i \in 1..Len(r.out) : s[Len(recorded) + i] = r.out[i]
      /\ Len(recorded) \in Nat /\ Len(r.out) \in Nat
  BY <1>2, ConcatFacts
<1>4. /\ recorded' = s /\ gap' = r.gap /\ Len(s) <= MaxLogs
      /\ rec' = [known |-> r.known, age |-> r.age,
                 eventCounter |-> r.eventCounter, logCounter |-> r.logCounter]
      /\ procs' = [ps EXCEPT ![p] = [logs |-> l, armed |-> a]]
      /\ timers' = IF r.out # <<>> /\ ~ps[p].armed THEN Append(timers, p) ELSE timers
  BY <1>3 DEF Commit, OnLogs
<1>5. Numbered(r, s)
  BY DEF EmitFits
<1>. HIDE DEF s
<1>6. recorded' \in Seq(Log)
  BY <1>3, <1>4, <1>5, WithinBound DEF Numbered
<1>7. /\ rec'.known = r.known /\ rec'.eventCounter = r.eventCounter
      /\ rec'.logCounter = r.logCounter
  BY <1>4
<1>8. Numbered(rec, recorded)'
  <2>1. \A k \in 1..Len(s) : /\ s[k].event <= s[k].offset
                             /\ s[k].offset <= k
                             /\ s[k].sess <= session'
    BY <1>5 DEF Numbered, Placed
  <2>2. Dense(s) /\ r.eventCounter <= r.logCounter /\ r.logCounter <= Len(s) + 1
        /\ r.known <= session'
    BY <1>5 DEF Numbered
  <2>3. Len(s) > 0 => Continues(rec', s[Len(s)])
    BY <1>5, <1>7 DEF Numbered, Continues
  <2>. QED  BY <1>4, <1>7, <2>1, <2>2, <2>3 DEF Numbered, Placed
<1>9. rec' \in [known : 0..MaxSessions, age : 0..MaxRec + 1,
                eventCounter : 1..MaxLogs + 1, logCounter : 1..MaxLogs + 1]
  <2>1. r.eventCounter <= r.logCounter /\ r.logCounter <= Len(s) + 1
    BY <1>5 DEF Numbered
  <2>2. r.eventCounter \in Nat \ {0} /\ r.logCounter \in Nat \ {0}
        /\ r.known \in 0..MaxSessions /\ r.age \in 0..MaxRec + 1
    BY DEF EmitRec
  <2>a. Len(s) \in Nat /\ Len(s) <= MaxLogs
    BY <1>3, <1>4
  <2>3. r.eventCounter \in 1..MaxLogs + 1 /\ r.logCounter \in 1..MaxLogs + 1
    BY <1>1, <2>1, <2>2, <2>a
  <2>. QED  BY <1>4, <2>2, <2>3
<1>10. gap' \in {"none", "paused", "other"}
  BY <1>4 DEF EmitRec
<1>11. r.out \in Seq(Log)
  <2>1. \A i \in 1..Len(r.out) : r.out[i] = recorded'[Len(recorded) + i]
    BY <1>3, <1>4
  <2>2. \A i \in 1..Len(r.out) : Len(recorded) + i \in 1..Len(recorded')
    BY <1>3, <1>4
  <2>3. \A i \in 1..Len(r.out) : r.out[i] \in Log
    BY <1>6, <2>1, <2>2, ElementOfSeq
  <2>. QED  BY <1>2, <2>3, SeqInto
<1>12. p \in 1..Len(ps) /\ ps[p] \in Proc /\ p \in Nat
  OBVIOUS
<1>13. /\ l \in Seq(Log)
       /\ Len(l) = Len(ps[p].logs) + Len(r.out) /\ Len(ps[p].logs) \in Nat
       /\ \A i \in 1..Len(ps[p].logs) + Len(r.out) :
            l[i] = IF i <= Len(ps[p].logs) THEN ps[p].logs[i]
                   ELSE r.out[i - Len(ps[p].logs)]
  <2>1. ps[p].logs \in Seq(Log) /\ ps[p].armed \in BOOLEAN
    BY <1>12 DEF Proc
  <2>. HIDE DEF a, p
  <2>2. \A x, y \in Seq(Log) :
          /\ x \o y \in Seq(Log)
          /\ Len(x \o y) = Len(x) + Len(y) /\ Len(x) \in Nat
          /\ \A i \in 1..Len(x) + Len(y) :
               (x \o y)[i] = IF i <= Len(x) THEN x[i] ELSE y[i - Len(x)]
    BY ConcatFacts
  <2>. QED  BY <1>11, <2>1, <2>2
<1>14. /\ procs' \in Seq(Proc) /\ Len(procs') = Len(ps)
       /\ procs'[p].logs = l /\ procs'[p].armed = a
       /\ \A i \in 1..Len(ps) : i # p => procs'[i] = ps[i]
  <2>. HIDE DEF l, a, p
  <2>1. l \in Seq(Log) /\ p \in 1..Len(ps)
    BY <1>12, <1>13
  <2>2. a \in BOOLEAN
    BY DEF a
  <2>. DEFINE e == [logs |-> l, armed |-> a]
  <2>3. e \in Proc /\ e.logs = l /\ e.armed = a
    BY <2>1, <2>2 DEF Proc
  <2>. HIDE DEF e
  <2>4. procs' = [ps EXCEPT ![p] = e]
    BY <1>4 DEF e
  <2>. QED  BY <2>1, <2>3, <2>4, ExceptProc
<1>15. r.out = <<>> <=> Len(r.out) = 0
  BY <1>2, EmptyFacts
<1>16. timers' \in Seq(1..Len(ps))
  BY <1>4, <1>12, AppendFacts
<1>17. TimersFit(procs, timers)'
  <2>1. \A q \in 1..Len(ps) : Len(procs'[q].logs) > 0 => procs'[q].armed
    <3>. SUFFICES ASSUME NEW q \in 1..Len(ps), Len(procs'[q].logs) > 0
                  PROVE  procs'[q].armed
      OBVIOUS
    <3>1. CASE q # p
      BY <1>14, <3>1 DEF TimersFit
    <3>2. CASE q = p
      <4>1. CASE r.out # <<>>
        BY <1>14, <3>2, <4>1
      <4>2. CASE r.out = <<>>
        <5>1. Len(ps[p].logs) > 0
          BY <1>13, <1>14, <1>15, <3>2, <4>2
        <5>2. ps[p].armed
          BY <1>12, <5>1 DEF TimersFit
        <5>. QED  BY <1>14, <3>2, <5>2
      <4>. QED  BY <4>1, <4>2
    <3>. QED  BY <3>1, <3>2
  <2>2. CASE r.out # <<>> /\ ~ps[p].armed
    <3>. DEFINE n == Len(timers)
    <3>1. /\ n \in Nat /\ Len(timers') = n + 1
          /\ \A i \in 1..n + 1 : timers'[i] = IF i <= n THEN timers[i] ELSE p
      BY <1>4, <1>12, <2>2, AppendFacts
    <3>. HIDE DEF n
    <3>2. \A i \in 1..n : timers[i] # p
      BY <1>12, <2>2 DEF TimersFit, n
    <3>3. \A j, k \in 1..n + 1 : timers'[j] = timers'[k] => j = k
      <4>1. \A j, k \in 1..n : timers[j] = timers[k] => j = k
        BY DEF TimersFit, n
      <4>. QED  BY <3>1, <3>2, <4>1
    <3>a. n + 1 \in 1..n + 1 /\ ~(n + 1 <= n)
      BY <3>1
    <3>b. a
      BY <2>2
    <3>4. procs'[p].armed /\ timers'[n + 1] = p /\ n + 1 \in 1..n + 1
      BY <1>14, <3>1, <3>a, <3>b
    <3>5. ASSUME NEW q \in 1..Len(ps), q # p
          PROVE  procs'[q].armed <=> \E k \in 1..n + 1 : timers'[k] = q
      <4>1. procs'[q].armed <=> \E k \in 1..n : timers[k] = q
        BY <1>14, <3>5 DEF TimersFit, n
      <4>. QED  BY <3>1, <3>5, <4>1
    <3>. QED  BY <1>14, <2>1, <3>1, <3>3, <3>4, <3>5 DEF TimersFit
  <2>3. CASE ~(r.out # <<>> /\ ~ps[p].armed)
    <3>1. timers' = timers
      BY <1>4, <2>3
    <3>2. procs'[p].armed <=> ps[p].armed
      BY <1>14, <2>3
    <3>3. \A q \in 1..Len(ps) : procs'[q].armed <=> ps[q].armed
      BY <1>14, <3>2
    <3>. QED  BY <1>14, <2>1, <3>1, <3>3 DEF TimersFit
  <2>. QED  BY <2>2, <2>3
<1>18. QueuesFit(procs)'
  <2>. SUFFICES ASSUME NEW q \in 1..Len(ps), NEW i \in 1..Len(procs'[q].logs)
                PROVE  procs'[q].logs[i].sess <= session
    BY <1>14 DEF QueuesFit
  <2>1. CASE q # p
    BY <1>14, <2>1 DEF QueuesFit
  <2>2. CASE q = p
    <3>. DEFINE n == Len(ps[p].logs)
    <3>1. /\ procs'[q].logs = l /\ i \in 1..n + Len(r.out) /\ n \in Nat
          /\ l[i] = IF i <= n THEN ps[p].logs[i] ELSE r.out[i - n]
      BY <1>13, <1>14, <2>2
    <3>. HIDE DEF n, l
    <3>2. CASE i <= n
      <4>1. i \in 1..n /\ l[i] = ps[p].logs[i]
        BY <3>1, <3>2
      <4>. QED  BY <1>12, <3>1, <4>1 DEF QueuesFit, n
    <3>3. CASE i > n
      <4>1. PICK j \in 1..Len(r.out) : l[i] = r.out[j]
        <5>1. i - n \in 1..Len(r.out)
          BY <1>3, <3>1, <3>3
        <5>. QED  BY <3>1, <3>3, <5>1
      <4>2. l[i] = s[Len(recorded) + j] /\ Len(recorded) + j \in 1..Len(s)
        BY <1>3, <4>1
      <4>3. Placed(l[i], Len(recorded) + j)
        BY <1>5, <4>2 DEF Numbered
      <4>. QED  BY <3>1, <4>3 DEF Placed
    <3>. QED  BY <3>1, <3>2, <3>3
  <2>. QED  BY <2>1, <2>2
<1>. QED  BY <1>6, <1>8, <1>9, <1>10, <1>14, <1>16, <1>17, <1>18 DEF Committed

Request == [stamp : 1..MaxSessions, logs : Seq(Log)]

\* A flush empties one queue and leaves the flags alone.
LEMMA FlushFits ==
  ASSUME TypeOK, NEW ps \in Seq(Proc), NEW p \in 1..Len(ps), QueuesFit(ps), SentFits,
         Flush(ps, p), session' = session
  PROVE  /\ procs' \in Seq(Proc) /\ Len(procs') = Len(ps)
         /\ procs'[p].logs = <<>>
         /\ \A i \in 1..Len(ps) : procs'[i].armed = ps[i].armed
         /\ \A i \in 1..Len(ps) : i # p => procs'[i] = ps[i]
         /\ QueuesFit(procs)'
         /\ sent' \in Seq(Request) /\ shipped' \in Nat
         /\ SentFits'
<1>. DEFINE e == [ps[p] EXCEPT !.logs = <<>>]
            q == ps[p].logs
            req == [stamp |-> session, logs |-> q]
<1>1. ps[p] \in Proc /\ q \in Seq(Log) /\ <<>> \in Seq(Log)
  <2>1. ps[p] \in Proc
    BY ElementOfSeq
  <2>2. q \in Seq(Log)
    BY <2>1 DEF Proc
  <2>. QED  BY <2>1, <2>2, EmptySeq
<1>2. e \in Proc /\ e.logs = <<>> /\ e.armed = ps[p].armed
  BY <1>1 DEF Proc
<1>3. procs' = [ps EXCEPT ![p] = e]
  BY DEF Flush
<1>4. sent' = sent \/ (q # <<>> /\ sent' = Append(sent, req))
  BY DEF Flush
<1>10. shipped' \in Nat
  <2>1. shipped \in Nat /\ Len(q) \in Nat
    BY <1>1, LenProperties DEF TypeOK
  <2>2. shipped' = shipped \/ shipped' = shipped + Len(q)
    BY DEF Flush
  <2>. HIDE DEF q
  <2>. QED  BY <2>1, <2>2
<1>. HIDE DEF e
<1>5. /\ procs' \in Seq(Proc) /\ Len(procs') = Len(ps)
      /\ procs'[p] = e
      /\ \A i \in 1..Len(ps) : i # p => procs'[i] = ps[i]
  BY <1>2, <1>3, ExceptProc
<1>6. \A i \in 1..Len(ps) : procs'[i].armed = ps[i].armed
  <2>. SUFFICES ASSUME NEW i \in 1..Len(ps) PROVE procs'[i].armed = ps[i].armed
    OBVIOUS
  <2>1. CASE i = p
    BY <1>2, <1>5, <2>1
  <2>2. CASE i # p
    BY <1>5, <2>2
  <2>. QED  BY <2>1, <2>2
<1>7. QueuesFit(procs)'
  <2>. SUFFICES ASSUME NEW i \in 1..Len(ps), NEW j \in 1..Len(procs'[i].logs)
                PROVE  procs'[i].logs[j].sess <= session
    BY <1>5 DEF QueuesFit
  <2>1. i # p
    BY <1>2, <1>5
  <2>. QED  BY <1>5, <2>1 DEF QueuesFit
<1>8. CASE sent' = sent
  BY <1>2, <1>5, <1>6, <1>7, <1>8, <1>10 DEF TypeOK, Request, SentFits
<1>9. CASE sent' = Append(sent, req)
  <2>1. sent \in Seq(Request) /\ session \in 1..MaxSessions /\ session \in Nat
    BY ConstAssumption DEF TypeOK, Request
  <2>2. req \in Request /\ req.stamp = session /\ req.logs = q
    BY <1>1, <2>1 DEF Request
  <2>. HIDE DEF req
  <2>. DEFINE n == Len(sent)
  <2>3. /\ sent' \in Seq(Request) /\ Len(sent') = n + 1 /\ n \in Nat
        /\ \A k \in 1..n + 1 : sent'[k] = IF k <= n THEN sent[k] ELSE req
    BY <1>9, <2>1, <2>2, AppendFacts
  <2>4. \A i \in 1..Len(q) : q[i].sess <= session
    BY DEF QueuesFit
  <2>. HIDE DEF n, q
  <2>5. ASSUME NEW k \in 1..n + 1
        PROVE  /\ sent'[k].stamp <= session
               /\ \A i \in 1..Len(sent'[k].logs) : sent'[k].logs[i].sess <= sent'[k].stamp
    <3>1. CASE k <= n
      <4>1. k \in 1..n /\ sent'[k] = sent[k]
        BY <2>3, <3>1
      <4>. QED  BY <4>1 DEF SentFits, n
    <3>2. CASE ~(k <= n)
      <4>1. sent'[k] = req
        BY <2>3, <3>2
      <4>. QED  BY <2>1, <2>2, <2>4, <4>1
    <3>. QED  BY <3>1, <3>2
  <2>6. SentFits'
    BY <2>3, <2>5 DEF SentFits
  <2>. QED  BY <1>2, <1>5, <1>6, <1>7, <1>10, <2>3, <2>6
<1>. QED  BY <1>4, <1>8, <1>9

-----------------------------------------------------------------------------
(* The steps.                                                              *)

LEMMA InitIInv == Init => IInv
<1>. SUFFICES ASSUME Init PROVE IInv
  OBVIOUS
<1>. USE ConstAssumption DEF Init
<1>1. Len(recorded) = 0 /\ Len(procs) = 0 /\ Len(timers) = 0 /\ Len(sent) = 0
  OBVIOUS
<1>2. TypeOK
  <2>1. rec \in [known : 0..MaxSessions, age : 0..MaxRec + 1,
                 eventCounter : 1..MaxLogs + 1, logCounter : 1..MaxLogs + 1]
    OBVIOUS
  <2>2. /\ session \in 1..MaxSessions /\ unloaded \in 0..Len(procs)
        /\ Len(procs) <= MaxInits /\ shipped \in Nat
    BY <1>1
  <2>3. /\ procs \in Seq([logs : Seq(Log), armed : BOOLEAN])
        /\ timers \in Seq(1..Len(procs))
        /\ sent \in Seq([stamp : 1..MaxSessions, logs : Seq(Log)])
        /\ recorded \in Seq(Log)
    BY EmptySeq
  <2>4. /\ hidden \in BOOLEAN /\ page \in {"up", "unloading", "gone"}
        /\ inited \in BOOLEAN /\ paused \in BOOLEAN /\ snapTimer \in BOOLEAN
        /\ gap \in {"none", "paused", "other"}
    OBVIOUS
  <2>. QED  BY <2>1, <2>2, <2>3, <2>4 DEF TypeOK
<1>3. Numbered(rec, recorded)
  BY <1>1 DEF Numbered, Dense
<1>4. TimersFit(procs, timers) /\ QueuesFit(procs) /\ SentFits
  BY <1>1 DEF TimersFit, QueuesFit, SentFits
<1>. QED  BY <1>2, <1>3, <1>4 DEF IInv

LEMMA EmitStateFits ==
  ASSUME IInv
  PROVE  EmitState(rec, gap) \in EmitRec /\ EmitFits(EmitState(rec, gap))
<1>. DEFINE r == EmitState(rec, gap)
<1>1. TypeOK /\ Numbered(rec, recorded)
  BY DEF IInv
<1>2. /\ rec.known \in 0..MaxSessions /\ rec.age \in 0..MaxRec + 1
      /\ rec.eventCounter \in Nat \ {0} /\ rec.logCounter \in Nat \ {0}
      /\ gap \in {"none", "paused", "other"} /\ recorded \in Seq(Log)
  BY <1>1, ConstAssumption DEF TypeOK
<1>3. /\ r \in EmitRec /\ r.out = <<>> /\ r.known = rec.known
      /\ r.eventCounter = rec.eventCounter /\ r.logCounter = rec.logCounter
  BY <1>2 DEF EmitState, EmitRec
<1>. HIDE DEF r
<1>4. recorded \o r.out = recorded
  BY <1>2, <1>3, ConcatEmptySeq
<1>5. Numbered(r, recorded)
  BY <1>1, <1>3 DEF Numbered, Continues
<1>. QED  BY <1>3, <1>4, <1>5 DEF EmitFits, r

\* init starts under the current session, and goes on with the counters.
LEMMA InitStateFits ==
  ASSUME IInv
  PROVE  LET r == [EmitState(rec, gap) EXCEPT !.known = session, !.age = 0] IN
         r \in EmitRec /\ EmitFits(r) /\ r.known = session
<1>. DEFINE q == EmitState(rec, gap)
            r == [q EXCEPT !.known = session, !.age = 0]
            s == recorded \o q.out
<1>1. TypeOK /\ session \in 1..MaxSessions /\ session \in Nat /\ MaxRec \in Nat
  BY ConstAssumption DEF IInv, TypeOK
<1>2. q \in EmitRec /\ EmitFits(q)
  BY EmitStateFits
<1>. HIDE DEF q
<1>3. /\ r \in EmitRec /\ r.known = session
      /\ r.eventCounter = q.eventCounter /\ r.logCounter = q.logCounter
      /\ r.out = q.out
  <2>1. session \in 0..MaxSessions /\ 0 \in 0..MaxRec + 1
    BY <1>1
  <2>. QED  BY <1>2, <2>1 DEF EmitRec
<1>4. Numbered(q, s) /\ q.known \in Nat
  BY <1>2 DEF EmitFits, EmitRec
<1>5. s \in Seq(WideLog) /\ Len(s) \in Nat
  BY <1>1, <1>2, RecordedWide, ConcatFacts DEF EmitRec
<1>. HIDE DEF r, s
<1>6. ASSUME Len(s) > 0 PROVE Continues(r, s[Len(s)])
  <2>1. Continues(q, s[Len(s)]) /\ q.known <= session
    BY <1>4, <1>6 DEF Numbered
  <2>2. s[Len(s)] \in WideLog
    BY <1>5, <1>6
  <2>3. s[Len(s)].sess \in Nat
    BY <2>2, ConstAssumption DEF WideLog
  <2>. QED  BY <1>1, <1>3, <1>4, <2>1, <2>3 DEF Continues
<1>7. Numbered(r, s)
  BY <1>1, <1>3, <1>4, <1>6 DEF Numbered
<1>. QED  BY <1>3, <1>7 DEF EmitFits, s, r, q

LEMMA SnapshotFits ==
  ASSUME IInv, inited, TakeFullSnapshot, session' = session
  PROVE  Committed /\ Len(procs') = Len(procs)
<1>1. /\ TypeOK /\ procs \in Seq(Proc) /\ Len(procs) \in 1..MaxInits
      /\ timers \in Seq(1..Len(procs)) /\ TimersFit(procs, timers) /\ QueuesFit(procs)
  BY DEF IInv, TypeOK, Proc
<1>2. PICK n, m \in Sizes : Commit(Emit(EmitState(rec, gap), "full", n, m), procs)
  BY DEF TakeFullSnapshot
<1>3. n \in 0..MaxChunks /\ m \in 0..MaxChunks /\ m # 0
  BY <1>2, ConstAssumption DEF Sizes
<1>4. EmitFits(Emit(EmitState(rec, gap), "full", n, m))
  BY <1>1, <1>3, EmitStateFits, EmitFitsLemma
<1>. QED  BY <1>1, <1>2, <1>4, CommitFits DEF EmitFits

\* What the other conjuncts of TypeOK say of the variables an action leaves alone.
LEMMA TypeParts ==
  ASSUME IInv
  PROVE  /\ session \in 1..MaxSessions /\ hidden \in BOOLEAN
         /\ page \in {"up", "unloading", "gone"}
         /\ inited \in BOOLEAN /\ paused \in BOOLEAN /\ snapTimer \in BOOLEAN
         /\ procs \in Seq(Proc) /\ Len(procs) \in Nat /\ Len(procs) <= MaxInits
         /\ timers \in Seq(1..Len(procs)) /\ unloaded \in 0..Len(procs)
         /\ sent \in Seq(Request) /\ shipped \in Nat
         /\ TimersFit(procs, timers) /\ QueuesFit(procs) /\ SentFits
BY DEF IInv, TypeOK, Proc, Request

\* A step that commits what an emit made of the state, and sends nothing.
LEMMA CommittedIInv ==
  ASSUME IInv, Committed, Len(procs') \in Len(procs)..MaxInits,
         inited' \in BOOLEAN, inited' => Len(procs') > 0, paused' \in BOOLEAN,
         snapTimer' \in BOOLEAN,
         UNCHANGED <<session, hidden, page, unloaded, sent, shipped>>
  PROVE  IInv'
<1>1. /\ session' \in 1..MaxSessions /\ hidden' \in BOOLEAN
      /\ page' \in {"up", "unloading", "gone"}
      /\ sent' \in Seq(Request) /\ shipped' \in Nat
  BY TypeParts
<1>2. unloaded' \in 0..Len(procs') /\ Len(procs') <= MaxInits
  BY TypeParts, ConstAssumption
<1>3. SentFits'
  BY TypeParts DEF SentFits
<1>4. TypeOK'
  BY <1>1, <1>2 DEF TypeOK, Committed, Proc, Request
<1>. QED  BY <1>3, <1>4 DEF IInv, Committed

\* A step that touches neither logs nor timers.
LEMMA QuietIInv ==
  ASSUME IInv, hidden' \in BOOLEAN, page' \in {"up", "unloading", "gone"},
         inited' \in BOOLEAN, inited' => inited, paused' \in BOOLEAN,
         snapTimer' \in BOOLEAN, gap' \in {"none", "paused", "other"},
         unloaded' \in 0..Len(procs),
         session' \in session..MaxSessions,
         rec' \in [known : 0..MaxSessions, age : 0..MaxRec + 1,
                   eventCounter : 1..MaxLogs + 1, logCounter : 1..MaxLogs + 1],
         rec'.known = rec.known, rec'.eventCounter = rec.eventCounter,
         rec'.logCounter = rec.logCounter,
         UNCHANGED <<recorded, procs, timers, sent, shipped>>
  PROVE  IInv'
<1>1. session \in Nat /\ session' \in Nat /\ session <= session' /\ session' \in 1..MaxSessions
  BY TypeParts, ConstAssumption
<1>2. recorded \in Seq(Log) /\ Len(recorded) \in Nat /\ Numbered(rec, recorded)
      /\ rec.known \in Nat
  BY ConstAssumption DEF IInv, TypeOK
<1>3. ASSUME NEW l \in Log, l.sess <= session PROVE l.sess <= session'
  <2>1. l.sess \in Nat
    BY ConstAssumption DEF Log
  <2>. QED  BY <1>1, <1>3, <2>1
<1>4. Numbered(rec, recorded)'
  <2>1. \A k \in 1..Len(recorded) : /\ recorded[k].event <= recorded[k].offset
                                    /\ recorded[k].offset <= k
                                    /\ recorded[k].sess <= session'
    <3>. SUFFICES ASSUME NEW k \in 1..Len(recorded)
                  PROVE  /\ recorded[k].event <= recorded[k].offset
                         /\ recorded[k].offset <= k
                         /\ recorded[k].sess <= session'
      OBVIOUS
    <3>1. recorded[k] \in Log
      BY <1>2
    <3>2. Placed(recorded[k], k)
      BY <1>2 DEF Numbered
    <3>. QED  BY <1>3, <3>1, <3>2 DEF Placed
  <2>2. rec.known <= session'
    BY <1>1, <1>2 DEF Numbered
  <2>3. Len(recorded) > 0 => Continues(rec', recorded[Len(recorded)])
    BY <1>2 DEF Numbered, Continues
  <2>4. Dense(recorded) /\ rec.eventCounter <= rec.logCounter
        /\ rec.logCounter <= Len(recorded) + 1
    BY <1>2 DEF Numbered
  <2>. QED  BY <2>1, <2>2, <2>3, <2>4 DEF Numbered, Placed
<1>5. QueuesFit(procs)'
  <2>. SUFFICES ASSUME NEW p \in 1..Len(procs), NEW i \in 1..Len(procs[p].logs)
                PROVE  procs[p].logs[i].sess <= session'
    BY DEF QueuesFit
  <2>1. procs[p].logs \in Seq(Log)
    <3>1. procs[p] \in Proc
      BY TypeParts, ElementOfSeq
    <3>. QED  BY <3>1 DEF Proc
  <2>2. procs[p].logs[i] \in Log
    BY <2>1, ElementOfSeq
  <2>3. procs[p].logs[i].sess <= session
    BY TypeParts DEF QueuesFit
  <2>. QED  BY <1>3, <2>2, <2>3
<1>6. SentFits'
  <2>. SUFFICES ASSUME NEW k \in 1..Len(sent)
                PROVE  sent[k].stamp <= session'
    BY TypeParts DEF SentFits
  <2>1. sent[k] \in Request
    BY TypeParts, ElementOfSeq
  <2>2. sent[k].stamp \in Nat
    BY <2>1, ConstAssumption DEF Request
  <2>3. sent[k].stamp <= session
    BY TypeParts DEF SentFits
  <2>. QED  BY <1>1, <2>2, <2>3
<1>7. TimersFit(procs, timers)'
  BY TypeParts DEF TimersFit
<1>8. TypeOK'
  BY <1>1, <1>2, TypeParts DEF TypeOK, Proc, Request
<1>9. (inited => Len(procs) > 0)'
  BY DEF IInv
<1>. QED  BY <1>4, <1>5, <1>6, <1>7, <1>8, <1>9 DEF IInv

LEMMA InitRecorderFits == IInv /\ InitRecorder => IInv'
<1>. SUFFICES ASSUME IInv, InitRecorder PROVE IInv'
  OBVIOUS
<1>. DEFINE new == [logs |-> <<>>, armed |-> FALSE]
            ps == Append(procs, new)
            r == [EmitState(rec, gap) EXCEPT !.known = session, !.age = 0]
<1>1. PICK n \in Sizes : Commit(Emit(r, "full", n, 0), ps)
  BY DEF InitRecorder
<1>2. n \in 0..MaxChunks /\ 0 \in 0..MaxChunks
  BY <1>1, ConstAssumption DEF Sizes
<1>3. r \in EmitRec /\ EmitFits(r) /\ r.known = session
  BY InitStateFits
<1>4. new \in Proc /\ new.logs = <<>> /\ ~new.armed
  BY EmptySeq DEF Proc
<1>. HIDE DEF new, r
<1>5. TypeOK /\ Len(procs) < MaxInits /\ session' = session
  BY DEF IInv, InitRecorder
<1>6. EmitFits(Emit(r, "full", n, 0))
  BY <1>2, <1>3, <1>5, EmitFitsLemma
<1>. DEFINE c == Len(procs)
<1>7. /\ ps \in Seq(Proc) /\ Len(ps) = c + 1 /\ c \in Nat
      /\ \A i \in 1..c : ps[i] = procs[i]
      /\ ps[c + 1] = new
  <2>1. c \in Nat /\ \A i \in 1..c + 1 : ps[i] = IF i <= c THEN procs[i] ELSE new
    BY <1>4, TypeParts, AppendFacts
  <2>2. c + 1 \in 1..c + 1 /\ ~(c + 1 <= c)
    BY <2>1
  <2>. QED  BY <1>4, <2>1, <2>2, TypeParts, AppendFacts
<1>. HIDE DEF ps
<1>8. Len(ps) \in 1..MaxInits /\ c + 1 \in 1..MaxInits
  BY <1>5, <1>7, ConstAssumption DEF c
<1>9. /\ TimersFit(procs, timers) /\ QueuesFit(procs) /\ timers \in Seq(1..c)
  BY TypeParts DEF c
<1>. HIDE DEF c
<1>10. timers \in Seq(1..Len(ps))
  <2>1. 1..c \subseteq 1..c + 1
    BY <1>7
  <2>. QED  BY <1>7, <1>9, <2>1, SeqMonotonic
<1>11. TimersFit(ps, timers)
  <2>1. \A k \in 1..Len(timers) : timers[k] \in 1..c
    BY <1>9, ElementOfSeq
  <2>2. ~\E k \in 1..Len(timers) : timers[k] = c + 1
    BY <1>7, <2>1
  <2>3. /\ \A p \in 1..c : Len(ps[p].logs) > 0 => ps[p].armed
        /\ \A p \in 1..c : ps[p].armed <=> \E k \in 1..Len(timers) : timers[k] = p
    BY <1>7, <1>9 DEF TimersFit, c
  <2>4. Len(ps[c + 1].logs) = 0 /\ ~ps[c + 1].armed
    BY <1>4, <1>7
  <2>5. \A p \in 1..Len(ps) : p \in 1..c \/ p = c + 1
    BY <1>7
  <2>. QED  BY <1>9, <2>2, <2>3, <2>4, <2>5 DEF TimersFit
<1>12. QueuesFit(ps)
  <2>1. \A p \in 1..c : \A i \in 1..Len(ps[p].logs) : ps[p].logs[i].sess <= session
    BY <1>7, <1>9 DEF QueuesFit, c
  <2>2. Len(ps[c + 1].logs) = 0
    BY <1>4, <1>7
  <2>3. \A p \in 1..Len(ps) : p \in 1..c \/ p = c + 1
    BY <1>7
  <2>. QED  BY <2>1, <2>2, <2>3 DEF QueuesFit
<1>13. Committed /\ Len(procs') = Len(ps)
  BY <1>1, <1>5, <1>6, <1>7, <1>8, <1>10, <1>11, <1>12, CommitFits DEF EmitFits
<1>14. Len(procs') \in Len(procs)..MaxInits /\ Len(procs') > 0
  BY <1>7, <1>8, <1>13, ConstAssumption DEF c
<1>. QED  BY <1>13, <1>14, TypeParts, CommittedIInv DEF InitRecorder

LEMMA EmitActionsFit == IInv /\ (Resume \/ DomEvent \/ SnapTimerFires) => IInv'
<1>. SUFFICES ASSUME IInv, Resume \/ DomEvent \/ SnapTimerFires PROVE IInv'
  OBVIOUS
<1>1. CASE inited /\ TakeFullSnapshot /\ UNCHANGED session
           /\ inited' = inited /\ paused' \in BOOLEAN /\ snapTimer' \in BOOLEAN
           /\ UNCHANGED <<hidden, page, unloaded, sent, shipped>>
  <2>1. Committed /\ Len(procs') = Len(procs)
    BY <1>1, SnapshotFits
  <2>2. Len(procs') \in Len(procs)..MaxInits /\ Len(procs') > 0
    BY <1>1, <2>1, TypeParts, ConstAssumption DEF IInv
  <2>. QED  BY <1>1, <2>1, <2>2, TypeParts, CommittedIInv
<1>2. CASE UNCHANGED <<recVars, procs, timers, session, hidden, page, inited, unloaded, sent, shipped>>
           /\ paused' \in BOOLEAN /\ snapTimer' \in BOOLEAN
  <2>1. rec' = rec /\ gap' = gap /\ recorded' = recorded
    BY <1>2 DEF recVars
  <2>2. session \in session..MaxSessions
    BY TypeParts, ConstAssumption
  <2>3. rec \in [known : 0..MaxSessions, age : 0..MaxRec + 1,
                 eventCounter : 1..MaxLogs + 1, logCounter : 1..MaxLogs + 1]
        /\ gap \in {"none", "paused", "other"}
    BY DEF IInv, TypeOK
  <2>. QED  BY <1>2, <2>1, <2>2, <2>3, TypeParts, QuietIInv
<1>3. CASE Resume
  <2>1. paused' \in BOOLEAN /\ snapTimer' \in BOOLEAN
    BY <1>3, TypeParts DEF Resume
  <2>. QED  BY <1>1, <1>2, <1>3, <2>1 DEF Resume
<1>4. CASE SnapTimerFires
  <2>1. paused' \in BOOLEAN /\ snapTimer' \in BOOLEAN
    BY <1>4, TypeParts DEF SnapTimerFires
  <2>. QED  BY <1>1, <1>2, <1>4, <2>1 DEF SnapTimerFires
<1>5. CASE DomEvent
  <2>1. PICK n \in 0..MaxChunks, m \in Sizes, blocked \in BOOLEAN :
          /\ Commit(Emit(EmitState(rec, gap), "incr", n, m), procs)
          /\ snapTimer' = (snapTimer \/ blocked)
    BY <1>5 DEF DomEvent
  <2>2. m \in 0..MaxChunks /\ m # 0
    BY <2>1, ConstAssumption DEF Sizes
  <2>3. TypeOK
    BY DEF IInv
  <2>4. EmitFits(Emit(EmitState(rec, gap), "incr", n, m))
    BY <2>2, <2>3, EmitStateFits, EmitFitsLemma
  <2>5. inited /\ session' = session
    BY <1>5 DEF DomEvent
  <2>6. Len(procs) \in 1..MaxInits
    BY <2>5, TypeParts, ConstAssumption DEF IInv
  <2>7. Committed /\ Len(procs') = Len(procs)
    BY <2>1, <2>3, <2>4, <2>5, <2>6, TypeParts, CommitFits DEF EmitFits
  <2>8. Len(procs') \in Len(procs)..MaxInits /\ Len(procs') > 0
    BY <2>6, <2>7, ConstAssumption
  <2>9. snapTimer' \in BOOLEAN
    BY <2>1
  <2>. QED  BY <1>5, <2>7, <2>8, <2>9, TypeParts, CommittedIInv DEF DomEvent
<1>. QED  BY <1>3, <1>4, <1>5

\* A flush leaves everything but a queue, its flag and the requests alone.
LEMMA FlushedIInv ==
  ASSUME IInv, procs' \in Seq(Proc), Len(procs') = Len(procs),
         timers' \in Seq(1..Len(procs)), TimersFit(procs, timers)', QueuesFit(procs)',
         sent' \in Seq(Request), shipped' \in Nat, SentFits', unloaded' \in 0..Len(procs),
         UNCHANGED <<session, hidden, page, inited, paused, recVars, snapTimer>>
  PROVE  IInv'
<1>1. rec' = rec /\ gap' = gap /\ recorded' = recorded
  BY DEF recVars
<1>2. TypeOK /\ Numbered(rec, recorded)
  BY DEF IInv
<1>3. TypeOK'
  BY <1>1, <1>2 DEF TypeOK, Proc, Request
<1>4. Numbered(rec, recorded)'
  BY <1>1, <1>2 DEF Numbered, Placed
<1>. QED  BY <1>3, <1>4 DEF IInv

LEMMA FlushTimerFits == IInv /\ FlushTimer => IInv'
<1>. SUFFICES ASSUME IInv, FlushTimer PROVE IInv'
  OBVIOUS
<1>. DEFINE h == Head(timers)
            e == [procs[h] EXCEPT !.armed = FALSE]
            ps == [procs EXCEPT ![h].armed = FALSE]
            n == Len(timers)
<1>1. /\ h = timers[1] /\ h \in 1..Len(procs)
      /\ timers' = Tail(timers) /\ Tail(timers) \in Seq(1..Len(procs))
      /\ Len(Tail(timers)) = n - 1 /\ n \in Nat /\ n >= 1
      /\ \A i \in 1..n - 1 : Tail(timers)[i] = timers[i + 1]
  BY TypeParts, TailFacts DEF FlushTimer
<1>2. Flush(ps, h) /\ session' = session /\ TypeOK
  BY DEF FlushTimer, IInv
<1>. HIDE DEF h, n
<1>3. procs[h] \in Proc
  BY <1>1, TypeParts, ElementOfSeq
<1>4. e \in Proc /\ ~e.armed /\ e.logs = procs[h].logs
  BY <1>3 DEF Proc
<1>5. ps = [procs EXCEPT ![h] = e]
  OBVIOUS
<1>. HIDE DEF e, ps
<1>6. /\ ps \in Seq(Proc) /\ Len(ps) = Len(procs) /\ ps[h] = e
      /\ \A i \in 1..Len(procs) : i # h => ps[i] = procs[i]
  BY <1>1, <1>4, <1>5, TypeParts, ExceptProc
<1>7. QueuesFit(ps)
  <2>1. \A p \in 1..Len(procs) : ps[p].logs = procs[p].logs
    BY <1>4, <1>6
  <2>. QED  BY <1>6, <2>1, TypeParts DEF QueuesFit
<1>8. /\ procs' \in Seq(Proc) /\ Len(procs') = Len(ps)
      /\ procs'[h].logs = <<>>
      /\ \A i \in 1..Len(ps) : procs'[i].armed = ps[i].armed
      /\ \A i \in 1..Len(ps) : i # h => procs'[i] = ps[i]
      /\ QueuesFit(procs)' /\ sent' \in Seq(Request) /\ shipped' \in Nat /\ SentFits'
  <2>1. h \in 1..Len(ps) /\ ps \in Seq(Proc) /\ SentFits
    BY <1>1, <1>6, TypeParts
  <2>. QED  BY <1>2, <1>7, <2>1, FlushFits
<1>9. TimersFit(procs, timers)'
  <2>1. /\ \A p \in 1..Len(procs) : Len(procs[p].logs) > 0 => procs[p].armed
        /\ \A p \in 1..Len(procs) : procs[p].armed <=> \E k \in 1..n : timers[k] = p
        /\ \A j, k \in 1..n : timers[j] = timers[k] => j = k
    BY TypeParts DEF TimersFit, n
  <2>2. ~procs'[h].armed /\ Len(procs'[h].logs) = 0
    BY <1>1, <1>4, <1>6, <1>8
  <2>3. \A k \in 1..n - 1 : timers'[k] = timers[k + 1] /\ k + 1 \in 1..n /\ timers'[k] # h
    <3>1. \A k \in 1..n - 1 : timers'[k] = timers[k + 1] /\ k + 1 \in 1..n /\ k + 1 # 1
      BY <1>1
    <3>. QED  BY <1>1, <2>1, <3>1
  <2>4. \A p \in 1..Len(procs) : p # h => procs'[p] = procs[p]
    BY <1>6, <1>8
  <2>5. ASSUME NEW p \in 1..Len(procs)
        PROVE  procs'[p].armed <=> \E k \in 1..n - 1 : timers'[k] = p
    <3>1. CASE p = h
      BY <2>2, <2>3, <3>1
    <3>2. CASE p # h
      <4>1. procs'[p].armed <=> \E k \in 1..n : timers[k] = p
        BY <2>1, <2>4, <3>2
      <4>2. ASSUME NEW k \in 1..n, timers[k] = p PROVE \E j \in 1..n - 1 : timers'[j] = p
        <5>1. k # 1
          BY <1>1, <3>2, <4>2
        <5>2. k - 1 \in 1..n - 1 /\ (k - 1) + 1 = k
          BY <1>1, <5>1
        <5>. QED  BY <2>3, <4>2, <5>2
      <4>. QED  BY <2>3, <4>1, <4>2
    <3>. QED  BY <3>1, <3>2
  <2>6. \A p \in 1..Len(procs) : Len(procs'[p].logs) > 0 => procs'[p].armed
    BY <2>1, <2>2, <2>4
  <2>7. \A j, k \in 1..n - 1 : timers'[j] = timers'[k] => j = k
    <3>. SUFFICES ASSUME NEW j \in 1..n - 1, NEW k \in 1..n - 1, timers'[j] = timers'[k]
                  PROVE  j = k
      OBVIOUS
    <3>1. j + 1 = k + 1
      BY <2>1, <2>3
    <3>. QED  BY <1>1, <3>1
  <2>8. Len(timers') = n - 1 /\ Len(procs') = Len(procs)
    BY <1>1, <1>6, <1>8
  <2>. QED  BY <2>5, <2>6, <2>7, <2>8 DEF TimersFit
<1>. QED  BY <1>1, <1>6, <1>8, <1>9, TypeParts, FlushedIInv DEF FlushTimer

LEMMA UnloadFlushFits == IInv /\ UnloadFlush => IInv'
<1>. SUFFICES ASSUME IInv, UnloadFlush PROVE IInv'
  OBVIOUS
<1>. DEFINE h == unloaded + 1
<1>1. h \in 1..Len(procs) /\ unloaded' = h /\ h \in 0..Len(procs)
  BY TypeParts DEF UnloadFlush
<1>2. Flush(procs, h) /\ session' = session /\ TypeOK /\ timers' = timers
  BY DEF UnloadFlush, IInv
<1>. HIDE DEF h
<1>3. /\ procs' \in Seq(Proc) /\ Len(procs') = Len(procs)
      /\ procs'[h].logs = <<>>
      /\ \A i \in 1..Len(procs) : procs'[i].armed = procs[i].armed
      /\ \A i \in 1..Len(procs) : i # h => procs'[i] = procs[i]
      /\ QueuesFit(procs)' /\ sent' \in Seq(Request) /\ shipped' \in Nat /\ SentFits'
  BY <1>1, <1>2, TypeParts, FlushFits
<1>4. TimersFit(procs, timers)'
  <2>1. TimersFit(procs, timers)
    BY TypeParts
  <2>2. \A p \in 1..Len(procs) : Len(procs'[p].logs) > 0 => Len(procs[p].logs) > 0
    BY <1>3
  <2>. QED  BY <1>2, <1>3, <2>1, <2>2 DEF TimersFit
<1>. QED  BY <1>1, <1>2, <1>3, <1>4, TypeParts, FlushedIInv DEF UnloadFlush

LEMMA QuietActionsFit ==
  IInv /\ (\/ Stop \/ DeinitRecorder \/ UnloadStart \/ UnloadEnd \/ Killed
           \/ SessionChange \/ VisibilityChange \/ Tick \/ UNCHANGED vars) => IInv'
<1>. SUFFICES ASSUME IInv,
                     \/ Stop \/ DeinitRecorder \/ UnloadStart \/ UnloadEnd \/ Killed
                     \/ SessionChange \/ VisibilityChange \/ Tick \/ UNCHANGED vars
              PROVE  IInv'
  OBVIOUS
<1>. DEFINE RecType == [known : 0..MaxSessions, age : 0..MaxRec + 1,
                        eventCounter : 1..MaxLogs + 1, logCounter : 1..MaxLogs + 1]
<1>1. /\ rec \in RecType /\ gap \in {"none", "paused", "other"}
      /\ session \in Nat /\ MaxSessions \in Nat /\ MaxRec \in Nat
  BY ConstAssumption DEF IInv, TypeOK
<1>2. session \in session..MaxSessions
  BY <1>1, TypeParts
<1>3. CASE Tick
  <2>. DEFINE r == [rec EXCEPT !.age = @ + 1]
  <2>1. rec.age \in 0..MaxRec + 1 /\ rec.age <= MaxRec
    BY <1>1, <1>3 DEF Tick
  <2>2. rec.age + 1 \in 0..MaxRec + 1
    BY <1>1, <2>1
  <2>3. /\ r \in RecType /\ r.known = rec.known
        /\ r.eventCounter = rec.eventCounter /\ r.logCounter = rec.logCounter
    BY <1>1, <2>2
  <2>4. rec' = r
    BY <1>3 DEF Tick
  <2>. HIDE DEF r
  <2>. QED  BY <1>1, <1>2, <1>3, <2>3, <2>4, TypeParts, QuietIInv DEF Tick
<1>4. CASE SessionChange
  <2>1. session' \in session..MaxSessions
    BY <1>1, <1>4 DEF SessionChange
  <2>. QED  BY <1>1, <1>4, <2>1, TypeParts, QuietIInv DEF SessionChange, recVars
<1>5. CASE VisibilityChange
  BY <1>1, <1>2, <1>5, TypeParts, QuietIInv DEF VisibilityChange, recVars
<1>6. CASE Stop
  BY <1>1, <1>2, <1>6, TypeParts, QuietIInv DEF Stop, recVars
<1>7. CASE DeinitRecorder
  BY <1>1, <1>2, <1>7, TypeParts, QuietIInv DEF DeinitRecorder
<1>8. CASE UnloadStart \/ UnloadEnd \/ Killed
  BY <1>1, <1>2, <1>8, TypeParts, QuietIInv DEF UnloadStart, UnloadEnd, Killed, recVars
<1>9. CASE UNCHANGED vars
  BY <1>1, <1>2, <1>9, TypeParts, QuietIInv DEF vars, recVars
<1>. QED  BY <1>3, <1>4, <1>5, <1>6, <1>7, <1>8, <1>9

LEMMA Invariance == Spec => []IInv
<1>1. IInv /\ [Next]_vars => IInv'
  BY InitRecorderFits, EmitActionsFit, FlushTimerFits, UnloadFlushFits, QuietActionsFit
     DEF Next
<1>. QED  BY InitIInv, <1>1, PTL DEF Spec

-----------------------------------------------------------------------------
(* What a replay begins with.                                              *)

\* The first event of a session is a full snapshot.
FirstFull(s) == \A k \in 1..Len(s) : s[k].event = 1 => s[k].kind = "full"

\* Events other than those of a pause are missing: the next emit adopts a new
\* session, with a snapshot, or is dropped as well.
Anchored(r) == r.gap = "other" => r.known # session \/ r.age > MaxRec

ReplayInv ==
  /\ Len(procs) = 0 => ~paused
  /\ Len(procs) > 0 => rec.eventCounter > 1
  /\ inited => Anchored(EmitState(rec, gap))
  /\ FirstFull(recorded)

\* What emit says when it returns.
Replays(q) ==
  /\ FirstFull(q.out)
  /\ q.out # <<>> => q.gap # "other"
  /\ Anchored(q)
  /\ q.eventCounter > 1

LEMMA FirstFullConcat ==
  ASSUME NEW s \in Seq(WideLog), NEW t \in Seq(WideLog), FirstFull(s), FirstFull(t)
  PROVE  FirstFull(s \o t)
<1>1. /\ Len(s) \in Nat /\ Len(t) \in Nat /\ Len(s \o t) = Len(s) + Len(t)
      /\ \A i \in 1..Len(s) + Len(t) :
           (s \o t)[i] = IF i <= Len(s) THEN s[i] ELSE t[i - Len(s)]
  BY ConcatFacts
<1>. SUFFICES ASSUME NEW k \in 1..Len(s \o t), (s \o t)[k].event = 1
              PROVE  (s \o t)[k].kind = "full"
  BY DEF FirstFull
<1>2. CASE k <= Len(s)
  BY <1>1, <1>2 DEF FirstFull
<1>3. CASE k > Len(s)
  <2>1. k - Len(s) \in 1..Len(t) /\ (s \o t)[k] = t[k - Len(s)]
    BY <1>1, <1>3
  <2>. QED  BY <2>1 DEF FirstFull
<1>. QED  BY <1>1, <1>2, <1>3

\* The first event is recorded by a snapshot only, and a snapshot closes the gap.
LEMMA RecordReplays ==
  ASSUME TypeOK, NEW r \in EmitRec, r.known = session, NEW kind \in {"full", "incr"},
         NEW n \in 1..MaxChunks, FirstFull(r.out),
         kind = "full" \/ (r.eventCounter > 1 /\ r.gap # "other")
  PROVE  LET q == Record(r, kind, n) IN
         Replays(q) /\ q.known = session /\ q.age = r.age /\ q \in EmitRec
<1>. DEFINE c == ChunkLogs(r, kind, n)
            q == Record(r, kind, n)
<1>1. n \in Nat /\ n >= 1 /\ session \in 1..MaxSessions /\ r.eventCounter \in Nat
      /\ r.eventCounter >= 1 /\ r.out \in Seq(WideLog)
  BY ConstAssumption DEF TypeOK, EmitRec
<1>2. c \in Seq(WideLog) /\ Len(c) = n
      /\ \A i \in 1..n : c[i].event = r.eventCounter
  BY <1>1, ChunkFacts
<1>3. \A i \in 1..n : c[i].kind = kind
  BY DEF ChunkLogs
<1>4. /\ q.known = r.known /\ q.eventCounter = r.eventCounter + 1
      /\ q.out = r.out \o c /\ q \in EmitRec
  BY <1>1, <1>2, RecordFields
<1>5. q.age = r.age /\ (q.gap = IF kind = "full" THEN "none" ELSE r.gap)
  BY DEF Record, EmitRec
<1>. HIDE DEF c, q
<1>6. FirstFull(c)
  BY <1>1, <1>2, <1>3 DEF FirstFull
<1>7. FirstFull(q.out)
  BY <1>1, <1>2, <1>4, <1>6, FirstFullConcat
<1>8. q.gap # "other"
  BY <1>5
<1>. QED  BY <1>1, <1>4, <1>5, <1>7, <1>8 DEF Replays, Anchored, q

\* After the check of the session, where only a recording that is too old drops.
LEMMA EmitKnownReplays ==
  ASSUME TypeOK, NEW r \in EmitRec, r.known = session, NEW kind \in {"full", "incr"},
         NEW n \in 0..MaxChunks, FirstFull(r.out),
         r.out # <<>> => r.gap # "other" /\ r.age <= MaxRec,
         r.eventCounter > 1 \/ (kind = "full" /\ n # 0 /\ r.age <= MaxRec),
         r.gap = "other" => r.age > MaxRec \/ (kind = "full" /\ n # 0)
  PROVE  LET q == EmitKnown(r, kind, n) IN Replays(q)
<1>1. MaxChunks \in Nat /\ MaxRec \in Nat /\ r.age \in Nat
  BY ConstAssumption DEF EmitRec
<1>2. CASE r.age > MaxRec
  <2>1. EmitKnown(r, kind, n) = Drop(r, "other")
    BY <1>1, <1>2 DEF EmitKnown
  <2>2. LET q == Drop(r, "other") IN
        q.out = r.out /\ q.eventCounter = r.eventCounter /\ q.age = r.age
    BY DEF Drop, EmitRec
  <2>3. r.out = <<>> /\ r.eventCounter > 1
    BY <1>1, <1>2
  <2>. QED  BY <1>2, <2>1, <2>2, <2>3 DEF Replays, Anchored
<1>3. CASE r.age <= MaxRec /\ n = 0
  <2>1. EmitKnown(r, kind, n) = r
    BY <1>1, <1>3 DEF EmitKnown
  <2>. QED  BY <1>1, <1>3, <2>1 DEF Replays, Anchored
<1>4. CASE r.age <= MaxRec /\ n # 0
  <2>1. n \in 1..MaxChunks
    BY <1>1, <1>4
  <2>2. EmitKnown(r, kind, n) = Record(r, kind, n)
    BY <1>1, <1>4 DEF EmitKnown
  <2>3. kind = "full" \/ (r.eventCounter > 1 /\ r.gap # "other")
    BY <1>1, <1>4
  <2>. QED  BY <2>1, <2>2, <2>3, RecordReplays
<1>. QED  BY <1>1, <1>2, <1>3, <1>4

LEMMA AdoptReplays ==
  ASSUME TypeOK, NEW r \in EmitRec, r.out = <<>>, NEW m \in 1..MaxChunks
  PROVE  LET q == Adopt(r, m) IN
         /\ q \in EmitRec /\ Replays(q) /\ q.known = session /\ q.age = 0
         /\ q.gap # "other"
<1>. DEFINE p == [r EXCEPT !.known = session, !.age = 0,
                           !.eventCounter = 1, !.logCounter = 1]
<1>1. session \in 1..MaxSessions /\ MaxRec \in Nat /\ MaxChunks \in Nat
  BY ConstAssumption DEF TypeOK
<1>2. /\ p \in EmitRec /\ p.known = session /\ p.age = 0 /\ p.out = <<>>
  <2>1. session \in 0..MaxSessions /\ 0 \in 0..MaxRec + 1 /\ 1 \in Nat \ {0}
    BY <1>1
  <2>. QED  BY <2>1 DEF EmitRec
<1>3. Adopt(r, m) = Record(p, "full", m)
  <2>1. m # 0
    BY <1>1
  <2>. QED  BY <1>1, <1>2, <2>1 DEF Adopt, EmitKnown
<1>4. FirstFull(p.out)
  BY <1>2 DEF FirstFull
<1>5. Record(p, "full", m).gap = "none"
  BY <1>2 DEF Record, EmitRec
<1>. HIDE DEF p
<1>. QED  BY <1>2, <1>3, <1>4, <1>5, RecordReplays

\* An emit that is not nested in another one.
LEMMA EmitReplays ==
  ASSUME TypeOK, NEW r \in EmitRec, r.out = <<>>, NEW kind \in {"full", "incr"},
         NEW n \in 0..MaxChunks, NEW m \in 0..MaxChunks, m = 0 => r.known = session,
         \/ Anchored(r) /\ r.eventCounter > 1
         \/ /\ kind = "full" /\ n # 0 /\ r.known = session /\ r.age = 0
            /\ paused => r.eventCounter > 1
  PROVE  Replays(Emit(r, kind, n, m))
<1>1. MaxChunks \in Nat /\ MaxRec \in Nat /\ r.age \in Nat /\ r.eventCounter \in Nat
  BY ConstAssumption DEF EmitRec
<1>2. FirstFull(r.out) /\ FirstFull(<<>>)
  BY DEF FirstFull
<1>3. CASE paused
  <2>1. Emit(r, kind, n, m) = Drop(r, "paused")
    BY <1>3 DEF Emit
  <2>2. LET q == Drop(r, "paused") IN
        q.out = <<>> /\ q.eventCounter = r.eventCounter /\ q.gap # "other"
    BY DEF Drop, EmitRec
  <2>. QED  BY <1>2, <1>3, <2>1, <2>2 DEF Replays, Anchored
<1>4. CASE ~paused /\ session # r.known /\ hidden
  <2>1. Emit(r, kind, n, m) = Drop(r, "other")
    BY <1>4 DEF Emit
  <2>2. LET q == Drop(r, "other") IN
        q.out = <<>> /\ q.eventCounter = r.eventCounter /\ q.known = r.known
    BY DEF Drop, EmitRec
  <2>. QED  BY <1>2, <1>4, <2>1, <2>2 DEF Replays, Anchored
<1>5. CASE ~paused /\ session # r.known /\ ~hidden
  <2>1. Emit(r, kind, n, m) = EmitKnown(Adopt(r, m), kind, n)
    BY <1>5 DEF Emit
  <2>2. m \in 1..MaxChunks
    BY <1>1, <1>5
  <2>. QED  BY <1>1, <2>1, <2>2, AdoptReplays, EmitKnownReplays DEF Replays
<1>6. CASE ~paused /\ session = r.known
  <2>1. Emit(r, kind, n, m) = EmitKnown(r, kind, n)
    BY <1>6 DEF Emit
  <2>. QED  BY <1>1, <1>2, <1>6, <2>1, EmitKnownReplays DEF Anchored
<1>. QED  BY <1>3, <1>4, <1>5, <1>6 DEF TypeOK

\* What a commit leaves: the invariant, and an answer to ReplayAnchored.
LEMMA CommitReplays ==
  ASSUME IInv, FirstFull(recorded), NEW r \in EmitRec, Replays(r), NEW ps,
         Commit(r, ps), session' = session, paused' \in BOOLEAN, Len(procs') > 0
  PROVE  ReplayInv' /\ (recorded' = recorded \/ gap' # "other")
<1>1. /\ rec'.eventCounter = r.eventCounter /\ rec'.known = r.known
      /\ rec'.age = r.age /\ gap' = r.gap /\ recorded' = recorded \o r.out
  BY DEF Commit
<1>2. recorded \in Seq(WideLog) /\ r.out \in Seq(WideLog)
  BY RecordedWide DEF IInv, EmitRec
<1>3. FirstFull(recorded')
  BY <1>1, <1>2, FirstFullConcat DEF Replays
<1>4. Anchored(EmitState(rec, gap))'
  BY <1>1 DEF Replays, Anchored, EmitState
<1>5. r.out = <<>> => recorded' = recorded
  BY <1>1, <1>2, ConcatEmptySeq
<1>6. ~(Len(procs') = 0)
  OBVIOUS
<1>. QED  BY <1>1, <1>3, <1>4, <1>5, <1>6 DEF ReplayInv, Replays, FirstFull

LEMMA InitReplayInv == Init => ReplayInv
BY DEF Init, ReplayInv, FirstFull, Anchored, EmitState

LEMMA InitRecorderReplays ==
  ASSUME IInv, ReplayInv, InitRecorder
  PROVE  ReplayInv' /\ (recorded' = recorded \/ gap' # "other")
<1>. DEFINE r == [EmitState(rec, gap) EXCEPT !.known = session, !.age = 0]
            ps == Append(procs, [logs |-> <<>>, armed |-> FALSE])
<1>1. PICK n \in Sizes : Commit(Emit(r, "full", n, 0), ps)
  BY DEF InitRecorder
<1>2. n \in 0..MaxChunks /\ 0 \in 0..MaxChunks /\ n # 0
  BY <1>1, ConstAssumption DEF Sizes
<1>3. r \in EmitRec /\ EmitFits(r) /\ r.known = session
  BY InitStateFits
<1>4. r.out = <<>> /\ r.age = 0 /\ r.eventCounter = rec.eventCounter
  BY DEF EmitState
<1>5. TypeOK /\ paused' = paused /\ session' = session /\ paused \in BOOLEAN
      /\ Len(procs) \in Nat /\ procs \in Seq(Proc)
  BY TypeParts DEF IInv, InitRecorder
<1>6. paused => rec.eventCounter > 1
  BY <1>5 DEF ReplayInv
<1>. HIDE DEF r
<1>7. Replays(Emit(r, "full", n, 0))
  BY <1>2, <1>3, <1>4, <1>5, <1>6, EmitReplays
<1>8. Emit(r, "full", n, 0) \in EmitRec
  BY <1>2, <1>3, <1>5, EmitFitsLemma DEF EmitFits
<1>9. Len(procs') > 0
  BY InitRecorderFits DEF InitRecorder, IInv
<1>. QED  BY <1>1, <1>5, <1>7, <1>8, <1>9, CommitReplays DEF ReplayInv

\* An emit of a running recorder, for an event or a snapshot.
LEMMA RunningEmitReplays ==
  ASSUME IInv, ReplayInv, inited, NEW kind \in {"full", "incr"},
         NEW n \in 0..MaxChunks, NEW m \in Sizes,
         Commit(Emit(EmitState(rec, gap), kind, n, m), procs),
         session' = session, paused' \in BOOLEAN, Len(procs') > 0
  PROVE  ReplayInv' /\ (recorded' = recorded \/ gap' # "other")
<1>. DEFINE r == EmitState(rec, gap)
<1>1. m \in 0..MaxChunks /\ m # 0 /\ TypeOK
  BY ConstAssumption DEF Sizes, IInv
<1>2. r \in EmitRec /\ EmitFits(r)
  BY EmitStateFits
<1>3. r.out = <<>> /\ r.eventCounter = rec.eventCounter
  BY DEF EmitState
<1>4. Anchored(r) /\ r.eventCounter > 1 /\ FirstFull(recorded)
  BY <1>3 DEF IInv, ReplayInv
<1>. HIDE DEF r
<1>5. Replays(Emit(r, kind, n, m)) /\ Emit(r, kind, n, m) \in EmitRec
  BY <1>1, <1>2, <1>3, <1>4, EmitReplays, EmitFitsLemma DEF EmitFits
<1>. QED  BY <1>4, <1>5, CommitReplays DEF r

LEMMA StepReplays ==
  ASSUME IInv, ReplayInv, [Next]_vars
  PROVE  ReplayInv' /\ (recorded' = recorded \/ gap' # "other")
<1>. DEFINE Goal == ReplayInv' /\ (recorded' = recorded \/ gap' # "other")
<1>1. IInv'
  BY InitRecorderFits, EmitActionsFit, FlushTimerFits, UnloadFlushFits, QuietActionsFit
     DEF Next
<1>2. Len(procs) \in Nat /\ (inited => Len(procs) > 0) /\ procs \in Seq(Proc)
  BY TypeParts DEF IInv
<1>3. ASSUME inited, TakeFullSnapshot, session' = session, paused' \in BOOLEAN,
             inited' = inited
      PROVE  Goal
  <2>1. PICK n, m \in Sizes : Commit(Emit(EmitState(rec, gap), "full", n, m), procs)
    BY <1>3 DEF TakeFullSnapshot
  <2>2. n \in 0..MaxChunks
    BY <2>1, ConstAssumption DEF Sizes
  <2>3. Len(procs') > 0
    BY <1>1, <1>3 DEF IInv
  <2>. QED  BY <1>3, <2>1, <2>2, <2>3, RunningEmitReplays
\* a step that emits nothing
<1>4. ASSUME UNCHANGED recorded, Len(procs') = Len(procs),
             rec'.eventCounter = rec.eventCounter, Len(procs) = 0 => paused' = paused,
             inited' => Anchored(EmitState(rec, gap))'
      PROVE  Goal
  BY <1>4 DEF ReplayInv, FirstFull
<1>5. CASE InitRecorder
  BY <1>5, InitRecorderReplays
<1>6. CASE Resume
  <2>1. CASE paused
    BY <1>2, <1>4, <1>6, <2>1 DEF Resume, recVars, ReplayInv, Anchored, EmitState
  <2>2. CASE ~paused
    BY <1>3, <1>6, <2>2 DEF Resume
  <2>. QED  BY <2>1, <2>2
<1>7. CASE Stop
  BY <1>2, <1>4, <1>7 DEF Stop, recVars, ReplayInv, Anchored, EmitState
<1>8. CASE DeinitRecorder
  BY <1>4, <1>8 DEF DeinitRecorder
<1>9. CASE DomEvent
  <2>1. PICK n \in 0..MaxChunks, m \in Sizes :
          Commit(Emit(EmitState(rec, gap), "incr", n, m), procs)
    BY <1>9 DEF DomEvent
  <2>2. inited /\ session' = session /\ paused' \in BOOLEAN /\ Len(procs') > 0
    BY <1>1, <1>9, TypeParts DEF DomEvent, IInv
  <2>. QED  BY <2>1, <2>2, RunningEmitReplays
<1>10. CASE SnapTimerFires
  <2>1. CASE inited
    BY <1>3, <1>10, <2>1, TypeParts DEF SnapTimerFires
  <2>2. CASE ~inited
    BY <1>4, <1>10, <2>2 DEF SnapTimerFires, recVars
  <2>. QED  BY <2>1, <2>2
<1>11. CASE FlushTimer \/ UnloadFlush
  <2>1. Len(procs') = Len(procs)
    BY <1>2, <1>11 DEF FlushTimer, UnloadFlush, Flush
  <2>. QED  BY <1>4, <1>11, <2>1
            DEF FlushTimer, UnloadFlush, recVars, ReplayInv, Anchored, EmitState
<1>12. CASE UnloadStart \/ UnloadEnd \/ Killed \/ VisibilityChange \/ UNCHANGED vars
  BY <1>4, <1>12 DEF UnloadStart, UnloadEnd, Killed, VisibilityChange, vars, recVars,
                     ReplayInv, Anchored, EmitState
<1>13. CASE SessionChange
  <2>1. rec.known \in Nat /\ rec.known <= session /\ session \in Nat /\ session' = session + 1
    BY <1>13, ConstAssumption DEF SessionChange, IInv, Numbered, TypeOK
  <2>. QED  BY <1>4, <1>13, <2>1
            DEF SessionChange, recVars, ReplayInv, Anchored, EmitState
<1>14. CASE Tick
  <2>1. rec' = [rec EXCEPT !.age = @ + 1] /\ rec.age \in 0..MaxRec + 1 /\ MaxRec \in Nat
    BY <1>14, ConstAssumption DEF Tick, IInv, TypeOK
  <2>2. rec'.eventCounter = rec.eventCounter /\ rec'.known = rec.known
        /\ rec'.age = rec.age + 1
    BY <2>1 DEF IInv, TypeOK
  <2>. QED  BY <1>4, <1>14, <2>1, <2>2 DEF Tick, ReplayInv, Anchored, EmitState
<1>. QED
  BY <1>5, <1>6, <1>7, <1>8, <1>9, <1>10, <1>11, <1>12, <1>13, <1>14 DEF Next

LEMMA ReplayInvariance == Spec => [](IInv /\ ReplayInv)
<1>1. Init => ReplayInv
  BY InitReplayInv
<1>2. IInv /\ ReplayInv /\ [Next]_vars => ReplayInv'
  BY StepReplays
<1>. QED  BY Invariance, <1>1, <1>2, PTL DEF Spec

-----------------------------------------------------------------------------
(* The delivery contract.                                                  *)

\* The queues hold, one after the other, what was recorded and has not left: the
\* logs of queue p come after place C[p] and end at place C[p + 1].  Queues that
\* hold nothing lie between equal cuts.
Cuts(C, ps, rs, n) ==
  /\ C \in [1..Len(ps) + 1 -> 0..Len(rs)]
  /\ C[1] = n
  /\ C[Len(ps) + 1] = Len(rs)
  /\ \A p \in 1..Len(ps) :
       /\ C[p + 1] = C[p] + Len(ps[p].logs)
       /\ \A i \in 1..Len(ps[p].logs) : ps[p].logs[i] = rs[C[p] + i]
  /\ \A p, q \in 1..Len(ps) + 1 :
       p <= q /\ (\A i \in p..q - 1 : Len(ps[i].logs) = 0) => C[p] = C[q]

\* Timers fire in the order the processors were made.
Ordered(ts) == \A j, k \in 1..Len(ts) : j < k => ts[j] < ts[k]

DeliveryInv ==
  /\ Ordered(timers)
  /\ page = "up" => unloaded = 0
  /\ \A p \in 1..unloaded : Len(procs[p].logs) = 0
  /\ \E C \in [1..Len(procs) + 1 -> 0..Len(recorded)] : Cuts(C, procs, recorded, shipped)

\* A new processor has an empty queue at the end of the recording.
LEMMA CutsAppend ==
  ASSUME NEW ps \in Seq(Proc), NEW e \in Proc, Len(e.logs) = 0,
         NEW rs \in Seq(WideLog), NEW n, NEW C, Cuts(C, ps, rs, n)
  PROVE  \E D : Cuts(D, Append(ps, e), rs, n)
<1>. DEFINE c == Len(ps)
            D == [i \in 1..c + 2 |-> IF i <= c + 1 THEN C[i] ELSE Len(rs)]
            qs == Append(ps, e)
<1>1. c \in Nat /\ Len(rs) \in Nat
  OBVIOUS
<1>2. /\ Len(qs) = c + 1
      /\ \A i \in 1..c + 1 : qs[i] = IF i <= c THEN ps[i] ELSE e
  BY AppendFacts
<1>3. /\ C \in [1..c + 1 -> 0..Len(rs)] /\ C[1] = n /\ C[c + 1] = Len(rs)
      /\ \A p \in 1..c : /\ C[p + 1] = C[p] + Len(ps[p].logs)
                         /\ \A i \in 1..Len(ps[p].logs) : ps[p].logs[i] = rs[C[p] + i]
      /\ \A p, q \in 1..c + 1 :
           p <= q /\ (\A i \in p..q - 1 : Len(ps[i].logs) = 0) => C[p] = C[q]
  BY DEF Cuts
<1>. HIDE DEF c, qs
<1>4. /\ D \in [1..c + 2 -> 0..Len(rs)]
      /\ \A i \in 1..c + 1 : D[i] = C[i]
      /\ D[c + 2] = Len(rs)
  BY <1>1, <1>3
<1>. HIDE DEF D
<1>5. ASSUME NEW p \in 1..c + 1
      PROVE  /\ D[p + 1] = D[p] + Len(qs[p].logs)
             /\ \A i \in 1..Len(qs[p].logs) : qs[p].logs[i] = rs[D[p] + i]
  <2>1. CASE p <= c
    <3>1. p \in 1..c /\ p \in 1..c + 1 /\ p + 1 \in 1..c + 1 /\ qs[p] = ps[p]
      BY <1>1, <1>2, <2>1
    <3>. QED  BY <1>3, <1>4, <3>1
  <2>2. CASE p = c + 1
    <3>1. qs[p] = e /\ p + 1 = c + 2 /\ D[p] = Len(rs)
      BY <1>1, <1>2, <1>3, <1>4, <2>2
    <3>. QED  BY <1>1, <1>4, <3>1
  <2>. QED  BY <1>1, <2>1, <2>2
<1>6. ASSUME NEW p \in 1..c + 2, NEW q \in 1..c + 2, p <= q,
             \A i \in p..q - 1 : Len(qs[i].logs) = 0
      PROVE  D[p] = D[q]
  <2>1. CASE q <= c + 1
    <3>1. /\ p \in 1..c + 1 /\ q \in 1..c + 1
          /\ \A i \in p..q - 1 : Len(ps[i].logs) = 0
      BY <1>1, <1>2, <1>6, <2>1
    <3>. QED  BY <1>3, <1>4, <1>6, <3>1
  <2>2. CASE q = c + 2 /\ p <= c + 1
    <3>1. /\ p \in 1..c + 1 /\ c + 1 \in 1..c + 1
          /\ \A i \in p..(c + 1) - 1 : i \in p..q - 1 /\ qs[i] = ps[i]
      BY <1>1, <1>2, <2>2
    <3>2. \A i \in p..(c + 1) - 1 : Len(ps[i].logs) = 0
      BY <1>6, <3>1
    <3>3. C[p] = C[c + 1]
      BY <1>3, <2>2, <3>1, <3>2
    <3>. QED  BY <1>3, <1>4, <2>2, <3>1, <3>3
  <2>3. CASE p = c + 2
    BY <1>1, <1>6, <2>3
  <2>. QED  BY <1>1, <2>1, <2>2, <2>3
<1>7. D[1] = n /\ Len(qs) + 1 = c + 2
  BY <1>1, <1>2, <1>3, <1>4
<1>8. Cuts(D, qs, rs, n)
  <2>1. D \in [1..Len(qs) + 1 -> 0..Len(rs)] /\ D[Len(qs) + 1] = Len(rs)
    BY <1>4, <1>7
  <2>2. \A p \in 1..Len(qs) : /\ D[p + 1] = D[p] + Len(qs[p].logs)
                             /\ \A i \in 1..Len(qs[p].logs) : qs[p].logs[i] = rs[D[p] + i]
    BY <1>2, <1>5
  <2>3. \A p, q \in 1..Len(qs) + 1 :
          p <= q /\ (\A i \in p..q - 1 : Len(qs[i].logs) = 0) => D[p] = D[q]
    BY <1>6, <1>7
  <2>. QED  BY <1>7, <2>1, <2>2, <2>3 DEF Cuts
<1>. QED  BY <1>8 DEF qs

\* New logs go to the last queue and to the end of the recording.
LEMMA CutsCommit ==
  ASSUME NEW ps \in Seq(Proc), Len(ps) > 0,
         NEW rs \in Seq(WideLog), NEW out \in Seq(WideLog),
         NEW n, NEW C, Cuts(C, ps, rs, n)
  PROVE  \E D : Cuts(D, OnLogs(ps, Len(ps), out), rs \o out, n)
<1>. DEFINE c == Len(ps)
            l == ps[c].logs
            a == (ps[c].armed \/ out # <<>>)
            m == l \o out
            e == [logs |-> m, armed |-> a]
            qs == [ps EXCEPT ![c] = e]
            rt == rs \o out
            D == [C EXCEPT ![c + 1] = Len(rt)]
<1>1. c \in Nat /\ c >= 1 /\ c \in 1..c /\ Len(rs) \in Nat /\ Len(out) \in Nat
  OBVIOUS
<1>2. l \in Seq(WideLog) /\ Len(l) \in Nat
  <2>1. ps[c] \in Proc
    BY <1>1, ElementOfSeq
  <2>2. l \in Seq(Log)
    BY <2>1 DEF Proc
  <2>3. Log \subseteq WideLog
    BY ConstAssumption DEF Log, WideLog
  <2>. QED  BY <2>2, <2>3, SeqMonotonic
<1>3. /\ Len(m) = Len(l) + Len(out)
      /\ \A i \in 1..Len(l) + Len(out) : m[i] = IF i <= Len(l) THEN l[i] ELSE out[i - Len(l)]
  BY <1>2, ConcatFacts
<1>4. /\ Len(rt) = Len(rs) + Len(out)
      /\ \A i \in 1..Len(rs) : rt[i] = rs[i]
      /\ \A i \in 1..Len(out) : rt[Len(rs) + i] = out[i]
  BY ConcatFacts
<1>5. /\ C \in [1..c + 1 -> 0..Len(rs)] /\ C[1] = n /\ C[c + 1] = Len(rs)
      /\ \A p \in 1..c : /\ C[p + 1] = C[p] + Len(ps[p].logs)
                         /\ \A i \in 1..Len(ps[p].logs) : ps[p].logs[i] = rs[C[p] + i]
      /\ \A p, q \in 1..c + 1 :
           p <= q /\ (\A i \in p..q - 1 : Len(ps[i].logs) = 0) => C[p] = C[q]
  BY DEF Cuts
<1>6. e.logs = m
  OBVIOUS
<1>7. OnLogs(ps, c, out) = qs
  BY DEF OnLogs
<1>8. \A p \in 1..c : Len(ps[p].logs) \in Nat
  <2>. SUFFICES ASSUME NEW p \in 1..c PROVE Len(ps[p].logs) \in Nat
    OBVIOUS
  <2>1. ps[p] \in Proc
    BY ElementOfSeq
  <2>. QED  BY <2>1 DEF Proc
<1>. HIDE DEF e, m, rt
<1>9. /\ Len(qs) = c /\ qs[c] = e
      /\ \A i \in 1..c : i # c => qs[i] = ps[i]
  BY <1>1
<1>. HIDE DEF c
<1>10. /\ D \in [1..c + 1 -> 0..Len(rt)]
       /\ \A i \in 1..c : D[i] = C[i]
       /\ D[c + 1] = Len(rt)
  BY <1>1, <1>4, <1>5
<1>. HIDE DEF D, qs, l
<1>11. Len(rs) = C[c] + Len(l) /\ C[c] \in Nat
  BY <1>1, <1>5 DEF l
<1>12. ASSUME NEW p \in 1..c
       PROVE  /\ D[p + 1] = D[p] + Len(qs[p].logs)
              /\ \A i \in 1..Len(qs[p].logs) : qs[p].logs[i] = rt[D[p] + i]
  <2>1. CASE p < c
    <3>1. p \in 1..c /\ p + 1 \in 1..c /\ qs[p] = ps[p] /\ D[p] = C[p] /\ D[p + 1] = C[p + 1]
      BY <1>1, <1>9, <1>10, <2>1
    <3>2. C[p] \in 0..Len(rs) /\ C[p + 1] \in 0..Len(rs)
      BY <1>1, <1>5, <3>1
    <3>3. C[p + 1] = C[p] + Len(ps[p].logs) /\ Len(ps[p].logs) \in Nat
      BY <1>5, <1>8
    <3>4. \A i \in 1..Len(ps[p].logs) : C[p] + i \in 1..Len(rs)
      BY <1>1, <3>2, <3>3
    <3>5. \A i \in 1..Len(ps[p].logs) : ps[p].logs[i] = rs[C[p] + i]
      BY <1>5
    <3>6. \A i \in 1..Len(ps[p].logs) : ps[p].logs[i] = rt[C[p] + i]
      BY <1>4, <3>4, <3>5
    <3>. QED  BY <3>1, <3>3, <3>6
  <2>2. CASE p = c
    <3>1. qs[p].logs = m /\ D[p] = C[c] /\ D[p + 1] = Len(rs) + Len(out)
      BY <1>1, <1>4, <1>6, <1>9, <1>10, <2>2
    <3>2. Len(rs) + Len(out) = C[c] + Len(m)
      BY <1>1, <1>2, <1>3, <1>11
    <3>3. ASSUME NEW i \in 1..Len(m) PROVE m[i] = rt[C[c] + i]
      <4>1. CASE i <= Len(l)
        <5>1. i \in 1..Len(l) /\ C[c] + i \in 1..Len(rs)
          BY <1>1, <1>2, <1>11, <4>1
        <5>2. l[i] = rs[C[c] + i]
          BY <1>1, <1>5, <5>1 DEF l
        <5>3. m[i] = l[i]
          BY <1>3, <4>1
        <5>. QED  BY <1>4, <5>1, <5>2, <5>3
      <4>2. CASE ~(i <= Len(l))
        <5>1. i - Len(l) \in 1..Len(out) /\ C[c] + i = Len(rs) + (i - Len(l))
          BY <1>1, <1>2, <1>3, <1>11, <4>2
        <5>2. m[i] = out[i - Len(l)]
          BY <1>3, <4>2
        <5>. QED  BY <1>4, <5>1, <5>2
      <4>. QED  BY <4>1, <4>2
    <3>. QED  BY <3>1, <3>2, <3>3
  <2>. QED  BY <1>1, <2>1, <2>2
<1>13. ASSUME NEW p \in 1..c + 1, NEW q \in 1..c + 1, p <= q,
              \A i \in p..q - 1 : Len(qs[i].logs) = 0
       PROVE  D[p] = D[q]
  <2>1. CASE q <= c
    <3>1. /\ p \in 1..c /\ q \in 1..c
          /\ \A i \in p..q - 1 : i \in 1..c /\ i # c
      BY <1>1, <1>13, <2>1
    <3>2. \A i \in p..q - 1 : Len(ps[i].logs) = 0
      BY <1>9, <1>13, <3>1
    <3>3. C[p] = C[q]
      BY <1>5, <1>13, <3>2
    <3>. QED  BY <1>10, <3>1, <3>3
  <2>2. CASE q = c + 1 /\ p <= c
    <3>1. /\ c \in p..q - 1 /\ p \in 1..c
          /\ \A i \in p..q - 1 : i \in 1..c
      BY <1>1, <2>2
    <3>2. Len(m) = 0
      BY <1>6, <1>9, <1>13, <3>1
    <3>3. Len(l) = 0 /\ Len(out) = 0
      <4>1. Len(l) + Len(out) = 0
        BY <1>3, <3>2
      <4>2. Len(l) \in Nat /\ Len(out) \in Nat
        BY <1>1, <1>2
      <4>. QED  BY <4>1, <4>2
    <3>4. \A i \in p..q - 1 : Len(ps[i].logs) = 0
      <4>. SUFFICES ASSUME NEW i \in p..q - 1 PROVE Len(ps[i].logs) = 0
        OBVIOUS
      <4>1. CASE i = c
        BY <3>3, <4>1 DEF l
      <4>2. CASE i # c
        <5>1. qs[i] = ps[i] /\ Len(qs[i].logs) = 0
          BY <1>9, <1>13, <3>1, <4>2
        <5>. QED  BY <5>1
      <4>. QED  BY <4>1, <4>2
    <3>5. C[p] = C[q]
      BY <1>5, <1>13, <3>4
    <3>. QED  BY <1>1, <1>4, <1>5, <1>10, <2>2, <3>1, <3>3, <3>5
  <2>3. CASE q = p
    BY <2>3
  <2>. QED  BY <1>1, <1>13, <2>1, <2>2, <2>3
<1>14. D[1] = n
  BY <1>1, <1>5, <1>10
<1>15. Cuts(D, qs, rt, n)
  BY <1>9, <1>10, <1>12, <1>13, <1>14 DEF Cuts
<1>. QED  BY <1>7, <1>15 DEF c, rt

\* qs is ps with queue h emptied, the queues before it being empty.
FirstEmptied(ps, h, qs) ==
  /\ \A i \in 1..h - 1 : Len(ps[i].logs) = 0
  /\ Len(qs) = Len(ps)
  /\ Len(qs[h].logs) = 0
  /\ \A i \in 1..Len(ps) : i # h => qs[i] = ps[i]

\* A flush of the first queue that is not empty takes the oldest logs that have not
\* left the page.
LEMMA CutsFlush ==
  ASSUME NEW ps \in Seq(Proc), NEW h \in 1..Len(ps), NEW rs \in Seq(WideLog),
         NEW qs, FirstEmptied(ps, h, qs),
         NEW n, NEW C, Cuts(C, ps, rs, n)
  PROVE  /\ \E D : Cuts(D, qs, rs, n + Len(ps[h].logs))
         /\ n \in Nat
         /\ n + Len(ps[h].logs) <= Len(rs)
         /\ \A i \in 1..Len(ps[h].logs) : ps[h].logs[i] = rs[n + i]
<1>. DEFINE c == Len(ps)
            k == Len(ps[h].logs)
            D == [i \in 1..c + 1 |-> IF i <= h THEN C[h + 1] ELSE C[i]]
<1>1. c \in Nat /\ h \in 1..c /\ Len(rs) \in Nat /\ k \in Nat
  <2>1. ps[h] \in Proc
    BY ElementOfSeq
  <2>2. k \in Nat
    BY <2>1 DEF Proc
  <2>. QED  BY <2>2
<1>2. /\ C \in [1..c + 1 -> 0..Len(rs)] /\ C[1] = n /\ C[c + 1] = Len(rs)
      /\ \A p \in 1..c : /\ C[p + 1] = C[p] + Len(ps[p].logs)
                         /\ \A i \in 1..Len(ps[p].logs) : ps[p].logs[i] = rs[C[p] + i]
      /\ \A p, q \in 1..c + 1 :
           p <= q /\ (\A i \in p..q - 1 : Len(ps[i].logs) = 0) => C[p] = C[q]
  BY DEF Cuts
<1>3. /\ Len(qs) = c /\ Len(qs[h].logs) = 0
      /\ \A i \in 1..c : i # h => qs[i] = ps[i]
      /\ \A i \in 1..h - 1 : Len(ps[i].logs) = 0
  BY DEF FirstEmptied
<1>. HIDE DEF c
<1>4. C[h] = n
  <2>1. 1 \in 1..c + 1 /\ h \in 1..c + 1 /\ 1 <= h
    BY <1>1
  <2>. QED  BY <1>2, <1>3, <2>1
<1>5. C[h + 1] = n + k /\ \A i \in 1..k : ps[h].logs[i] = rs[n + i]
  <2>1. /\ C[h + 1] = C[h] + Len(ps[h].logs)
        /\ \A i \in 1..Len(ps[h].logs) : ps[h].logs[i] = rs[C[h] + i]
    BY <1>1, <1>2
  <2>. QED  BY <1>4, <2>1
<1>6. h \in 1..c + 1 /\ h + 1 \in 1..c + 1
  BY <1>1
<1>7. n \in Nat /\ n + k \in 0..Len(rs)
  BY <1>1, <1>2, <1>4, <1>5, <1>6
<1>8. /\ D \in [1..c + 1 -> 0..Len(rs)]
      /\ \A i \in 1..c + 1 : i <= h => D[i] = n + k
      /\ \A i \in 1..c + 1 : i > h => D[i] = C[i]
      /\ D[h + 1] = n + k
  BY <1>1, <1>2, <1>5, <1>6, <1>7
<1>. HIDE DEF D, k
<1>9. ASSUME NEW p \in 1..c
      PROVE  /\ D[p + 1] = D[p] + Len(qs[p].logs)
             /\ \A i \in 1..Len(qs[p].logs) : qs[p].logs[i] = rs[D[p] + i]
  <2>1. CASE p < h
    <3>1. /\ p \in 1..h - 1 /\ p # h /\ p \in 1..c + 1 /\ p + 1 \in 1..c + 1
          /\ p <= h /\ p + 1 <= h
      BY <1>1, <2>1
    <3>2. Len(qs[p].logs) = 0
      BY <1>3, <3>1
    <3>3. D[p] = n + k /\ D[p + 1] = n + k
      BY <1>8, <3>1
    <3>. QED  BY <1>1, <1>7, <3>2, <3>3
  <2>2. CASE p = h
    <3>1. D[p] = n + k /\ D[p + 1] = n + k /\ Len(qs[p].logs) = 0
      BY <1>1, <1>3, <1>6, <1>8, <2>2
    <3>. QED  BY <1>1, <1>7, <3>1
  <2>3. CASE p > h
    <3>1. p # h /\ p \in 1..c + 1 /\ p + 1 \in 1..c + 1 /\ p + 1 > h
      BY <1>1, <2>3
    <3>2. D[p] = C[p] /\ D[p + 1] = C[p + 1] /\ qs[p] = ps[p]
      BY <1>3, <1>8, <2>3, <3>1
    <3>. QED  BY <1>2, <3>2
  <2>. QED  BY <1>1, <2>1, <2>2, <2>3
<1>10. ASSUME NEW p \in 1..c + 1, NEW q \in 1..c + 1, p <= q,
              \A i \in p..q - 1 : Len(qs[i].logs) = 0
       PROVE  D[p] = D[q]
  <2>1. CASE q <= h
    <3>1. p <= h
      BY <1>1, <1>10, <2>1
    <3>. QED  BY <1>8, <2>1, <3>1
  <2>2. CASE p <= h /\ q > h
    <3>1. h + 1 <= q /\ \A i \in h + 1..q - 1 : i \in p..q - 1 /\ i \in 1..c /\ i # h
      BY <1>1, <1>10, <2>2
    <3>2. \A i \in h + 1..q - 1 : Len(ps[i].logs) = 0
      BY <1>3, <1>10, <3>1
    <3>3. C[h + 1] = C[q]
      BY <1>2, <1>6, <3>1, <3>2
    <3>. QED  BY <1>5, <1>8, <2>2, <3>3
  <2>3. CASE p > h
    <3>1. q > h /\ \A i \in p..q - 1 : i \in 1..c /\ i # h
      BY <1>1, <1>10, <2>3
    <3>2. \A i \in p..q - 1 : Len(ps[i].logs) = 0
      BY <1>3, <1>10, <3>1
    <3>3. C[p] = C[q]
      BY <1>2, <1>10, <3>2
    <3>. QED  BY <1>8, <2>3, <3>1, <3>3
  <2>. QED  BY <1>1, <2>1, <2>2, <2>3
<1>11. D[1] = n + k /\ D[c + 1] = Len(rs)
  <2>1. 1 \in 1..c + 1 /\ 1 <= h /\ c + 1 \in 1..c + 1 /\ c + 1 > h
    BY <1>1
  <2>. QED  BY <1>2, <1>8, <2>1
<1>12. Cuts(D, qs, rs, n + k)
  <2>1. Len(qs) = c
    BY <1>3
  <2>2. D \in [1..Len(qs) + 1 -> 0..Len(rs)] /\ D[1] = n + k /\ D[Len(qs) + 1] = Len(rs)
    BY <1>8, <1>11, <2>1
  <2>3. \A p \in 1..Len(qs) :
          /\ D[p + 1] = D[p] + Len(qs[p].logs)
          /\ \A i \in 1..Len(qs[p].logs) : qs[p].logs[i] = rs[D[p] + i]
    BY <1>9, <2>1
  <2>4. \A p, q \in 1..Len(qs) + 1 :
          p <= q /\ (\A i \in p..q - 1 : Len(qs[i].logs) = 0) => D[p] = D[q]
    BY <1>10, <2>1
  <2>. QED  BY <2>2, <2>3, <2>4 DEF Cuts
<1>13. \E E : Cuts(E, qs, rs, n + k)
  BY <1>12
<1>14. n \in Nat /\ n + k <= Len(rs)
  BY <1>1, <1>7
<1>. QED  BY <1>5, <1>13, <1>14 DEF k

\* The logs of the requests, as the contract sees them.
Requests == [k \in DOMAIN sent |-> sent[k].logs]

LEMMA RequestsAppend ==
  ASSUME sent \in Seq(Request), NEW r \in Request, sent' = Append(sent, r)
  PROVE  Requests' = Append(Requests, r.logs)
<1>. DEFINE n == Len(sent)
<1>1. /\ n \in Nat /\ Len(sent') = n + 1 /\ sent' \in Seq(Request)
      /\ \A i \in 1..n + 1 : sent'[i] = IF i <= n THEN sent[i] ELSE r
  BY AppendFacts
<1>2. DOMAIN sent = 1..n /\ DOMAIN sent' = 1..n + 1
  BY <1>1, LenProperties
<1>3. r.logs \in Seq(Log) /\ \A i \in 1..n : sent[i].logs \in Seq(Log)
  <2>1. \A i \in 1..n : sent[i] \in Request
    BY ElementOfSeq
  <2>. QED  BY <2>1 DEF Request
<1>. HIDE DEF n
<1>4. Requests = [i \in 1..n |-> sent[i].logs]
  BY <1>2 DEF Requests
<1>5. Requests' = [i \in 1..n + 1 |-> sent'[i].logs]
  BY <1>2 DEF Requests
<1>6. Requests \in Seq(Seq(Log)) /\ Len(Requests) = n
  BY <1>1, <1>3, <1>4
<1>7. \A i \in 1..n + 1 : sent'[i].logs \in Seq(Log)
  BY <1>1, <1>3
<1>8. Requests' \in Seq(Seq(Log)) /\ Len(Requests') = n + 1
  BY <1>1, <1>5, <1>7
<1>9. /\ Append(Requests, r.logs) \in Seq(Seq(Log))
      /\ Len(Append(Requests, r.logs)) = n + 1
      /\ \A i \in 1..n + 1 :
           Append(Requests, r.logs)[i] = IF i <= n THEN Requests[i] ELSE r.logs
  BY <1>3, <1>6, AppendFacts
<1>10. ASSUME NEW i \in 1..n + 1 PROVE Requests'[i] = Append(Requests, r.logs)[i]
  <2>1. Requests'[i] = sent'[i].logs
    BY <1>5
  <2>2. CASE i <= n
    <3>1. i \in 1..n
      BY <1>1, <2>2
    <3>2. Requests[i] = sent[i].logs
      BY <1>4, <3>1
    <3>. QED  BY <1>1, <1>9, <2>1, <2>2, <3>2
  <2>3. CASE ~(i <= n)
    BY <1>1, <1>9, <2>1, <2>3
  <2>. QED  BY <2>2, <2>3
<1>. QED  BY <1>8, <1>9, <1>10, SeqEqual

Idle == [logs |-> <<>>, armed |-> FALSE]

\* The newest of the processors ps takes what an emit hands over.
Emitted(ps) ==
  \E out \in Seq(WideLog) :
    /\ recorded' = recorded \o out
    /\ procs' = OnLogs(ps, Len(ps), out)
    /\ timers' = IF out # <<>> /\ ~ps[Len(ps)].armed THEN Append(timers, Len(ps))
                 ELSE timers

Emits ==
  /\ page = "up"
  /\ UNCHANGED <<page, unloaded, sent, shipped>>
  /\ \/ Len(procs) > 0 /\ Emitted(procs)
     \/ Emitted(Append(procs, Idle))

LEMMA CommitEmits ==
  ASSUME NEW r, r \in EmitRec, NEW ps, Commit(r, ps)
  PROVE  Emitted(ps)
BY DEF Commit, Emitted, EmitRec

LEMMA EmitSteps ==
  ASSUME IInv, InitRecorder \/ Resume \/ DomEvent \/ SnapTimerFires
  PROVE  Emits \/ UNCHANGED <<page, unloaded, sent, shipped, recorded, procs, timers>>
<1>1. TypeOK /\ (inited => Len(procs) > 0)
  BY DEF IInv
<1>2. ASSUME NEW kind \in {"full", "incr"}, NEW n \in 0..MaxChunks, NEW m \in Sizes,
             Commit(Emit(EmitState(rec, gap), kind, n, m), procs)
      PROVE  Emitted(procs)
  <2>1. m \in 0..MaxChunks /\ m # 0
    BY ConstAssumption DEF Sizes
  <2>2. Emit(EmitState(rec, gap), kind, n, m) \in EmitRec
    BY <1>1, <2>1, EmitStateFits, EmitFitsLemma DEF EmitFits
  <2>. QED  BY <1>2, <2>2, CommitEmits
<1>3. TakeFullSnapshot => Emitted(procs)
  <2>. SUFFICES ASSUME TakeFullSnapshot PROVE Emitted(procs)
    OBVIOUS
  <2>1. PICK n, m \in Sizes : Commit(Emit(EmitState(rec, gap), "full", n, m), procs)
    BY DEF TakeFullSnapshot
  <2>2. n \in 0..MaxChunks
    BY <2>1, ConstAssumption DEF Sizes
  <2>. QED  BY <1>2, <2>1, <2>2
<1>4. CASE InitRecorder
  <2>. DEFINE r == [EmitState(rec, gap) EXCEPT !.known = session, !.age = 0]
  <2>1. PICK n \in Sizes : Commit(Emit(r, "full", n, 0), Append(procs, Idle))
    BY <1>4 DEF InitRecorder, Idle
  <2>2. n \in 0..MaxChunks /\ 0 \in 0..MaxChunks
    BY <2>1, ConstAssumption DEF Sizes
  <2>3. r \in EmitRec /\ EmitFits(r) /\ r.known = session
    BY InitStateFits
  <2>. HIDE DEF r
  <2>4. Emit(r, "full", n, 0) \in EmitRec
    BY <1>1, <2>2, <2>3, EmitFitsLemma DEF EmitFits
  <2>5. Emitted(Append(procs, Idle))
    BY <2>1, <2>4, CommitEmits
  <2>. QED  BY <1>4, <2>5 DEF InitRecorder, Emits
<1>5. CASE Resume
  BY <1>1, <1>3, <1>5 DEF Resume, Emits, recVars
<1>6. CASE SnapTimerFires
  BY <1>1, <1>3, <1>6 DEF SnapTimerFires, Emits, recVars
<1>7. CASE DomEvent
  <2>1. PICK n \in 0..MaxChunks, m \in Sizes :
          Commit(Emit(EmitState(rec, gap), "incr", n, m), procs)
    BY <1>7 DEF DomEvent
  <2>2. Emitted(procs)
    BY <1>2, <2>1
  <2>. QED  BY <1>1, <1>7, <2>2 DEF DomEvent, Emits
<1>. QED  BY <1>4, <1>5, <1>6, <1>7

\* Handing logs over keeps the cuts and the order of the timers.
LEMMA EmittedDelivery ==
  ASSUME IInv, Ordered(timers), NEW ps \in Seq(Proc), Len(ps) > 0, Emitted(ps),
         ~ps[Len(ps)].armed => \A k \in 1..Len(timers) : timers[k] < Len(ps),
         NEW n, \E C : Cuts(C, ps, recorded, n),
         UNCHANGED <<page, sent, shipped>>, page # "gone"
  PROVE  /\ Ordered(timers)'
         /\ \E D : Cuts(D, procs', recorded', n)
         /\ recorded' = recorded \/ Delivery!Accept
<1>. DEFINE c == Len(ps)
            t == Len(timers)
<1>1. PICK out \in Seq(WideLog) :
        /\ recorded' = recorded \o out
        /\ procs' = OnLogs(ps, Len(ps), out)
        /\ timers' = IF out # <<>> /\ ~ps[c].armed THEN Append(timers, c) ELSE timers
  BY DEF Emitted
<1>2. recorded \in Seq(WideLog) /\ timers \in Seq(1..Len(procs)) /\ t \in Nat /\ c \in Nat
  BY RecordedWide, TypeParts DEF IInv
<1>3. \E D : Cuts(D, procs', recorded', n)
  <2>1. PICK C : Cuts(C, ps, recorded, n)
    OBVIOUS
  <2>. QED  BY <1>1, <1>2, <2>1, CutsCommit
<1>4. Ordered(timers)'
  <2>1. CASE timers' = timers
    BY <2>1 DEF Ordered
  <2>2. CASE ~ps[c].armed /\ timers' = Append(timers, c)
    <3>1. timers \in Seq(Nat)
      BY <1>2, SeqMonotonic
    <3>2. /\ Len(timers') = t + 1
          /\ \A i \in 1..t + 1 : timers'[i] = IF i <= t THEN timers[i] ELSE c
      BY <1>2, <2>2, <3>1, AppendFacts
    <3>3. \A k \in 1..t : timers[k] < c
      BY <2>2
    <3>4. \A j, k \in 1..t : j < k => timers[j] < timers[k]
      BY DEF Ordered
    <3>. HIDE DEF c, t
    <3>5. ASSUME NEW j \in 1..t + 1, NEW k \in 1..t + 1, j < k
          PROVE  timers'[j] < timers'[k]
      <4>1. j \in 1..t /\ j <= t /\ timers'[j] = timers[j]
        BY <1>2, <3>2, <3>5
      <4>2. CASE k <= t
        <5>1. k \in 1..t /\ timers'[k] = timers[k]
          BY <1>2, <3>2, <4>2
        <5>. QED  BY <3>4, <3>5, <4>1, <5>1
      <4>3. CASE ~(k <= t)
        BY <3>2, <3>3, <4>1, <4>3
      <4>. QED  BY <4>2, <4>3
    <3>. QED  BY <3>2, <3>5 DEF Ordered
  <2>. QED  BY <1>1, <2>1, <2>2
<1>5. ASSUME recorded' # recorded
      PROVE  Delivery!Accept
  <2>1. Len(out) \in Nat /\ Len(recorded) \in Nat
    BY <1>2
  <2>2. Len(recorded') = Len(recorded) + Len(out) /\ recorded' \in Seq(WideLog)
        /\ \A i \in 1..Len(recorded) : recorded'[i] = recorded[i]
    BY <1>1, <1>2, ConcatFacts
  <2>3. Len(out) > 0
    <3>1. out # <<>>
      BY <1>1, <1>2, <1>5, ConcatEmptySeq
    <3>. QED  BY <3>1, EmptyFacts
  <2>4. SubSeq(recorded', 1, Len(recorded)) = recorded
    <3>1. \A i \in 1..Len(recorded) : recorded'[i] \in WideLog
      BY <1>2, <2>2, ElementOfSeq
    <3>. DEFINE u == SubSeq(recorded', 1, Len(recorded))
    <3>2. u \in Seq(WideLog) /\ Len(u) = Len(recorded)
          /\ \A i \in 1..Len(recorded) : u[i] = recorded'[i]
      BY <2>1, <2>2, <3>1
    <3>. HIDE DEF u
    <3>3. u = recorded
      BY <1>2, <2>2, <3>2, SeqEqual
    <3>. QED  BY <3>3 DEF u
  <2>5. Len(out) \in 1..Len(recorded')
    BY <2>1, <2>2, <2>3
  <2>. QED  BY <1>5, <2>2, <2>4, <2>5 DEF Delivery!Accept
<1>. QED  BY <1>3, <1>4, <1>5

\* What a flush of queue h does.
Flushes(h) ==
  /\ page # "gone"
  /\ UNCHANGED <<page, recorded>>
  /\ procs'[h].logs = <<>>
  /\ \A i \in 1..Len(procs) : i # h => procs'[i] = procs[i]
  /\ \/ procs[h].logs = <<>> /\ UNCHANGED <<sent, shipped>>
     \/ /\ procs[h].logs # <<>>
        /\ sent' = Append(sent, [stamp |-> session, logs |-> procs[h].logs])
        /\ shipped' = shipped + Len(procs[h].logs)

LEMMA FlushSteps ==
  ASSUME IInv, DeliveryInv, FlushTimer \/ UnloadFlush
  PROVE  \E h \in 1..Len(procs) :
           /\ Flushes(h)
           /\ \A i \in 1..h - 1 : Len(procs[i].logs) = 0
           /\ \/ timers' = Tail(timers) /\ timers # <<>> /\ unloaded' = 0
              \/ timers' = timers /\ page # "up" /\ unloaded' = h
<1>1. procs \in Seq(Proc) /\ timers \in Seq(1..Len(procs)) /\ Len(procs) \in Nat
      /\ unloaded \in Nat /\ TimersFit(procs, timers)
  BY TypeParts
<1>2. \A i \in 1..Len(procs) : Len(procs[i].logs) \in Nat
  <2>1. \A i \in 1..Len(procs) : procs[i] \in Proc
    BY <1>1, ElementOfSeq
  <2>. QED  BY <2>1 DEF Proc
<1>3. CASE FlushTimer
  <2>. DEFINE h == Head(timers)
              ps == [procs EXCEPT ![h].armed = FALSE]
  <2>1. h = timers[1] /\ h \in 1..Len(procs) /\ Len(timers) \in Nat /\ Len(timers) >= 1
    BY <1>1, <1>3, TailFacts DEF FlushTimer
  <2>2. /\ page = "up" /\ timers # <<>> /\ timers' = Tail(timers) /\ Flush(ps, h)
        /\ UNCHANGED <<page, unloaded>> /\ recorded' = recorded
    BY <1>3 DEF FlushTimer, recVars
  <2>. HIDE DEF h
  <2>3. procs[h] \in Proc
    BY <1>1, <2>1, ElementOfSeq
  <2>4. ps[h].logs = procs[h].logs /\ \A i \in 1..Len(procs) : i # h => ps[i] = procs[i]
    BY <1>1, <2>1, <2>3 DEF Proc
  <2>5. DOMAIN ps = 1..Len(procs) /\ ps[h] \in Proc
    <3>1. [procs[h] EXCEPT !.armed = FALSE] \in Proc
      BY <2>3 DEF Proc
    <3>2. DOMAIN procs = 1..Len(procs)
      BY <1>1
    <3>. QED  BY <2>1, <3>1, <3>2
  <2>. HIDE DEF ps
  <2>6. procs'[h].logs = <<>> /\ \A i \in 1..Len(procs) : i # h => procs'[i] = procs[i]
    BY <2>1, <2>2, <2>4, <2>5 DEF Flush, Proc
  <2>7. Flushes(h)
    BY <2>2, <2>4, <2>6 DEF Flush, Flushes
  <2>8. ASSUME NEW i \in 1..h - 1 PROVE Len(procs[i].logs) = 0
    <3>1. i \in 1..Len(procs) /\ i < h
      BY <1>1, <2>1
    <3>2. SUFFICES ASSUME NEW k \in 1..Len(timers), timers[k] = i PROVE FALSE
      BY <1>1, <1>2, <3>1 DEF TimersFit
    <3>3. CASE k = 1
      BY <2>1, <3>1, <3>2, <3>3
    <3>4. CASE k # 1
      <4>1. timers[1] < timers[k]
        BY <2>1, <3>4 DEF DeliveryInv, Ordered
      <4>. QED  BY <2>1, <3>1, <3>2, <4>1
    <3>. QED  BY <3>3, <3>4
  <2>9. unloaded' = 0
    BY <2>2 DEF DeliveryInv
  <2>. QED  BY <2>1, <2>2, <2>7, <2>8, <2>9
<1>4. CASE UnloadFlush
  <2>. DEFINE h == unloaded + 1
  <2>1. /\ page = "unloading" /\ h \in 1..Len(procs) /\ unloaded' = h /\ Flush(procs, h)
        /\ UNCHANGED <<page, timers>> /\ recorded' = recorded
    BY <1>1, <1>4, TypeParts DEF UnloadFlush, recVars
  <2>2. \A i \in 1..h - 1 : Len(procs[i].logs) = 0
    BY <1>1 DEF DeliveryInv
  <2>. HIDE DEF h
  <2>3. procs[h] \in Proc /\ DOMAIN procs = 1..Len(procs)
    BY <1>1, <2>1, ElementOfSeq
  <2>4. procs'[h].logs = <<>> /\ \A i \in 1..Len(procs) : i # h => procs'[i] = procs[i]
    BY <2>1, <2>3 DEF Flush, Proc
  <2>5. Flushes(h)
    BY <2>1, <2>4 DEF Flush, Flushes
  <2>. QED  BY <2>1, <2>2, <2>5
<1>. QED  BY <1>3, <1>4

LEMMA FlushDelivery ==
  ASSUME IInv, IInv', DeliveryInv, FlushTimer \/ UnloadFlush
  PROVE  DeliveryInv' /\ (Delivery!Ship \/ UNCHANGED <<recorded, sent, shipped, page>>)
<1>1. PICK h \in 1..Len(procs) :
        /\ Flushes(h)
        /\ \A i \in 1..h - 1 : Len(procs[i].logs) = 0
        /\ \/ timers' = Tail(timers) /\ timers # <<>> /\ unloaded' = 0
           \/ timers' = timers /\ page # "up" /\ unloaded' = h
  BY FlushSteps
<1>. DEFINE q == procs[h].logs
            k == Len(q)
            req == [stamp |-> session, logs |-> q]
<1>2. /\ procs \in Seq(Proc) /\ timers \in Seq(1..Len(procs)) /\ Len(procs) \in Nat
      /\ shipped \in Nat /\ sent \in Seq(Request) /\ session \in 1..MaxSessions
      /\ recorded \in Seq(WideLog)
  BY RecordedWide, TypeParts DEF IInv
<1>3. q \in Seq(Log) /\ k \in Nat /\ (q = <<>> <=> k = 0)
  <2>1. procs[h] \in Proc
    BY <1>2, ElementOfSeq
  <2>2. q \in Seq(Log)
    BY <2>1 DEF Proc
  <2>. QED  BY <2>2, EmptyFacts
<1>4. Len(procs') = Len(procs) /\ procs' \in Seq(Proc)
  BY TypeParts DEF FlushTimer, UnloadFlush, Flush, IInv, TypeOK, Proc
<1>5. /\ Len(procs'[h].logs) = 0
      /\ \A i \in 1..Len(procs) : i # h => procs'[i] = procs[i]
      /\ recorded' = recorded /\ page' = page /\ page # "gone"
      /\ \/ q = <<>> /\ UNCHANGED <<sent, shipped>>
         \/ q # <<>> /\ sent' = Append(sent, req) /\ shipped' = shipped + k
  BY <1>1, EmptySeq DEF Flushes
<1>6. shipped' = shipped + k
  BY <1>2, <1>3, <1>5
<1>7. PICK C : Cuts(C, procs, recorded, shipped)
  BY DEF DeliveryInv
<1>8. /\ \E D : Cuts(D, procs', recorded, shipped + k)
      /\ shipped + k <= Len(recorded)
      /\ \A i \in 1..k : q[i] = recorded[shipped + i]
  <2>1. FirstEmptied(procs, h, procs')
    BY <1>1, <1>4, <1>5 DEF FirstEmptied
  <2>2. recorded \in Seq(WideLog) /\ procs \in Seq(Proc)
    BY <1>2
  <2>. QED  BY <1>7, <2>1, <2>2, CutsFlush
<1>. HIDE DEF q, k
<1>9. Ordered(timers)'
  <2>1. CASE timers' = timers
    BY <2>1 DEF DeliveryInv, Ordered
  <2>2. CASE timers' = Tail(timers) /\ timers # <<>>
    <3>1. /\ Len(timers') = Len(timers) - 1 /\ Len(timers) \in Nat
          /\ \A i \in 1..Len(timers) - 1 : timers'[i] = timers[i + 1]
      BY <1>2, <2>2, TailFacts
    <3>2. \A i, j \in 1..Len(timers) : i < j => timers[i] < timers[j]
      BY DEF DeliveryInv, Ordered
    <3>3. \A i, j \in 1..Len(timers) - 1 :
            i < j => i + 1 \in 1..Len(timers) /\ j + 1 \in 1..Len(timers) /\ i + 1 < j + 1
      BY <3>1
    <3>. QED  BY <3>1, <3>2, <3>3 DEF Ordered
  <2>. QED  BY <1>1, <2>1, <2>2
<1>10. page' = "up" => unloaded' = 0
  BY <1>1, <1>5
<1>11. \A p \in 1..unloaded' : Len(procs'[p].logs) = 0
  <2>1. CASE unloaded' = 0
    BY <2>1
  <2>2. CASE unloaded' = h
    <3>. SUFFICES ASSUME NEW p \in 1..h PROVE Len(procs'[p].logs) = 0
      BY <2>2
    <3>1. CASE p = h
      BY <1>5, <3>1
    <3>2. CASE p # h
      <4>1. p \in 1..h - 1 /\ p \in 1..Len(procs)
        BY <1>2, <3>2
      <4>. QED  BY <1>1, <1>5, <3>2, <4>1
    <3>. QED  BY <3>1, <3>2
  <2>. QED  BY <1>1, <2>1, <2>2
<1>12. \E D \in [1..Len(procs') + 1 -> 0..Len(recorded')] :
         Cuts(D, procs', recorded', shipped')
  <2>1. PICK D : Cuts(D, procs', recorded, shipped + k)
    BY <1>8
  <2>2. Cuts(D, procs', recorded', shipped')
    BY <1>5, <1>6, <2>1
  <2>3. D \in [1..Len(procs') + 1 -> 0..Len(recorded')]
    BY <2>2 DEF Cuts
  <2>. QED  BY <2>2, <2>3
<1>13. DeliveryInv'
  BY <1>9, <1>10, <1>11, <1>12 DEF DeliveryInv
<1>14. CASE q = <<>>
  BY <1>5, <1>13, <1>14
<1>15. CASE q # <<>>
  <2>1. req \in Request /\ req.logs = q
    BY <1>2, <1>3 DEF Request
  <2>. HIDE DEF req
  <2>2. Requests' = Append(Requests, q)
    BY <1>2, <1>5, <1>15, <2>1, RequestsAppend
  <2>3. k \in 1..Len(recorded) - shipped
    BY <1>2, <1>3, <1>8, <1>15
  <2>. DEFINE u == SubSeq(recorded, shipped + 1, shipped + k)
  <2>4. u = q
    <3>1. \A i \in shipped + 1..shipped + k : recorded[i] \in WideLog
      BY <1>2, <2>3, ElementOfSeq
    <3>2. /\ u \in Seq(WideLog) /\ Len(u) = k
          /\ \A i \in 1..k : u[i] = recorded[shipped + i]
      <4>1. /\ u \in Seq(WideLog)
            /\ Len(u) = IF shipped + 1 <= shipped + k THEN shipped + k - (shipped + 1) + 1 ELSE 0
            /\ \A i \in 1..shipped + k - (shipped + 1) + 1 :
                 u[i] = recorded[shipped + 1 + i - 1]
        BY <1>2, <1>3, <3>1, SubSeqProperties
      <4>2. \A i \in 1..k : shipped + 1 + i - 1 = shipped + i
        BY <1>2, <1>3
      <4>. QED  BY <1>2, <1>3, <2>3, <4>1, <4>2
    <3>. HIDE DEF u
    <3>3. q \in Seq(WideLog)
      <4>1. Log \subseteq WideLog
        BY ConstAssumption DEF Log, WideLog
      <4>. QED  BY <1>3, <4>1, SeqMonotonic
    <3>. QED  BY <1>8, <3>2, <3>3, SeqEqual DEF k
  <2>5. Requests' = Append(Requests, SubSeq(recorded, shipped + 1, shipped + k))
    BY <2>2, <2>4
  <2>6. Delivery!Ship
    BY <1>5, <1>6, <2>3, <2>5 DEF Delivery!Ship, Requests
  <2>. QED  BY <1>13, <2>6
<1>. QED  BY <1>14, <1>15

LEMMA EmitDelivery ==
  ASSUME IInv, IInv', DeliveryInv, Emits
  PROVE  DeliveryInv' /\ (recorded' = recorded \/ Delivery!Accept)
<1>1. /\ procs \in Seq(Proc) /\ timers \in Seq(1..Len(procs)) /\ Len(procs) \in Nat
      /\ shipped \in Nat /\ recorded \in Seq(WideLog) /\ TimersFit(procs, timers)
  BY RecordedWide, TypeParts DEF IInv
<1>2. \A k \in 1..Len(timers) : timers[k] \in 1..Len(procs)
  BY <1>1, ElementOfSeq
<1>3. Ordered(timers) /\ page = "up" /\ UNCHANGED <<page, sent, shipped, unloaded>>
  BY DEF DeliveryInv, Emits
<1>4. PICK C : Cuts(C, procs, recorded, shipped)
  BY DEF DeliveryInv
<1>5. ASSUME Ordered(timers)', \E D : Cuts(D, procs', recorded', shipped) PROVE DeliveryInv'
  <2>1. \E D \in [1..Len(procs') + 1 -> 0..Len(recorded')] :
          Cuts(D, procs', recorded', shipped')
    BY <1>3, <1>5 DEF Cuts
  <2>2. unloaded' = 0
    BY <1>3 DEF DeliveryInv
  <2>. QED  BY <1>5, <2>1, <2>2 DEF DeliveryInv
<1>6. CASE Len(procs) > 0 /\ Emitted(procs)
  <2>1. ASSUME ~procs[Len(procs)].armed, NEW k \in 1..Len(timers)
        PROVE  timers[k] < Len(procs)
    <3>1. Len(procs) \in 1..Len(procs)
      BY <1>1, <1>6
    <3>2. timers[k] # Len(procs)
      BY <1>1, <2>1, <3>1 DEF TimersFit
    <3>. QED  BY <1>1, <1>2, <3>2
  <2>. QED  BY <1>1, <1>3, <1>4, <1>5, <1>6, <2>1, EmittedDelivery
<1>7. CASE Emitted(Append(procs, Idle))
  <2>. DEFINE ps == Append(procs, Idle)
  <2>1. Idle \in Proc /\ Len(Idle.logs) = 0 /\ ~Idle.armed
    BY EmptySeq DEF Idle, Proc
  <2>2. ps \in Seq(Proc) /\ Len(ps) = Len(procs) + 1
    BY <1>1, <2>1, AppendFacts
  <2>3. \E D : Cuts(D, ps, recorded, shipped)
    BY <1>1, <1>4, <2>1, CutsAppend
  <2>. HIDE DEF ps
  <2>4. \A k \in 1..Len(timers) : timers[k] < Len(ps)
    BY <1>1, <1>2, <2>2
  <2>5. Len(ps) > 0 /\ Emitted(ps)
    BY <1>1, <1>7, <2>2 DEF ps
  <2>. QED  BY <1>3, <1>5, <2>2, <2>3, <2>4, <2>5, EmittedDelivery
<1>. QED  BY <1>6, <1>7 DEF Emits

LEMMA InitDelivery == Init => DeliveryInv /\ Delivery!Init
<1>. SUFFICES ASSUME Init PROVE DeliveryInv /\ Delivery!Init
  OBVIOUS
<1>1. /\ Len(procs) = 0 /\ Len(recorded) = 0 /\ Len(timers) = 0
      /\ shipped = 0 /\ unloaded = 0 /\ page = "up" /\ sent = <<>> /\ recorded = <<>>
  BY DEF Init
<1>. DEFINE C == [i \in 1..1 |-> 0]
<1>2. C \in [1..Len(procs) + 1 -> 0..Len(recorded)] /\ Cuts(C, procs, recorded, shipped)
  BY <1>1 DEF Cuts
<1>3. DeliveryInv
  BY <1>1, <1>2 DEF DeliveryInv, Ordered
<1>4. Requests = <<>>
  <2>1. sent \in Seq(Request) /\ DOMAIN sent = 1..0
    BY <1>1
  <2>2. Requests \in Seq(Seq(Log)) /\ Len(Requests) = 0
    BY <2>1 DEF Requests
  <2>. QED  BY <2>2, EmptyFacts
<1>5. Delivery!Init
  BY <1>1, <1>4 DEF Delivery!Init, Requests
<1>. QED  BY <1>3, <1>5

LEMMA StepDelivers ==
  ASSUME IInv, DeliveryInv, [Next]_vars
  PROVE  DeliveryInv' /\ [Delivery!Next]_(Delivery!vars)
<1>1. IInv'
  BY InitRecorderFits, EmitActionsFit, FlushTimerFits, UnloadFlushFits, QuietActionsFit
     DEF Next
<1>2. ASSUME UNCHANGED <<page, recorded, sent, shipped>> PROVE UNCHANGED Delivery!vars
  BY <1>2 DEF Delivery!vars
<1>3. ASSUME UNCHANGED <<recorded, procs, timers, unloaded, sent, shipped>>,
             page' = "up" => page = "up"
      PROVE  DeliveryInv'
  BY <1>3 DEF DeliveryInv, Ordered
<1>4. CASE Emits
  <2>1. UNCHANGED <<page, sent, shipped>>
    BY <1>4 DEF Emits
  <2>. QED  BY <1>1, <1>2, <1>4, <2>1, EmitDelivery DEF Delivery!Next
<1>5. CASE UNCHANGED <<page, unloaded, sent, shipped, recorded, procs, timers>>
  BY <1>2, <1>3, <1>5
<1>6. CASE FlushTimer \/ UnloadFlush
  BY <1>1, <1>2, <1>6, FlushDelivery DEF Delivery!Next
<1>7. CASE UnloadEnd \/ Killed
  <2>1. /\ page # "gone" /\ page' = "gone"
        /\ UNCHANGED <<recorded, procs, timers, unloaded, sent, shipped>>
    BY <1>7 DEF UnloadEnd, Killed, recVars
  <2>2. Delivery!Die
    BY <2>1 DEF Delivery!Die
  <2>. QED  BY <1>3, <2>1, <2>2 DEF Delivery!Next
<1>8. CASE UnloadStart
  <2>1. /\ page = "up" /\ page' = "unloading"
        /\ UNCHANGED <<recorded, procs, timers, unloaded, sent, shipped>>
    BY <1>8 DEF UnloadStart, recVars
  <2>2. UNCHANGED Delivery!vars
    BY <2>1 DEF Delivery!vars
  <2>. QED  BY <1>3, <2>1, <2>2
<1>9. CASE \/ Stop \/ DeinitRecorder \/ SessionChange \/ VisibilityChange \/ Tick
           \/ UNCHANGED vars
  <2>1. UNCHANGED <<page, unloaded, sent, shipped, recorded, procs, timers>>
    BY <1>9 DEF Stop, DeinitRecorder, SessionChange, VisibilityChange, Tick, vars, recVars
  <2>. QED  BY <1>5, <2>1
<1>. QED  BY <1>4, <1>5, <1>6, <1>7, <1>8, <1>9, EmitSteps DEF Next

-----------------------------------------------------------------------------
(* Theorems.                                                               *)

\* The type invariant; it bounds the counters of emit by the logs recorded.
THEOREM TypeCorrect == Spec => []TypeOK
<1>1. IInv => TypeOK
  BY DEF IInv
<1>. QED  BY Invariance, <1>1, PTL

\* Offsets have no holes or repeats, however snapshots nest and the recorder is
\* paused, stopped and started again (index.ts:176-180, 196, 209).
THEOREM OffsetsAreDense == Spec => []OffsetsDense
<1>1. IInv => OffsetsDense
  BY DEF IInv, Numbered, Dense, Follows, OffsetsDense
<1>. QED  BY Invariance, <1>1, PTL

\* As long as the page is up, a queued log waits for a timer that was set, and
\* no timer is lost or doubled (BatchLogProcessor.ts:42-51).
THEOREM NoLogStranded == Spec => []NoStrandedLogs
<1>1. ASSUME IInv PROVE NoStrandedLogs
  <2>1. ASSUME NEW p \in DOMAIN procs
        PROVE  procs[p].logs # <<>> => Len(procs[p].logs) > 0
    <3>1. procs[p] \in Proc
      BY <1>1, TypeParts, ElementOfSeq
    <3>2. procs[p].logs \in Seq(Log)
      BY <3>1 DEF Proc
    <3>. QED  BY <3>2, EmptyFacts
  <2>2. DOMAIN procs = 1..Len(procs) /\ DOMAIN timers = 1..Len(timers)
    BY <1>1, TypeParts
  <2>. QED  BY <1>1, <2>1, <2>2, TypeParts DEF NoStrandedLogs, TimersFit
<1>. QED  BY Invariance, <1>1, PTL

\* A log is never filed under a session earlier than the one it was recorded in,
\* although requests read the session id late (OTLPLogExporter.ts:98-121).
THEOREM FiledForwards == Spec => []NeverFiledBackwards
<1>1. ASSUME IInv PROVE NeverFiledBackwards
  <2>1. DOMAIN sent = 1..Len(sent)
    BY <1>1, TypeParts
  <2>2. ASSUME NEW k \in DOMAIN sent PROVE DOMAIN sent[k].logs = 1..Len(sent[k].logs)
    <3>1. sent[k] \in Request
      BY <1>1, <2>1, TypeParts, ElementOfSeq
    <3>2. sent[k].logs \in Seq(Log)
      BY <3>1 DEF Request
    <3>. QED  BY <3>2
  <2>. QED  BY <1>1, <2>1, <2>2, TypeParts DEF NeverFiledBackwards, SentFits
<1>. QED  BY Invariance, <1>1, PTL

\* A session's first event is a full snapshot, although the event that notices the
\* new session comes first and the snapshot is emitted from within its emit
\* (index.ts:171-196).
THEOREM SnapshotsComeFirst == Spec => []SnapshotFirst
<1>1. ASSUME IInv, ReplayInv PROVE SnapshotFirst
  <2>1. DOMAIN recorded = 1..Len(recorded)
    BY <1>1 DEF IInv, TypeOK
  <2>. QED  BY <1>1, <2>1 DEF SnapshotFirst, ReplayInv, FirstFull
<1>. QED  BY ReplayInvariance, <1>1, PTL

\* What a hidden tab, an old recording or a deinit made rrweb's listener miss is made
\* up for by a snapshot before anything else is recorded (index.ts:171-185).
THEOREM GapsAreClosed == Spec => ReplayAnchored
<1>1. ASSUME IInv, ReplayInv, [Next]_vars
      PROVE  [(Len(recorded') > Len(recorded) /\ Last(recorded').kind = "incr")
                => gap' # "other"]_vars
  <2>1. Len(recorded) \in Nat
    BY <1>1 DEF IInv, TypeOK
  <2>. QED  BY <1>1, <2>1, StepReplays
<1>. QED  BY ReplayInvariance, <1>1, PTL DEF Spec, ReplayAnchored

\* The queues, timers, requests and the end of the page, taken together, implement
\* the delivery contract: whatever interleaving of emits, timer flushes, re-inits and
\* unload flushes, logs leave in the order they were recorded, each in at most one
\* request (BatchLogProcessor.ts:42-60, OTLPLogExporter.ts:123-146).
THEOREM DeliveryImplemented == Spec => ImplementsDelivery
<1>1. Init => DeliveryInv /\ Delivery!Init
  BY InitDelivery
<1>2. IInv /\ DeliveryInv /\ [Next]_vars
        => DeliveryInv' /\ [Delivery!Next]_(Delivery!vars)
  BY StepDelivers
<1>. QED  BY Invariance, <1>1, <1>2, PTL DEF Spec, ImplementsDelivery, Delivery!Spec

=============================================================================
