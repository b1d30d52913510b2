------------------------------ MODULE NodeProofs ------------------------------
(***************************************************************************)
(* Theorems about the parts of the Node SDK, each from its own             *)
(* specification and for any values of its constants.                      *)
(***************************************************************************)
EXTENDS NodeParts, SequenceTheorems, FiniteSetTheorems, TLAPS

-----------------------------------------------------------------------------
(* Sequences.                                                              *)

LEMMA AppendFacts ==
  ASSUME NEW S, NEW s \in Seq(S), NEW e \in S
  PROVE  /\ Append(s, e) \in Seq(S)
         /\ Len(Append(s, e)) = Len(s) + 1
         /\ \A i \in 1..Len(s) + 1 :
              Append(s, e)[i] = IF i <= Len(s) THEN s[i] ELSE e
OBVIOUS

LEMMA TailFacts ==
  ASSUME NEW S, NEW s \in Seq(S), s # <<>>
  PROVE  /\ Tail(s) \in Seq(S)
         /\ Len(Tail(s)) = Len(s) - 1
         /\ \A i \in 1..Len(s) - 1 : Tail(s)[i] = s[i + 1]
         /\ Head(s) \in S /\ Head(s) = s[1]
OBVIOUS

LEMMA SubSeqFacts ==
  ASSUME NEW S, NEW s \in Seq(S), NEW m \in 1..Len(s) + 1, NEW n \in m - 1..Len(s)
  PROVE  /\ SubSeq(s, m, n) \in Seq(S)
         /\ Len(SubSeq(s, m, n)) = n - m + 1
         /\ \A i \in 1..n - m + 1 : SubSeq(s, m, n)[i] = s[m + i - 1]
<1>1. \A i \in m..n : s[i] \in S
  OBVIOUS
<1>2. /\ SubSeq(s, m, n) \in Seq(S)
      /\ Len(SubSeq(s, m, n)) = IF m <= n THEN n - m + 1 ELSE 0
      /\ \A i \in 1..n - m + 1 : SubSeq(s, m, n)[i] = s[m + i - 1]
  BY <1>1, SubSeqProperties
<1>. QED  BY <1>2

LEMMA PrefixFacts ==
  ASSUME NEW S, NEW s \in Seq(S), NEW n \in DOMAIN s
  PROVE  /\ SubSeq(s, 1, n - 1) \in Seq(S)
         /\ Len(SubSeq(s, 1, n - 1)) = n - 1
         /\ \A i \in 1..n - 1 : SubSeq(s, 1, n - 1)[i] = s[i]
<1>. DEFINE a == SubSeq(s, 1, n - 1)
<1>1. Len(s) \in Nat /\ n \in 1..Len(s)
  OBVIOUS
<1>2. 1 \in 1..Len(s) + 1 /\ n - 1 \in 1 - 1..Len(s)
  BY <1>1
<1>3. /\ a \in Seq(S)
      /\ Len(a) = n - 1 - 1 + 1
      /\ \A i \in 1..n - 1 - 1 + 1 : a[i] = s[1 + i - 1]
  BY <1>2, SubSeqFacts
<1>4. n - 1 - 1 + 1 = n - 1 /\ \A i \in 1..n - 1 : 1 + i - 1 = i
  BY <1>1
<1>. HIDE DEF a
<1>5. a \in Seq(S) /\ Len(a) = n - 1 /\ \A i \in 1..n - 1 : a[i] = s[i]
  BY <1>3, <1>4
<1>. QED  BY <1>5 DEF a

LEMMA WithoutFacts ==
  ASSUME NEW S, NEW s \in Seq(S), NEW n \in DOMAIN s,
         NEW t, t = SubSeq(s, 1, n - 1) \o SubSeq(s, n + 1, Len(s))
  PROVE  /\ t \in Seq(S)
         /\ Len(t) = Len(s) - 1
         /\ \A i \in 1..Len(s) - 1 : t[i] = IF i < n THEN s[i] ELSE s[i + 1]
<1>. DEFINE a == SubSeq(s, 1, n - 1)
            b == SubSeq(s, n + 1, Len(s))
<1>1. Len(s) \in Nat /\ n \in 1..Len(s) /\ \A i \in 1..Len(s) : s[i] \in S
  OBVIOUS
<1>2. /\ a \in Seq(S)
      /\ Len(a) = n - 1
      /\ \A i \in 1..n - 1 : a[i] = s[i]
  BY PrefixFacts
<1>3. /\ b \in Seq(S)
      /\ Len(b) = Len(s) - n
      /\ \A i \in 1..Len(s) - n : b[i] = s[n + i]
  <2>1. n + 1 \in 1..Len(s) + 1 /\ Len(s) \in n + 1 - 1..Len(s)
    BY <1>1
  <2>2. /\ b \in Seq(S)
        /\ Len(b) = Len(s) - (n + 1) + 1
        /\ \A i \in 1..Len(s) - (n + 1) + 1 : b[i] = s[n + 1 + i - 1]
    BY <2>1, SubSeqFacts
  <2>3. Len(s) - (n + 1) + 1 = Len(s) - n /\ \A i \in 1..Len(s) - n : n + 1 + i - 1 = n + i
    BY <1>1
  <2>. HIDE DEF b
  <2>. QED  BY <2>2, <2>3
<1>. HIDE DEF a, b
<1>4. /\ a \o b \in Seq(S)
      /\ Len(a \o b) = Len(a) + Len(b)
      /\ \A i \in 1..Len(a) + Len(b) :
           (a \o b)[i] = IF i <= Len(a) THEN a[i] ELSE b[i - Len(a)]
  BY <1>2, <1>3, ConcatProperties
<1>5. Len(a \o b) = Len(s) - 1
  BY <1>1, <1>2, <1>3, <1>4
<1>6. ASSUME NEW i \in 1..Len(s) - 1
      PROVE  (a \o b)[i] = IF i < n THEN s[i] ELSE s[i + 1]
  <2>1. i \in 1..Len(a) + Len(b) /\ (i <= Len(a) <=> i < n)
    BY <1>1, <1>2, <1>3
  <2>2. CASE i < n
    <3>1. i \in 1..n - 1 /\ (a \o b)[i] = a[i]
      BY <1>1, <1>4, <2>1, <2>2
    <3>. QED  BY <1>2, <2>2, <3>1
  <2>3. CASE ~(i < n)
    <3>1. i - Len(a) \in 1..Len(s) - n /\ n + (i - Len(a)) = i + 1
      BY <1>1, <1>2, <2>3
    <3>2. (a \o b)[i] = b[i - Len(a)]
      BY <1>4, <2>1, <2>3
    <3>3. b[i - Len(a)] = s[n + (i - Len(a))]
      BY <1>3, <3>1
    <3>. QED  BY <2>3, <3>1, <3>2, <3>3
  <2>. QED  BY <2>2, <2>3
<1>7. t = a \o b
  BY DEF a, b
<1>. QED  BY <1>4, <1>5, <1>6, <1>7

-----------------------------------------------------------------------------
(* NodeSdk.                                                                *)

Outcomes == {"open", "flushing", "done", "failed"}

\* There is an SDK for every initSDK, and no more listeners than that.
SdkCounts ==
  /\ Len(flushed) = Len(instances)
  /\ Len(instances) <= MaxInits
  /\ handlers <= Len(instances)
  /\ authorization <= Len(instances)

\* Whoever waits for an SDK waits for its spans and logs.
WaitInv ==
  \A j \in DOMAIN waits : waits[j].sdk # 0 =>
    waits[j].sdk \in DOMAIN flushed /\ Telemetry \ {"metrics"} \subseteq waits[j].for

SdkInv == NS!TypeOK /\ SdkCounts /\ WaitInv /\ NS!ExitAfterFlush

LEMMA SdkInit == NS!Init => SdkInv
<1>. SUFFICES ASSUME NS!Init PROVE SdkInv
  OBVIOUS
<1>1. Len(<<>>) = 0 /\ \A S : <<>> \in Seq(S)
  BY EmptySeq
<1>2. NS!TypeOK
  BY <1>1, SdkAssumption DEF NS!Init, NS!TypeOK
<1>3. SdkCounts /\ WaitInv /\ NS!ExitAfterFlush
  BY <1>1, SdkAssumption DEF NS!Init, SdkCounts, WaitInv, NS!ExitAfterFlush
<1>. QED  BY <1>2, <1>3 DEF SdkInv

LEMMA InitSdkKeeps ==
  ASSUME SdkInv, NEW key \in BOOLEAN, NEW programmatic \in BOOLEAN,
         NEW signals \in BOOLEAN, NEW early \in SUBSET Modules,
         NS!InitSDK(key, programmatic, signals, early)
  PROVE  SdkInv'
<1>. DEFINE e == [programmatic |-> programmatic, enabled |-> ~programmatic,
                  patches |-> IF programmatic THEN NS!Repatched(NS!Hooked(early))
                              ELSE NS!Hooked(early)]
            f == [k \in Telemetry |-> "open"]
            I == [programmatic : BOOLEAN, enabled : BOOLEAN, patches : [Modules -> 0..1]]
            F == [Telemetry -> Outcomes]
<1>1. e \in I /\ f \in F
  BY DEF NS!Repatched, NS!Hooked, Outcomes
<1>2. /\ instances \in Seq(I) /\ flushed \in Seq(F) /\ waits \in Seq(NS!Wait)
      /\ authorization \in Nat /\ handlers \in Nat
  BY SdkAssumption DEF SdkInv, NS!TypeOK, Outcomes
<1>3. instances' = Append(instances, e) /\ flushed' = Append(flushed, f)
  BY DEF NS!InitSDK
<1>4. /\ UNCHANGED <<waits, exitedFor>> /\ exitedFor = {}
      /\ Len(instances) < MaxInits
      /\ authorization' \in {authorization, authorization + 1}
      /\ handlers' \in {handlers, handlers + 1}
  BY <1>2 DEF NS!InitSDK, NS!SetOtelEnvs, NS!Running
<1>. HIDE DEF e, f, I, F
<1>5. /\ instances' \in Seq(I) /\ Len(instances') = Len(instances) + 1
      /\ flushed' \in Seq(F) /\ Len(flushed') = Len(flushed) + 1
      /\ Len(instances) \in Nat
  BY <1>1, <1>2, <1>3, AppendFacts
<1>6. NS!TypeOK'
  BY <1>2, <1>4, <1>5, SdkAssumption DEF SdkInv, SdkCounts, NS!TypeOK, I, F, Outcomes
<1>7. SdkCounts'
  BY <1>2, <1>4, <1>5, SdkAssumption DEF SdkInv, SdkCounts
<1>8. WaitInv'
  BY <1>2, <1>4, <1>5 DEF SdkInv, SdkCounts, WaitInv
<1>9. NS!ExitAfterFlush'
  BY <1>4 DEF NS!ExitAfterFlush
<1>. QED  BY <1>6, <1>7, <1>8, <1>9 DEF SdkInv

LEMMA RequireKeeps ==
  ASSUME SdkInv, NEW m \in Modules, NS!Require(m)
  PROVE  SdkInv'
<1>. DEFINE I == [programmatic : BOOLEAN, enabled : BOOLEAN, patches : [Modules -> 0..1]]
            then(i) == IF instances[i].enabled /\ NS!Patchable(m)
                       THEN [instances[i] EXCEPT !.patches[m] = 1] ELSE instances[i]
<1>1. instances \in Seq(I) /\ instances' = [i \in DOMAIN instances |-> then(i)]
  BY DEF SdkInv, NS!TypeOK, NS!Require
<1>2. \A i \in DOMAIN instances : then(i) \in I
  <2>. SUFFICES ASSUME NEW i \in DOMAIN instances PROVE then(i) \in I
    OBVIOUS
  <2>1. instances[i] \in I
    <3>. HIDE DEF I, then
    <3>. QED  BY <1>1
  <2>. QED  BY <2>1
<1>. HIDE DEF then, I
<1>3. instances' \in Seq(I) /\ Len(instances') = Len(instances)
  BY <1>1, <1>2
<1>4. UNCHANGED <<authorization, handlers, flushed, waits, exitedFor>>
  BY DEF NS!Require
<1>. QED
  BY <1>3, <1>4 DEF SdkInv, NS!TypeOK, SdkCounts, WaitInv, NS!ExitAfterFlush, I

LEMMA BeginShutdownKeeps ==
  ASSUME SdkInv, NEW n \in Nat, NEW exits \in BOOLEAN,
         NS!BeginShutdown(n, exits)
  PROVE  SdkInv'
<1>. DEFINE F == [Telemetry -> Outcomes]
            sdk == Len(flushed)
            w == [j \in 1..n |->
                   [sdk |-> NS!Sdk, exits |-> exits,
                    for |-> IF j = 1 THEN NS!Awaited(NS!Sdk)
                            ELSE NS!Awaited(NS!Sdk) \ {"metrics"}]]
<1>1. /\ flushed \in Seq(F) /\ waits \in Seq(NS!Wait) /\ sdk \in 0..MaxInits
      /\ NS!Sdk = sdk
  BY SdkAssumption DEF SdkInv, NS!TypeOK, Outcomes, SdkCounts, NS!Sdk
<1>2. /\ NS!Awaited(sdk) \subseteq Telemetry
      /\ sdk # 0 => Telemetry \ {"metrics"} \subseteq NS!Awaited(sdk)
  BY DEF NS!Awaited
<1>. HIDE DEF sdk
<1>3. ASSUME NEW j \in 1..n
      PROVE  /\ w[j] \in NS!Wait /\ w[j].sdk = sdk
             /\ sdk # 0 => Telemetry \ {"metrics"} \subseteq w[j].for
  BY <1>1, <1>2 DEF NS!Wait
<1>4. w \in Seq(NS!Wait) /\ Len(w) = n
  BY <1>3
<1>5. waits' = waits \o w
  BY DEF NS!BeginShutdown
<1>. HIDE DEF w, F
<1>6. /\ waits' \in Seq(NS!Wait)
      /\ Len(waits') = Len(waits) + n /\ Len(waits) \in Nat
      /\ \A j \in 1..Len(waits) + n :
           waits'[j] = IF j <= Len(waits) THEN waits[j] ELSE w[j - Len(waits)]
  <2>1. /\ waits \o w \in Seq(NS!Wait)
        /\ Len(waits \o w) = Len(waits) + Len(w)
        /\ \A j \in 1..Len(waits) + Len(w) :
             (waits \o w)[j] = IF j <= Len(waits) THEN waits[j] ELSE w[j - Len(waits)]
    BY <1>1, <1>4, ConcatProperties
  <2>. QED  BY <1>1, <1>4, <1>5, <2>1
<1>7. Len(waits) + n <= MaxWaits
  BY DEF NS!BeginShutdown
<1>8. flushed' \in Seq(F) /\ Len(flushed') = Len(flushed)
  <2>. DEFINE then(i) == IF i # sdk THEN flushed[i] ELSE
                [k \in Telemetry |-> IF flushed[i][k] = "open" THEN "flushing"
                                     ELSE flushed[i][k]]
  <2>1. flushed' = [i \in DOMAIN flushed |-> then(i)]
    BY <1>1 DEF NS!BeginShutdown
  <2>2. \A i \in DOMAIN flushed : then(i) \in F
    <3>. SUFFICES ASSUME NEW i \in DOMAIN flushed PROVE then(i) \in F
      OBVIOUS
    <3>1. flushed[i] \in F
      BY <1>1
    <3>. QED  BY <3>1 DEF F, Outcomes
  <2>. HIDE DEF then
  <2>. QED  BY <1>1, <2>1, <2>2
<1>9. UNCHANGED <<authorization, instances, handlers, exitedFor>> /\ exitedFor = {}
  BY DEF NS!BeginShutdown, NS!Running
<1>10. NS!TypeOK'
  BY <1>6, <1>7, <1>8, <1>9 DEF SdkInv, NS!TypeOK, F, Outcomes
<1>11. SdkCounts'
  BY <1>8, <1>9 DEF SdkInv, SdkCounts
<1>12. WaitInv'
  <2>. SUFFICES ASSUME NEW j \in 1..Len(waits) + n, waits'[j].sdk # 0
                PROVE  /\ waits'[j].sdk \in 1..Len(flushed)
                       /\ Telemetry \ {"metrics"} \subseteq waits'[j].for
    BY <1>1, <1>6, <1>8 DEF WaitInv
  <2>1. CASE j <= Len(waits)
    BY <1>1, <1>6, <2>1 DEF SdkInv, WaitInv
  <2>2. CASE ~(j <= Len(waits))
    <3>1. j - Len(waits) \in 1..n /\ waits'[j] = w[j - Len(waits)]
      BY <1>6, <2>2
    <3>2. sdk # 0 => sdk \in 1..Len(flushed)
      BY <1>1 DEF sdk
    <3>. QED  BY <1>3, <3>1, <3>2
  <2>. QED  BY <2>1, <2>2
<1>13. NS!ExitAfterFlush'
  BY <1>9 DEF NS!ExitAfterFlush
<1>. QED  BY <1>10, <1>11, <1>12, <1>13 DEF SdkInv

LEMMA FlushEndsKeeps ==
  ASSUME SdkInv, NEW i \in DOMAIN flushed, NEW k \in Telemetry,
         NEW outcome \in {"done", "failed"}, NS!FlushEnds(i, k, outcome)
  PROVE  SdkInv'
<1>. DEFINE F == [Telemetry -> Outcomes]
<1>1. flushed \in Seq(F) /\ flushed' = [flushed EXCEPT ![i][k] = outcome]
  BY DEF SdkInv, NS!TypeOK, NS!FlushEnds, Outcomes
<1>2. flushed[i] \in F /\ [flushed[i] EXCEPT ![k] = outcome] \in F
  BY <1>1 DEF Outcomes
<1>. HIDE DEF F
<1>3. flushed' = [flushed EXCEPT ![i] = [flushed[i] EXCEPT ![k] = outcome]]
  BY <1>1
<1>4. flushed' \in Seq(F) /\ Len(flushed') = Len(flushed)
  BY <1>1, <1>2, <1>3
<1>5. UNCHANGED <<authorization, instances, handlers, waits, exitedFor>> /\ exitedFor = {}
  BY DEF NS!FlushEnds, NS!Running
<1>. QED
  BY <1>1, <1>4, <1>5
  DEF SdkInv, NS!TypeOK, SdkCounts, WaitInv, NS!ExitAfterFlush, F, Outcomes

LEMMA ShutdownEndsKeeps ==
  ASSUME SdkInv, NEW j \in DOMAIN waits, NS!ShutdownEnds(j)
  PROVE  SdkInv'
<1>1. waits \in Seq(NS!Wait) /\ waits[j] \in NS!Wait
  BY DEF SdkInv, NS!TypeOK
<1>2. /\ waits' \in Seq(NS!Wait) /\ Len(waits') = Len(waits) - 1
      /\ \A i \in 1..Len(waits) - 1 : waits'[i] = IF i < j THEN waits[i] ELSE waits[i + 1]
  <2>1. waits' = SubSeq(waits, 1, j - 1) \o SubSeq(waits, j + 1, Len(waits))
    BY DEF NS!ShutdownEnds
  <2>. QED  BY <1>1, <2>1, WithoutFacts
<1>3. UNCHANGED <<authorization, instances, handlers, flushed>>
  BY DEF NS!ShutdownEnds
<1>4. exitedFor' = IF waits[j].exits THEN {waits[j].sdk} ELSE {}
  BY DEF NS!ShutdownEnds
<1>5. waits[j].sdk \in 0..MaxInits /\ waits[j].for \subseteq Telemetry
  BY <1>1 DEF NS!Wait
<1>6. NS!TypeOK'
  <2>1. exitedFor' \in SUBSET (0..MaxInits)
    BY <1>4, <1>5
  <2>2. Len(waits') <= MaxWaits
    BY <1>1, <1>2, SdkAssumption DEF SdkInv, NS!TypeOK
  <2>. QED  BY <1>2, <1>3, <2>1, <2>2 DEF SdkInv, NS!TypeOK
<1>7. SdkCounts'
  BY <1>3 DEF SdkInv, SdkCounts
<1>8. WaitInv'
  <2>1. \A i \in DOMAIN waits' : \E k \in DOMAIN waits : waits'[i] = waits[k]
    BY <1>1, <1>2
  <2>. QED  BY <1>3, <2>1 DEF SdkInv, WaitInv
<1>9. NS!ExitAfterFlush'
  <2>. SUFFICES ASSUME NEW i \in exitedFor' \ {0}
                PROVE  \/ \A k \in Telemetry \ {"metrics"} : flushed[i][k] = "done"
                       \/ \E k \in Telemetry : flushed[i][k] = "failed"
    BY <1>3 DEF NS!ExitAfterFlush
  <2>1. i = waits[j].sdk /\ waits[j].sdk # 0
    BY <1>4
  <2>2. Telemetry \ {"metrics"} \subseteq waits[j].for
    BY <2>1 DEF SdkInv, WaitInv
  <2>3. NS!Settled(waits[j])
    BY DEF NS!ShutdownEnds
  <2>. QED  BY <1>5, <2>1, <2>2, <2>3 DEF NS!Settled
<1>. QED  BY <1>6, <1>7, <1>8, <1>9 DEF SdkInv

LEMMA SdkStep ==
  ASSUME SdkInv, [NS!Next]_NS!sdkVars
  PROVE  SdkInv'
<1>1. CASE UNCHANGED NS!sdkVars
  BY <1>1 DEF NS!sdkVars, SdkInv, NS!TypeOK, SdkCounts, WaitInv, NS!ExitAfterFlush
<1>2. ASSUME NEW key \in BOOLEAN, NEW programmatic \in BOOLEAN, NEW signals \in BOOLEAN,
             NEW early \in SUBSET Modules, NS!InitSDK(key, programmatic, signals, early)
      PROVE  SdkInv'
  BY <1>2, InitSdkKeeps
<1>3. ASSUME NEW m \in Modules, NS!Require(m)
      PROVE  SdkInv'
  BY <1>3, RequireKeeps
<1>4. CASE NS!Shutdown
  BY <1>4, BeginShutdownKeeps DEF NS!Shutdown
<1>5. CASE NS!Signal
  <2>1. handlers \in Nat /\ NS!BeginShutdown(handlers, TRUE)
    <3>1. handlers \in Nat
      BY SdkAssumption DEF SdkInv, NS!TypeOK
    <3>. QED  BY <1>5, <3>1 DEF NS!Signal
  <2>2. \A n \in Nat : NS!BeginShutdown(n, TRUE) => SdkInv'
    BY BeginShutdownKeeps
  <2>. QED  BY <2>1, <2>2
<1>6. ASSUME NEW i \in DOMAIN flushed, NEW k \in Telemetry, NEW outcome \in {"done", "failed"},
             NS!FlushEnds(i, k, outcome)
      PROVE  SdkInv'
  BY <1>6, FlushEndsKeeps
<1>7. ASSUME NEW j \in DOMAIN waits, NS!ShutdownEnds(j)
      PROVE  SdkInv'
  BY <1>7, ShutdownEndsKeeps
<1>. QED  BY <1>1, <1>2, <1>3, <1>4, <1>5, <1>6, <1>7 DEF NS!Next

\* The variables of the SDK keep their types (otel.ts:291-685).
THEOREM SdkTypes == NS!Spec => []NS!TypeOK
<1>1. NS!Init => SdkInv
  BY SdkInit
<1>2. SdkInv /\ [NS!Next]_NS!sdkVars => SdkInv'
  BY SdkStep
<1>3. SdkInv => NS!TypeOK
  BY DEF SdkInv
<1>. QED  BY <1>1, <1>2, <1>3, PTL DEF NS!Spec

\* A termination signal ends the process only after the spans and logs of the SDK
\* that was current when it came are out, unless an export failed
\* (otel.ts:545-558, 670-685).
THEOREM SignalsWaitForTheFlush == NS!Spec => []ExitAfterFlush
<1>1. NS!Init => SdkInv
  BY SdkInit
<1>2. SdkInv /\ [NS!Next]_NS!sdkVars => SdkInv'
  BY SdkStep
<1>3. SdkInv => ExitAfterFlush
  BY DEF SdkInv, ExitAfterFlush
<1>. QED  BY <1>1, <1>2, <1>3, PTL DEF NS!Spec

-----------------------------------------------------------------------------
(* TraceAttributes.                                                        *)

\* The call of q that set k last in the store s, among the first n, is v.
LastIn(q, k, s, n, v) ==
  LET Of(w) == q[w].store = s /\ q[w].key = k IN
  \/ v = NoValue /\ \A w \in 1..n : ~Of(w)
  \/ v \in 1..n /\ Of(v) /\ \A w \in v + 1..n : ~Of(w)

\* The request r has the store s: it runs, or will run, or has set something, with it.
Held(r, s) ==
  \/ \E i \in DOMAIN frames : frames[i].req = r /\ frames[i].store = s
  \/ \E j \in jobs : j.req = r /\ j.store = s
  \/ \E v \in DOMAIN sets : sets[v].req = r /\ sets[v].store = s

TaBounds == Len(sets) <= MaxSets /\ Len(traceAttributes) <= MaxStores

\* No two requests have the same store.
OwnerInv ==
  \A s \in 1..MaxStores, r, q \in Traces :
    /\ Held(r, s) => s <= Len(traceAttributes)
    /\ Held(r, s) /\ Held(q, s) => r = q

\* A store has what was set last in it.
StoreInv ==
  \A s \in 1..Len(traceAttributes), k \in Keys :
    LastIn(sets, k, s, Len(sets), traceAttributes[s][k])

\* the second half of AttributesOfTheTrace, for one span
Carries(t, k) ==
  /\ ~beta => t.attrs[k] = NoValue
  /\ beta => \/ LastIn(sets, k, t.start.store, t.start.sets, t.attrs[k])
                  /\ (t.open \/ t.attrs[k] # NoValue)
             \/ /\ ~t.open
                /\ LastIn(sets, k, t.start.store, t.start.sets, NoValue)
                /\ LastIn(sets, k, t.end.store, t.end.sets, t.attrs[k])
  /\ t.attrs[k] # NoValue => t.attrs[k] \in DOMAIN sets /\ sets[t.attrs[k]].req = t.req

SpanOK(t) ==
  /\ t.start.sets <= Len(sets) /\ t.end.sets <= Len(sets)
  /\ \A k \in Keys : t.attrs[k] # OwnValue => Carries(t, k)

SpanInv == \A i \in DOMAIN traced : SpanOK(traced[i])

SpanRecord == [req : Traces, open : BOOLEAN, attrs : TA!Attrs,
               start : TA!Moment, end : TA!Moment]

TaInv == TA!TypeOK /\ TaBounds /\ OwnerInv /\ StoreInv /\ SpanInv

LEMMA LastInKept ==
  ASSUME NEW S, NEW q \in Seq(S), NEW e \in S, NEW n \in 0..Len(q), NEW k, NEW s, NEW v,
         LastIn(q, k, s, n, v)
  PROVE  LastIn(Append(q, e), k, s, n, v)
<1>1. Len(q) \in Nat /\ \A i \in 1..Len(q) : Append(q, e)[i] = q[i]
  BY AppendFacts
<1>2. \A w \in 1..n : Append(q, e)[w] = q[w]
  BY <1>1
<1>3. CASE v = NoValue /\ \A w \in 1..n : ~(q[w].store = s /\ q[w].key = k)
  BY <1>2, <1>3 DEF LastIn
<1>4. CASE /\ v \in 1..n /\ q[v].store = s /\ q[v].key = k
           /\ \A w \in v + 1..n : ~(q[w].store = s /\ q[w].key = k)
  <2>1. \A w \in v + 1..n : w \in 1..n
    BY <1>1, <1>4
  <2>. QED  BY <1>2, <1>4, <2>1 DEF LastIn
<1>. QED  BY <1>3, <1>4 DEF LastIn

LEMMA LastInAppended ==
  ASSUME NEW S, NEW q \in Seq(S), NEW e \in S, NEW k, NEW s, NEW v,
         LastIn(q, k, s, Len(q), v)
  PROVE  LastIn(Append(q, e), k, s, Len(q) + 1,
                IF e.store = s /\ e.key = k THEN Len(q) + 1 ELSE v)
<1>. DEFINE n == Len(q)
            r == Append(q, e)
            Of(w) == r[w].store = s /\ r[w].key = k
<1>1. n \in Nat /\ (\A i \in 1..n : r[i] = q[i]) /\ r[n + 1] = e
  BY AppendFacts
<1>2. LastIn(r, k, s, n, v)
  BY <1>1, LastInKept
<1>. HIDE DEF r, n
<1>3. CASE e.store = s /\ e.key = k
  <2>1. n + 1 \in 1..n + 1 /\ \A w \in (n + 1) + 1..n + 1 : ~Of(w)
    BY <1>1
  <2>. QED  BY <1>1, <1>3, <2>1 DEF LastIn, n, r
<1>4. CASE ~(e.store = s /\ e.key = k)
  <2>1. ~Of(n + 1) /\ \A w \in 1..n + 1 : w \in 1..n \/ w = n + 1
    BY <1>1, <1>4
  <2>2. CASE v = NoValue /\ \A w \in 1..n : ~Of(w)
    <3>1. \A w \in 1..n + 1 : ~Of(w)
      BY <2>1, <2>2
    <3>2. LastIn(r, k, s, n + 1, v)
      BY <2>2, <3>1 DEF LastIn
    <3>. QED  BY <1>4, <3>2 DEF n, r
  <2>3. CASE v \in 1..n /\ Of(v) /\ \A w \in v + 1..n : ~Of(w)
    <3>1. v \in 1..n + 1 /\ \A w \in v + 1..n + 1 : w \in v + 1..n \/ w = n + 1
      BY <1>1, <2>3
    <3>2. \A w \in v + 1..n + 1 : ~Of(w)
      BY <2>1, <2>3, <3>1
    <3>3. LastIn(r, k, s, n + 1, v)
      BY <2>3, <3>1, <3>2 DEF LastIn
    <3>. QED  BY <1>4, <3>3 DEF n, r
  <2>. QED  BY <1>2, <2>2, <2>3 DEF LastIn
<1>. QED  BY <1>3, <1>4

\* LastIn describes LastSet.
LEMMA LastSetIs ==
  ASSUME NEW k, NEW m, m.sets \in Nat, NEW v, LastIn(sets, k, m.store, m.sets, v)
  PROVE  TA!LastSet(k, m) = v
<1>. DEFINE at == {w \in 1..m.sets : sets[w].store = m.store /\ sets[w].key = k}
            last == CHOOSE w \in at : \A x \in at : x <= w
<1>1. TA!LastSet(k, m) = IF at = {} THEN NoValue ELSE last
  BY DEF TA!LastSet
<1>2. CASE v = NoValue /\ \A w \in 1..m.sets : ~(sets[w].store = m.store /\ sets[w].key = k)
  <2>1. at = {}
    BY <1>2
  <2>. QED  BY <1>1, <1>2, <2>1
<1>3. CASE /\ v \in 1..m.sets /\ sets[v].store = m.store /\ sets[v].key = k
           /\ \A w \in v + 1..m.sets : ~(sets[w].store = m.store /\ sets[w].key = k)
  <2>1. v \in at /\ \A x \in at : x <= v
    BY <1>3
  <2>2. \A w \in at : w \in Nat
    OBVIOUS
  <2>. HIDE DEF at
  <2>3. last \in at /\ \A x \in at : x <= last
    BY <2>1
  <2>4. last = v
    BY <2>1, <2>2, <2>3
  <2>. QED  BY <1>1, <2>1, <2>4
<1>. QED  BY <1>2, <1>3 DEF LastIn

\* What the running code sees was set last in its store, by its own request.
LEMMA VisibleIs ==
  ASSUME TaInv, TA!Running, NEW k \in Keys
  PROVE  /\ LastIn(sets, k, TA!Top.store, Len(sets), TA!Visible[k])
         /\ TA!Visible[k] # NoValue =>
              TA!Visible[k] \in DOMAIN sets /\ sets[TA!Visible[k]].req = TA!Top.req
<1>. DEFINE s == TA!Top.store
            n == Len(sets)
<1>1. /\ TA!Top \in TA!Frame /\ Len(frames) \in DOMAIN frames
      /\ TA!Top = frames[Len(frames)]
  BY DEF TaInv, TA!TypeOK, TA!Running, TA!Top
<1>2. n \in Nat /\ DOMAIN sets = 1..n
      /\ \A w \in 1..n : sets[w].store \in 1..MaxStores /\ sets[w].req \in Traces
  <2>. DEFINE C == [req : Traces, store : 1..MaxStores, key : Keys]
  <2>1. sets \in Seq(C)
    BY DEF TaInv, TA!TypeOK
  <2>. HIDE DEF C
  <2>2. n \in Nat /\ DOMAIN sets = 1..n /\ \A w \in 1..n : sets[w] \in C
    BY <2>1
  <2>. QED  BY <2>2 DEF C
<1>3. CASE s = NoValue
  <2>1. TA!Visible[k] = NoValue
    BY <1>3 DEF TA!Visible, TA!Blank
  <2>2. \A w \in 1..n : sets[w].store # s
    BY <1>2, <1>3, AttributeAssumption
  <2>. QED  BY <2>1, <2>2 DEF LastIn
<1>4. CASE s # NoValue
  <2>1. s \in 1..MaxStores /\ Held(TA!Top.req, s) /\ TA!Top.req \in Traces
    BY <1>1, <1>4 DEF Held, TA!Frame, TA!Maybe
  <2>2. s <= Len(traceAttributes)
    BY <2>1 DEF TaInv, OwnerInv
  <2>3. s \in 1..Len(traceAttributes)
    <3>1. Len(traceAttributes) \in Nat
      BY DEF TaInv, TA!TypeOK
    <3>. QED  BY <2>1, <2>2, <3>1, AttributeAssumption
  <2>4. TA!Visible[k] = traceAttributes[s][k]
    BY <1>4 DEF TA!Visible
  <2>5. LastIn(sets, k, s, n, TA!Visible[k])
    BY <2>3, <2>4 DEF TaInv, StoreInv
  <2>6. TA!Visible[k] # NoValue =>
          TA!Visible[k] \in 1..n /\ sets[TA!Visible[k]].store = s
    BY <2>5 DEF LastIn
  <2>7. TA!Visible[k] # NoValue =>
          TA!Visible[k] \in DOMAIN sets /\ Held(sets[TA!Visible[k]].req, s)
            /\ sets[TA!Visible[k]].req \in Traces
    BY <1>2, <2>6 DEF Held
  <2>8. TA!Visible[k] # NoValue => sets[TA!Visible[k]].req = TA!Top.req
    BY <2>1, <2>7 DEF TaInv, OwnerInv
  <2>. QED  BY <2>5, <2>7, <2>8
<1>. QED  BY <1>3, <1>4

LEMMA TaInit == TA!Init => TaInv
<1>. SUFFICES ASSUME TA!Init PROVE TaInv
  OBVIOUS
<1>1. /\ frames = <<>> /\ jobs = {} /\ traceAttributes = <<>> /\ sets = <<>>
      /\ traced = <<>> /\ inits = 0 /\ beta \in BOOLEAN
  BY DEF TA!Init, TA!InitWith
<1>2. Len(<<>>) = 0 /\ \A S : <<>> \in Seq(S)
  BY EmptySeq
<1>3. TA!TypeOK
  BY <1>1, <1>2, AttributeAssumption DEF TA!TypeOK
<1>. QED
  BY <1>1, <1>2, <1>3, AttributeAssumption
  DEF TaInv, TaBounds, OwnerInv, StoreInv, SpanInv, Held

\* What holds of the store of the running call.
LEMMA TopFacts ==
  ASSUME TaInv, TA!Running
  PROVE  /\ TA!Top \in TA!Frame
         /\ TA!Top.req \in Traces /\ TA!Top.store \in TA!Maybe(1..MaxStores)
         /\ Held(TA!Top.req, TA!Top.store)
<1>1. Len(frames) \in DOMAIN frames /\ TA!Top = frames[Len(frames)] /\ TA!Top \in TA!Frame
  BY DEF TaInv, TA!TypeOK, TA!Running, TA!Top
<1>. QED  BY <1>1 DEF Held, TA!Frame

LEMMA SpanTypes ==
  ASSUME TA!TypeOK
  PROVE  traced \in Seq(SpanRecord) /\ \A i \in DOMAIN traced : traced[i] \in SpanRecord
<1>1. traced \in Seq(SpanRecord)
  BY DEF TA!TypeOK, SpanRecord
<1>. QED  BY <1>1

\* Nothing happens to stores, and nobody gets one that the request did not have.
LEMMA StoresStay ==
  ASSUME TaInv, UNCHANGED <<beta, traceAttributes, sets, traced>>,
         \A s \in 1..MaxStores, r \in Traces : Held(r, s)' => Held(r, s)
  PROVE  TaBounds' /\ OwnerInv' /\ StoreInv' /\ SpanInv'
<1>1. OwnerInv'
  BY DEF TaInv, OwnerInv
<1>. QED
  BY <1>1 DEF TaInv, TaBounds, StoreInv, SpanInv, SpanOK, Carries

\* A call through with gets the store that is there, or a new and empty one.
LEMMA EnterKeeps ==
  ASSUME TaInv, NEW r \in Traces, NEW s \in TA!Maybe(1..MaxStores), s # NoValue => Held(r, s),
         TA!Enter(r, s, frames), UNCHANGED <<beta, sets, traced>>, jobs' \subseteq jobs
  PROVE  /\ frames' \in Seq(TA!Frame) /\ Len(frames') <= MaxFrames
         /\ traceAttributes' \in Seq(TA!Attrs)
         /\ TaBounds' /\ OwnerInv' /\ StoreInv' /\ SpanInv'
<1>. DEFINE n == Len(traceAttributes)
            store == IF inits = 0 THEN NoValue ELSE TA!StoreFor(s)
            f == [req |-> r, store |-> store]
<1>1. /\ traceAttributes \in Seq(TA!Attrs) /\ frames \in Seq(TA!Frame)
      /\ n \in Nat /\ n <= MaxStores
  BY DEF TaInv, TaBounds, TA!TypeOK
<1>2. /\ Len(frames) < MaxFrames
      /\ store # NoValue => store <= MaxStores
      /\ frames' = Append(frames, f)
      /\ traceAttributes' = IF store # NoValue /\ store > n
                            THEN Append(traceAttributes, TA!Blank) ELSE traceAttributes
  BY DEF TA!Enter
<1>3. \/ store = NoValue
      \/ store = s /\ s # NoValue
      \/ store = n + 1
  BY DEF TA!StoreFor
<1>4. s # NoValue => s \in 1..MaxStores /\ s <= n
  BY DEF TaInv, OwnerInv, TA!Maybe
<1>. HIDE DEF store, n
<1>5. store # NoValue => store \in 1..MaxStores
  BY <1>1, <1>2, <1>3, <1>4
<1>6. f \in TA!Frame
  BY <1>5 DEF TA!Frame, TA!Maybe
<1>7. f.req = r /\ f.store = store
  OBVIOUS
<1>. HIDE DEF f
<1>8. /\ frames' \in Seq(TA!Frame) /\ Len(frames') = Len(frames) + 1
      /\ \A i \in 1..Len(frames) + 1 : frames'[i] = IF i <= Len(frames) THEN frames[i] ELSE f
      /\ Len(frames) \in Nat
  BY <1>1, <1>2, <1>6, AppendFacts
<1>9. TA!Blank \in TA!Attrs
  BY DEF TA!Blank, TA!Attrs, TA!Values
<1>10. ASSUME NEW q \in Traces, NEW x \in 1..MaxStores, Held(q, x)'
       PROVE  Held(q, x) \/ (q = r /\ x = store)
  BY <1>7, <1>8, <1>10 DEF Held
<1>11. CASE ~(store # NoValue /\ store > n)
  <2>1. traceAttributes' = traceAttributes
    BY <1>2, <1>11
  <2>2. store = NoValue \/ (store = s /\ s # NoValue)
    <3>1. n + 1 # NoValue /\ n + 1 > n
      BY <1>1, AttributeAssumption
    <3>2. store # n + 1
      BY <1>11, <3>1
    <3>. QED  BY <1>3, <3>2
  <2>3. NoValue \notin 1..MaxStores
    BY AttributeAssumption
  <2>4. \A x \in 1..MaxStores, q \in Traces : Held(q, x)' => Held(q, x)
    BY <1>10, <2>2, <2>3
  <2>5. TaBounds' /\ OwnerInv' /\ StoreInv' /\ SpanInv'
    BY <2>1, <2>4, StoresStay
  <2>. QED  BY <1>1, <1>2, <1>8, <2>1, <2>5, AttributeAssumption
<1>12. CASE store # NoValue /\ store > n
  <2>1. store = n + 1 /\ n + 1 <= MaxStores
    <3>1. store # s
      BY <1>1, <1>4, <1>12, AttributeAssumption
    <3>. QED  BY <1>2, <1>3, <1>12, <3>1
  <2>2. /\ traceAttributes' \in Seq(TA!Attrs) /\ Len(traceAttributes') = n + 1
        /\ \A i \in 1..n + 1 :
             traceAttributes'[i] = IF i <= n THEN traceAttributes[i] ELSE TA!Blank
    BY <1>1, <1>2, <1>9, <1>12, AppendFacts DEF n
  <2>3. \A q \in Traces : ~Held(q, n + 1)
    <3>1. n + 1 \in 1..MaxStores /\ ~(n + 1 <= n)
      BY <1>1, <2>1, AttributeAssumption
    <3>. QED  BY <3>1 DEF TaInv, OwnerInv, n
  <2>4. TaBounds'
    BY <2>1, <2>2 DEF TaInv, TaBounds
  <2>5. OwnerInv'
    <3>. SUFFICES ASSUME NEW x \in 1..MaxStores, NEW q \in Traces, NEW p \in Traces, Held(q, x)'
                  PROVE  x <= n + 1 /\ (Held(p, x)' => q = p)
      BY <2>2 DEF OwnerInv
    <3>1. CASE x = n + 1
      <4>1. \A y \in Traces : Held(y, x)' => y = r
        BY <1>10, <2>3, <3>1
      <4>. QED  BY <1>1, <3>1, <4>1
    <3>2. CASE x # n + 1
      <4>1. \A y \in Traces : Held(y, x)' => Held(y, x)
        BY <1>10, <2>1, <3>2
      <4>2. Held(q, x) => x <= n /\ \A y \in Traces : Held(y, x) => q = y
        BY DEF TaInv, OwnerInv, n
      <4>. QED  BY <1>1, <4>1, <4>2
    <3>. QED  BY <3>1, <3>2
  <2>6. StoreInv'
    <3>. SUFFICES ASSUME NEW x \in 1..n + 1, NEW k \in Keys
                  PROVE  LastIn(sets, k, x, Len(sets), traceAttributes'[x][k])
      BY <2>2 DEF StoreInv
    <3>1. CASE x <= n
      <4>1. x \in 1..n /\ traceAttributes'[x] = traceAttributes[x]
        BY <1>1, <2>2, <3>1
      <4>. QED  BY <4>1 DEF TaInv, StoreInv, n
    <3>2. CASE x = n + 1
      <4>1. traceAttributes'[x][k] = NoValue
        BY <1>1, <2>2, <3>2 DEF TA!Blank
      <4>2. \A w \in 1..Len(sets) : sets[w].req \in Traces /\ sets[w].store # n + 1
        <5>. DEFINE C == [req : Traces, store : 1..MaxStores, key : Keys]
        <5>1. sets \in Seq(C)
          BY DEF TaInv, TA!TypeOK
        <5>. HIDE DEF C
        <5>2. \A w \in 1..Len(sets) : sets[w] \in C /\ w \in DOMAIN sets
          BY <5>1
        <5>. QED  BY <2>3, <5>2 DEF C, Held
      <4>. QED  BY <3>2, <4>1, <4>2 DEF LastIn
    <3>. QED  BY <1>1, <3>1, <3>2
  <2>7. SpanInv'
    BY DEF TaInv, SpanInv, SpanOK, Carries
  <2>. QED  BY <1>1, <1>2, <1>8, <2>2, <2>4, <2>5, <2>6, <2>7, AttributeAssumption
<1>. QED  BY <1>11, <1>12

\* setTraceAttributes: the store has the value, and what was set before stays known.
LEMMA SetKeeps ==
  ASSUME TaInv, NEW k \in Keys, TA!SetTraceAttributes(k)
  PROVE  TaInv'
<1>. DEFINE C == [req : Traces, store : 1..MaxStores, key : Keys]
            e == [req |-> TA!Top.req, store |-> TA!Top.store, key |-> k]
            n == Len(sets)
            store == TA!Top.store
<1>1. /\ TA!Running /\ n < MaxSets
      /\ UNCHANGED <<beta, inits, frames, jobs, traced>>
  BY DEF TA!SetTraceAttributes
<1>2. CASE UNCHANGED <<sets, traceAttributes>>
  <2>1. \A s \in 1..MaxStores, r \in Traces : Held(r, s)' => Held(r, s)
    BY <1>1, <1>2 DEF Held
  <2>2. TaBounds' /\ OwnerInv' /\ StoreInv' /\ SpanInv'
    BY <1>1, <1>2, <2>1, StoresStay
  <2>3. TA!TypeOK'
    BY <1>1, <1>2 DEF TaInv, TA!TypeOK
  <2>. QED  BY <2>2, <2>3 DEF TaInv
<1>3. CASE /\ store # NoValue
           /\ sets' = Append(sets, e)
           /\ traceAttributes' = [traceAttributes EXCEPT ![store][k] = n + 1]
  <2>1. /\ sets \in Seq(C) /\ n \in Nat /\ traceAttributes \in Seq(TA!Attrs)
        /\ Len(traceAttributes) \in Nat /\ n <= MaxSets
    BY DEF TaInv, TA!TypeOK, TaBounds
  <2>2. /\ store \in 1..MaxStores /\ TA!Top.req \in Traces /\ Held(TA!Top.req, store)
        /\ e \in C
    BY <1>1, <1>3, TopFacts DEF TA!Maybe
  <2>3. store \in 1..Len(traceAttributes)
    <3>1. store <= Len(traceAttributes)
      BY <2>2 DEF TaInv, OwnerInv
    <3>. QED  BY <2>1, <2>2, <3>1, AttributeAssumption
  <2>4. e.req = TA!Top.req /\ e.store = store /\ e.key = k
    OBVIOUS
  <2>. HIDE DEF C, e, store, n
  <2>5. /\ sets' \in Seq(C) /\ Len(sets') = n + 1
        /\ \A i \in 1..n + 1 : sets'[i] = IF i <= n THEN sets[i] ELSE e
    BY <1>3, <2>1, <2>2, AppendFacts DEF n
  <2>6. DOMAIN sets = 1..n /\ DOMAIN sets' = 1..n + 1
    BY <2>1, <2>5 DEF n
  <2>7. /\ traceAttributes' \in Seq(TA!Attrs)
        /\ Len(traceAttributes') = Len(traceAttributes)
        /\ \A s \in 1..Len(traceAttributes), q \in Keys :
             traceAttributes'[s][q] = IF s = store /\ q = k THEN n + 1
                                      ELSE traceAttributes[s][q]
    <3>. DEFINE a == [traceAttributes[store] EXCEPT ![k] = n + 1]
    <3>1. traceAttributes[store] \in TA!Attrs
      BY <2>1, <2>3
    <3>2. n + 1 \in TA!Values
      BY <1>1, <2>1, AttributeAssumption DEF n, TA!Values
    <3>3. a \in TA!Attrs /\ \A q \in Keys : a[q] = IF q = k THEN n + 1 ELSE traceAttributes[store][q]
      BY <3>1, <3>2 DEF TA!Attrs
    <3>4. traceAttributes' = [traceAttributes EXCEPT ![store] = a]
      BY <1>3, <2>1, <2>3
    <3>. HIDE DEF a
    <3>5. /\ traceAttributes' \in Seq(TA!Attrs)
          /\ Len(traceAttributes') = Len(traceAttributes)
          /\ \A s \in 1..Len(traceAttributes) :
               traceAttributes'[s] = IF s = store THEN a ELSE traceAttributes[s]
      BY <2>1, <2>3, <3>3, <3>4, ExceptSeq
    <3>. QED  BY <3>3, <3>5
  <2>8. TA!TypeOK'
    BY <1>1, <2>5, <2>7 DEF TaInv, TA!TypeOK, C
  <2>9. TaBounds'
    BY <1>1, <2>1, <2>5, <2>7, AttributeAssumption DEF TaInv, TaBounds, n
  <2>10. ASSUME NEW s, NEW r, Held(r, s)'
         PROVE  Held(r, s) \/ (r = TA!Top.req /\ s = store)
    <3>1. ASSUME NEW v \in DOMAIN sets', sets'[v].req = r, sets'[v].store = s
          PROVE  Held(r, s) \/ (r = TA!Top.req /\ s = store)
      <4>1. CASE v <= n
        <5>1. v \in DOMAIN sets /\ sets'[v] = sets[v]
          BY <2>1, <2>5, <2>6, <4>1
        <5>. QED  BY <3>1, <5>1 DEF Held
      <4>2. CASE ~(v <= n)
        BY <2>1, <2>4, <2>5, <2>6, <3>1, <4>2
      <4>. QED  BY <4>1, <4>2
    <3>. QED  BY <1>1, <2>10, <3>1 DEF Held
  <2>11. OwnerInv'
    <3>1. \A s \in 1..MaxStores, r \in Traces : Held(r, s)' => Held(r, s)
      BY <2>2, <2>10
    <3>. QED  BY <2>7, <3>1 DEF TaInv, OwnerInv
  <2>12. StoreInv'
    <3>. SUFFICES ASSUME NEW s \in 1..Len(traceAttributes), NEW q \in Keys
                  PROVE  LastIn(sets', q, s, n + 1, traceAttributes'[s][q])
      BY <2>5, <2>7 DEF StoreInv
    <3>1. LastIn(sets, q, s, n, traceAttributes[s][q])
      BY DEF TaInv, StoreInv, n
    <3>2. LastIn(sets', q, s, n + 1,
                 IF e.store = s /\ e.key = q THEN n + 1 ELSE traceAttributes[s][q])
      BY <1>3, <2>1, <2>2, <3>1, LastInAppended DEF n
    <3>3. (e.store = s /\ e.key = q) <=> (s = store /\ q = k)
      BY <2>4
    <3>. QED  BY <2>7, <3>2, <3>3
  <2>13. SpanInv'
    <3>. SUFFICES ASSUME NEW i \in DOMAIN traced
                  PROVE  /\ traced[i].start.sets <= n + 1 /\ traced[i].end.sets <= n + 1
                         /\ \A q \in Keys : traced[i].attrs[q] # OwnValue => Carries(traced[i], q)'
      BY <1>1, <2>5 DEF SpanInv, SpanOK
    <3>. DEFINE t == traced[i]
    <3>1. /\ t.start.sets \in 0..n /\ t.end.sets \in 0..n
          /\ \A q \in Keys : t.attrs[q] # OwnValue => Carries(t, q)
      <4>1. t.start.sets \in 0..MaxSets /\ t.end.sets \in 0..MaxSets
        BY SpanTypes DEF TaInv, SpanRecord, TA!Moment
      <4>2. /\ t.start.sets <= n /\ t.end.sets <= n
            /\ \A q \in Keys : t.attrs[q] # OwnValue => Carries(t, q)
        BY DEF TaInv, SpanInv, SpanOK, n
      <4>. QED  BY <2>1, <4>1, <4>2
    <3>2. t' = t
      BY <1>1
    <3>3. ASSUME NEW q \in Keys, t.attrs[q] # OwnValue
          PROVE  Carries(t, q)'
      <4>1. Carries(t, q)
        BY <3>1, <3>3
      <4>2. ASSUME NEW v, NEW s, NEW m \in 0..n, LastIn(sets, q, s, m, v)
            PROVE  LastIn(sets', q, s, m, v)
        BY <1>3, <2>1, <2>2, <4>2, LastInKept DEF n
      <4>3. t.attrs[q] \in DOMAIN sets =>
              t.attrs[q] \in DOMAIN sets' /\ sets'[t.attrs[q]] = sets[t.attrs[q]]
        BY <2>1, <2>5, <2>6
      <4>. QED  BY <1>1, <3>1, <3>2, <4>1, <4>2, <4>3 DEF Carries
    <3>. QED  BY <2>1, <3>1, <3>2, <3>3
  <2>. QED  BY <2>8, <2>9, <2>11, <2>12, <2>13 DEF TaInv
<1>. QED  BY <1>2, <1>3 DEF TA!SetTraceAttributes

\* What a span of the running request gets from the store.
LEMMA TaggedIs ==
  ASSUME TaInv, TA!Running, NEW attrs \in TA!Attrs
  PROVE  /\ TA!Tagged(attrs) \in TA!Attrs
         /\ \A k \in Keys : TA!Tagged(attrs)[k] = IF attrs[k] = NoValue /\ beta
                                                  THEN TA!Visible[k] ELSE attrs[k]
<1>1. TA!Visible \in TA!Attrs
  <2>1. CASE TA!Top.store = NoValue
    BY <2>1 DEF TA!Visible, TA!Blank, TA!Attrs, TA!Values
  <2>2. CASE TA!Top.store # NoValue
    <3>1. TA!Top.store \in 1..MaxStores /\ Held(TA!Top.req, TA!Top.store)
          /\ TA!Top.req \in Traces
      BY <2>2, TopFacts DEF TA!Maybe
    <3>2. TA!Top.store <= Len(traceAttributes)
      BY <3>1 DEF TaInv, OwnerInv
    <3>3. traceAttributes \in Seq(TA!Attrs) /\ Len(traceAttributes) \in Nat
      BY DEF TaInv, TA!TypeOK
    <3>4. TA!Top.store \in 1..Len(traceAttributes)
      BY <3>1, <3>2, <3>3, AttributeAssumption
    <3>. QED  BY <2>2, <3>3, <3>4 DEF TA!Visible
  <2>. QED  BY <2>1, <2>2
<1>. QED  BY <1>1 DEF TA!Tagged, TA!Attrs

\* A step that changes nothing but the spans.
LEMMA SpansKeep ==
  ASSUME TaInv, UNCHANGED <<beta, inits, frames, jobs, traceAttributes, sets>>,
         traced' \in Seq(SpanRecord), \A i \in DOMAIN traced' : SpanOK(traced'[i])
  PROVE  TaInv'
<1>1. TA!TypeOK'
  BY DEF TaInv, TA!TypeOK, SpanRecord
<1>2. TaBounds' /\ OwnerInv' /\ StoreInv'
  BY DEF TaInv, TaBounds, OwnerInv, Held, StoreInv
<1>3. SpanInv'
  BY DEF SpanInv, SpanOK, Carries
<1>. QED  BY <1>1, <1>2, <1>3 DEF TaInv

LEMMA NowIs ==
  ASSUME TaInv, TA!Running
  PROVE  TA!Now \in TA!Moment /\ TA!Now.store = TA!Top.store /\ TA!Now.sets = Len(sets)
<1>1. Len(sets) \in 0..MaxSets
  <2>1. Len(sets) \in Nat /\ Len(sets) <= MaxSets
    BY DEF TaInv, TA!TypeOK, TaBounds
  <2>. QED  BY <2>1, AttributeAssumption
<1>. QED  BY <1>1, TopFacts DEF TA!Now, TA!Moment

LEMMA StartKeeps ==
  ASSUME TaInv, NEW own \in SUBSET Keys, TA!StartSpan(own)
  PROVE  TaInv'
<1>. DEFINE t == [req |-> TA!Top.req, open |-> TRUE, attrs |-> TA!Tagged(TA!OwnAttrs(own)),
                  start |-> TA!Now, end |-> TA!Now]
<1>1. /\ TA!Running /\ traced' = Append(traced, t)
      /\ UNCHANGED <<beta, inits, frames, jobs, traceAttributes, sets>>
  BY DEF TA!StartSpan
<1>2. /\ TA!OwnAttrs(own) \in TA!Attrs
      /\ \A k \in Keys : TA!OwnAttrs(own)[k] = IF k \in own THEN OwnValue ELSE NoValue
  BY DEF TA!OwnAttrs, TA!Attrs, TA!Values
<1>3. /\ t.attrs \in TA!Attrs
      /\ \A k \in Keys : t.attrs[k] = IF TA!OwnAttrs(own)[k] = NoValue /\ beta
                                      THEN TA!Visible[k] ELSE TA!OwnAttrs(own)[k]
  BY <1>1, <1>2, TaggedIs
<1>4. t \in SpanRecord
  BY <1>1, <1>3, TopFacts, NowIs DEF SpanRecord
<1>5. SpanOK(t)
  <2>1. t.start.sets = Len(sets) /\ t.end.sets = Len(sets) /\ Len(sets) \in Nat
        /\ t.start.store = TA!Top.store /\ t.open /\ t.req = TA!Top.req
    BY <1>1, NowIs DEF TaInv, TA!TypeOK
  <2>. HIDE DEF t
  <2>2. ASSUME NEW k \in Keys, t.attrs[k] # OwnValue
        PROVE  Carries(t, k)
    <3>1. t.attrs[k] = IF beta THEN TA!Visible[k] ELSE NoValue
      BY <1>2, <1>3, <2>2, AttributeAssumption
    <3>. QED  BY <1>1, <2>1, <3>1, VisibleIs DEF Carries
  <2>. QED  BY <2>1, <2>2 DEF SpanOK
<1>. HIDE DEF t
<1>6. /\ traced \in Seq(SpanRecord) /\ traced' \in Seq(SpanRecord)
      /\ \A i \in DOMAIN traced' : (i \in DOMAIN traced /\ traced'[i] = traced[i])
                                   \/ traced'[i] = t
  <2>1. traced \in Seq(SpanRecord)
    BY SpanTypes DEF TaInv
  <2>. QED  BY <1>1, <1>4, <2>1, AppendFacts
<1>7. \A i \in DOMAIN traced' : SpanOK(traced'[i])
  BY <1>5, <1>6 DEF TaInv, SpanInv
<1>. QED  BY <1>1, <1>6, <1>7, SpansKeep

\* A span that is replaced by another one, of which SpanOK holds.
LEMMA ReplacedKeeps ==
  ASSUME TaInv, UNCHANGED <<beta, inits, frames, jobs, traceAttributes, sets>>,
         NEW i \in DOMAIN traced, NEW t \in SpanRecord, SpanOK(t),
         traced' = [traced EXCEPT ![i] = t]
  PROVE  TaInv'
<1>1. traced \in Seq(SpanRecord) /\ i \in 1..Len(traced)
  BY SpanTypes DEF TaInv
<1>2. /\ traced' \in Seq(SpanRecord) /\ DOMAIN traced' = DOMAIN traced
      /\ \A j \in DOMAIN traced : traced'[j] = IF j = i THEN t ELSE traced[j]
  BY <1>1, ExceptSeq
<1>3. \A j \in DOMAIN traced' : SpanOK(traced'[j])
  BY <1>2 DEF TaInv, SpanInv
<1>. QED  BY <1>2, <1>3, SpansKeep

LEMMA SetAttributeKeeps ==
  ASSUME TaInv, NEW i \in DOMAIN traced, NEW k \in Keys, TA!SetAttribute(i, k)
  PROVE  TaInv'
<1>. DEFINE s == traced[i]
            t == [s EXCEPT !.attrs[k] = OwnValue]
<1>1. /\ traced' = [traced EXCEPT ![i] = t]
      /\ UNCHANGED <<beta, inits, frames, jobs, traceAttributes, sets>>
  BY DEF TA!SetAttribute
<1>2. s \in SpanRecord
  BY SpanTypes DEF TaInv
<1>3. /\ t \in SpanRecord
      /\ t.start = s.start /\ t.end = s.end /\ t.req = s.req /\ t.open = s.open
      /\ \A q \in Keys : t.attrs[q] = IF q = k THEN OwnValue ELSE s.attrs[q]
  BY <1>2 DEF SpanRecord, TA!Attrs, TA!Values
<1>4. SpanOK(s)
  BY DEF TaInv, SpanInv
<1>. HIDE DEF s, t
<1>5. SpanOK(t)
  BY <1>3, <1>4 DEF SpanOK, Carries
<1>. QED  BY <1>1, <1>3, <1>5, ReplacedKeeps

LEMMA EndKeeps ==
  ASSUME TaInv, NEW i \in DOMAIN traced, TA!EndSpan(i)
  PROVE  TaInv'
<1>. DEFINE s == traced[i]
            t == [s EXCEPT !.open = FALSE, !.attrs = TA!Tagged(@), !.end = TA!Now]
<1>1. /\ traced' = [traced EXCEPT ![i] = t]
      /\ TA!Running /\ s.open /\ s.req = TA!Top.req
      /\ UNCHANGED <<beta, inits, frames, jobs, traceAttributes, sets>>
  BY DEF TA!EndSpan
<1>2. s \in SpanRecord
  BY SpanTypes DEF TaInv
<1>3. s.attrs \in TA!Attrs
  BY <1>2 DEF SpanRecord
<1>4. /\ t \in SpanRecord
      /\ t.start = s.start /\ t.end = TA!Now /\ t.req = s.req /\ ~t.open
      /\ t.attrs = TA!Tagged(s.attrs)
  BY <1>1, <1>2, <1>3, TaggedIs, NowIs DEF SpanRecord
<1>5. SpanOK(s)
  BY DEF TaInv, SpanInv
<1>. HIDE DEF s, t
<1>6. ASSUME NEW k \in Keys, t.attrs[k] # OwnValue
      PROVE  Carries(t, k)
  <2>1. t.attrs[k] = IF s.attrs[k] = NoValue /\ beta THEN TA!Visible[k] ELSE s.attrs[k]
    BY <1>1, <1>3, <1>4, TaggedIs
  <2>2. s.attrs[k] # OwnValue
    BY <1>6, <2>1, AttributeAssumption
  <2>3. Carries(s, k)
    BY <1>5, <2>2 DEF SpanOK
  <2>4. t.end.store = TA!Top.store /\ t.end.sets = Len(sets)
    BY <1>1, <1>4, NowIs
  <2>5. CASE s.attrs[k] = NoValue /\ beta
    <3>1. LastIn(sets, k, t.start.store, t.start.sets, NoValue)
      BY <1>1, <1>4, <2>3, <2>5 DEF Carries
    <3>2. LastIn(sets, k, t.end.store, t.end.sets, t.attrs[k])
      BY <1>1, <2>1, <2>4, <2>5, VisibleIs
    <3>3. t.attrs[k] # NoValue =>
            t.attrs[k] \in DOMAIN sets /\ sets[t.attrs[k]].req = t.req
      BY <1>1, <1>4, <2>1, <2>5, VisibleIs
    <3>. QED  BY <1>4, <2>5, <3>1, <3>2, <3>3 DEF Carries
  <2>6. CASE ~(s.attrs[k] = NoValue /\ beta)
    <3>1. t.attrs[k] = s.attrs[k]
      BY <2>1, <2>6
    <3>. QED  BY <1>1, <1>4, <2>3, <2>6, <3>1 DEF Carries
  <2>. QED  BY <2>5, <2>6
<1>7. t.start.sets <= Len(sets) /\ t.end.sets <= Len(sets)
  <2>1. Len(sets) \in Nat
    BY DEF TaInv, TA!TypeOK
  <2>. QED  BY <1>1, <1>4, <1>5, <2>1, NowIs DEF SpanOK
<1>8. SpanOK(t)
  BY <1>6, <1>7 DEF SpanOK
<1>. QED  BY <1>1, <1>4, <1>8, ReplacedKeeps

JobRecord == [req : Traces, store : TA!Maybe(1..MaxStores), bound : BOOLEAN]

\* The steps of the contexts: no request gets a store that it did not have.
LEMMA ContextKeeps ==
  ASSUME TaInv, UNCHANGED <<beta, traceAttributes, sets, traced>>, inits' \in 0..2,
         frames' \in Seq(TA!Frame), Len(frames') <= MaxFrames, jobs' \subseteq JobRecord,
         \A s \in 1..MaxStores, r \in Traces : Held(r, s)' => Held(r, s)
  PROVE  TaInv'
<1>1. TA!TypeOK'
  BY DEF TaInv, TA!TypeOK, JobRecord
<1>. QED  BY <1>1, StoresStay DEF TaInv

LEMMA TaTypes ==
  ASSUME TaInv
  PROVE  /\ beta \in BOOLEAN /\ inits \in 0..2 /\ jobs \subseteq JobRecord
         /\ frames \in Seq(TA!Frame) /\ Len(frames) \in Nat /\ Len(frames) <= MaxFrames
BY DEF TaInv, TA!TypeOK, JobRecord

LEMMA SingleFacts ==
  ASSUME NEW S, NEW e \in S
  PROVE  <<e>> \in Seq(S) /\ Len(<<e>>) = 1 /\ DOMAIN <<e>> = {1} /\ <<e>>[1] = e
OBVIOUS

LEMMA ArriveKeeps ==
  ASSUME TaInv, NEW r \in Traces, TA!Arrive(r)
  PROVE  TaInv'
<1>. DEFINE f == [req |-> r, store |-> NoValue]
<1>1. frames' = <<f>> /\ UNCHANGED <<beta, inits, jobs, traceAttributes, sets, traced>>
  BY DEF TA!Arrive
<1>2. f \in TA!Frame
  BY DEF TA!Frame, TA!Maybe
<1>3. f.store = NoValue /\ \A s \in 1..MaxStores : s # NoValue
  BY AttributeAssumption
<1>. HIDE DEF f
<1>4. /\ frames' \in Seq(TA!Frame) /\ Len(frames') = 1
      /\ \A i \in DOMAIN frames' : frames'[i] = f
  BY <1>1, <1>2, SingleFacts
<1>5. \A s \in 1..MaxStores, q \in Traces : Held(q, s)' => Held(q, s)
  BY <1>1, <1>3, <1>4 DEF Held
<1>. QED  BY <1>1, <1>4, <1>5, TaTypes, ContextKeeps, AttributeAssumption

LEMMA ReturnKeeps ==
  ASSUME TaInv, TA!Return
  PROVE  TaInv'
<1>. DEFINE n == Len(frames)
<1>1. /\ frames # <<>> /\ frames' = SubSeq(frames, 1, n - 1)
      /\ UNCHANGED <<beta, inits, jobs, traceAttributes, sets, traced>>
  BY DEF TA!Return, TA!Running
<1>2. frames \in Seq(TA!Frame) /\ n \in Nat \ {0} /\ n <= MaxFrames
  BY <1>1, TaTypes
<1>3. /\ frames' \in Seq(TA!Frame) /\ Len(frames') = n - 1
      /\ \A i \in DOMAIN frames' : i \in DOMAIN frames /\ frames'[i] = frames[i]
  <2>1. n \in DOMAIN frames
    BY <1>2
  <2>2. /\ frames' \in Seq(TA!Frame) /\ Len(frames') = n - 1
        /\ \A i \in 1..n - 1 : frames'[i] = frames[i]
    BY <1>1, <1>2, <2>1, PrefixFacts
  <2>. HIDE DEF n
  <2>3. DOMAIN frames' = 1..n - 1 /\ DOMAIN frames = 1..n
    BY <1>2, <2>2 DEF n
  <2>. QED  BY <1>2, <2>2, <2>3
<1>4. \A s \in 1..MaxStores, q \in Traces : Held(q, s)' => Held(q, s)
  BY <1>1, <1>3 DEF Held
<1>. HIDE DEF n
<1>5. n - 1 <= MaxFrames
  BY <1>2, AttributeAssumption
<1>. QED  BY <1>1, <1>3, <1>4, <1>5, TaTypes, ContextKeeps

LEMMA RegisterKeeps ==
  ASSUME TaInv, NEW bound \in BOOLEAN, TA!Register(bound)
  PROVE  TaInv'
<1>. DEFINE j == [req |-> TA!Top.req, bound |-> bound,
                  store |-> IF bound THEN NoValue ELSE TA!Top.store]
<1>1. /\ TA!Running /\ jobs' = jobs \cup {j}
      /\ UNCHANGED <<beta, inits, frames, traceAttributes, sets, traced>>
  BY DEF TA!Register
<1>2. j \in JobRecord
  BY <1>1, TopFacts DEF JobRecord, TA!Maybe
<1>3. \A s \in 1..MaxStores, q \in Traces : j.req = q /\ j.store = s => Held(q, s)
  <2>1. \A s \in 1..MaxStores : s # NoValue
    BY AttributeAssumption
  <2>. QED  BY <1>1, <2>1, TopFacts
<1>. HIDE DEF j
<1>4. \A s \in 1..MaxStores, q \in Traces : Held(q, s)' => Held(q, s)
  BY <1>1, <1>3 DEF Held
<1>. QED  BY <1>1, <1>2, <1>4, TaTypes, ContextKeeps

LEMMA RunJobKeeps ==
  ASSUME TaInv, NEW j \in jobs, TA!RunJob(j)
  PROVE  TaInv'
<1>. DEFINE f == [req |-> j.req, store |-> j.store]
<1>1. /\ frames' = <<f>> /\ jobs' = jobs \ {j}
      /\ UNCHANGED <<beta, inits, traceAttributes, sets, traced>>
  BY DEF TA!RunJob
<1>2. j \in JobRecord
  BY TaTypes
<1>3. f \in TA!Frame
  BY <1>2 DEF TA!Frame, JobRecord
<1>4. f.req = j.req /\ f.store = j.store
  OBVIOUS
<1>. HIDE DEF f
<1>5. /\ frames' \in Seq(TA!Frame) /\ Len(frames') = 1
      /\ \A i \in DOMAIN frames' : frames'[i] = f
  BY <1>1, <1>3, SingleFacts
<1>6. \A s \in 1..MaxStores, q \in Traces : Held(q, s)' => Held(q, s)
  BY <1>1, <1>4, <1>5 DEF Held
<1>7. jobs' \subseteq JobRecord
  BY <1>1, TaTypes
<1>. QED  BY <1>1, <1>5, <1>6, <1>7, TaTypes, ContextKeeps, AttributeAssumption

LEMMA CallKeeps ==
  ASSUME TaInv, NEW r \in Traces, NEW s \in TA!Maybe(1..MaxStores), s # NoValue => Held(r, s),
         TA!Enter(r, s, frames), UNCHANGED <<beta, inits, sets, traced>>, jobs' \subseteq jobs
  PROVE  TaInv'
<1>1. /\ frames' \in Seq(TA!Frame) /\ Len(frames') <= MaxFrames
      /\ traceAttributes' \in Seq(TA!Attrs)
      /\ TaBounds' /\ OwnerInv' /\ StoreInv' /\ SpanInv'
  BY EnterKeeps
<1>2. TA!TypeOK'
  BY <1>1 DEF TaInv, TA!TypeOK
<1>. QED  BY <1>1, <1>2 DEF TaInv

LEMMA TaStep == TaInv /\ [TA!Next]_TA!taVars => TaInv'
<1>. SUFFICES ASSUME TaInv, [TA!Next]_TA!taVars PROVE TaInv'
  OBVIOUS
<1>1. CASE TA!InitSDK
  <2>1. /\ inits' = inits + 1 /\ inits < 2
        /\ UNCHANGED <<beta, frames, jobs, traceAttributes, sets, traced>>
    BY <1>1 DEF TA!InitSDK
  <2>2. inits' \in 0..2
    BY <2>1, TaTypes
  <2>3. \A s \in 1..MaxStores, q \in Traces : Held(q, s)' => Held(q, s)
    BY <2>1 DEF Held
  <2>. QED  BY <2>1, <2>2, <2>3, TaTypes, ContextKeeps
<1>2. CASE \E r \in Traces : TA!Arrive(r)
  BY <1>2, ArriveKeeps
<1>3. CASE TA!With
  <2>1. /\ TA!Running /\ TA!Enter(TA!Top.req, TA!Top.store, frames)
        /\ UNCHANGED <<beta, inits, jobs, sets, traced>>
    BY <1>3 DEF TA!With
  <2>2. TA!Top.req \in Traces /\ TA!Top.store \in TA!Maybe(1..MaxStores)
        /\ Held(TA!Top.req, TA!Top.store) /\ jobs' \subseteq jobs
    BY <2>1, TopFacts
  <2>. QED  BY <2>1, <2>2, CallKeeps
<1>4. CASE TA!Return
  BY <1>4, ReturnKeeps
<1>5. CASE \E bound \in BOOLEAN : TA!Register(bound)
  BY <1>5, RegisterKeeps
<1>6. ASSUME NEW j \in jobs, TA!RunJob(j)
      PROVE  TaInv'
  BY <1>6, RunJobKeeps
<1>7. ASSUME NEW j \in jobs, TA!Fire(j)
      PROVE  TaInv'
  <2>. DEFINE s == IF TA!Running THEN TA!Top.store ELSE NoValue
  <2>1. /\ TA!Running => TA!Top.req = j.req
        /\ jobs' = jobs \ {j} /\ TA!Enter(j.req, s, frames)
        /\ UNCHANGED <<beta, inits, sets, traced>>
    BY <1>7 DEF TA!Fire
  <2>2. j.req \in Traces
    BY TaTypes DEF JobRecord
  <2>3. s \in TA!Maybe(1..MaxStores) /\ (s # NoValue => Held(j.req, s))
    BY <2>1, TopFacts DEF TA!Maybe
  <2>. QED  BY <2>1, <2>2, <2>3, CallKeeps
<1>8. CASE \E k \in Keys : TA!SetTraceAttributes(k)
  BY <1>8, SetKeeps
<1>9. CASE \E own \in SUBSET Keys : TA!StartSpan(own)
  BY <1>9, StartKeeps
<1>10. ASSUME NEW i \in DOMAIN traced, TA!EndSpan(i)
       PROVE  TaInv'
  BY <1>10, EndKeeps
<1>11. ASSUME NEW i \in DOMAIN traced, NEW k \in Keys, TA!SetAttribute(i, k)
       PROVE  TaInv'
  BY <1>11, SetAttributeKeeps
<1>12. CASE UNCHANGED TA!taVars
  BY <1>12
  DEF TA!taVars, TaInv, TA!TypeOK, TaBounds, OwnerInv, Held, StoreInv, SpanInv, SpanOK, Carries
<1>. QED
  BY <1>1, <1>2, <1>3, <1>4, <1>5, <1>6, <1>7, <1>8, <1>9, <1>10, <1>11, <1>12 DEF TA!Next

\* The variables of the trace attributes keep their types
\* (MutableAsyncLocalStorageContextManager.ts, spanProcessor.ts).
THEOREM AttributeTypes == TA!Spec => []TA!TypeOK
<1>1. TA!Init => TaInv
  BY TaInit
<1>2. TaInv /\ [TA!Next]_TA!taVars => TaInv'
  BY TaStep
<1>3. TaInv => TA!TypeOK
  BY DEF TaInv
<1>. QED  BY <1>1, <1>2, <1>3, PTL DEF TA!Spec

\* What a log of the running request is given was set by that request.
LEMMA LogsOfTheTrace ==
  ASSUME TaInv, TA!Running, NEW own \in SUBSET Keys, NEW meta \in TA!LogMetas(own),
         NEW k \in Keys, meta[k] \in DOMAIN sets
  PROVE  sets[meta[k]].req = TA!Top.req
<1>1. meta[k] # NoValue /\ meta[k] # OwnValue
  <2>1. DOMAIN sets = 1..Len(sets) /\ Len(sets) \in Nat
    BY DEF TaInv, TA!TypeOK
  <2>. QED  BY <2>1, AttributeAssumption
<1>2. meta[k] = TA!Visible[k]
  <2>1. CASE meta = TA!WinstonMeta(own)
    BY <1>1, <2>1 DEF TA!WinstonMeta
  <2>2. CASE meta = TA!PinoMeta(own)
    BY <1>1, <2>2 DEF TA!PinoMeta, TA!OwnAttrs
  <2>3. CASE \E i \in 1..inits : meta = TA!ConsoleMeta(own, i)
    BY <1>1, <2>3 DEF TA!ConsoleMeta, TA!OwnAttrs
  <2>. QED  BY <2>1, <2>2, <2>3 DEF TA!LogMetas
<1>. QED  BY <1>1, <1>2, VisibleIs

LEMMA SpansOfTheTrace ==
  ASSUME TaInv, NEW i \in DOMAIN traced, NEW k \in Keys, traced[i].attrs[k] # OwnValue
  PROVE  LET s == traced[i]
             expected == IF TA!LastSet(k, s.start) # NoValue \/ s.open
                         THEN TA!LastSet(k, s.start) ELSE TA!LastSet(k, s.end) IN
         /\ s.attrs[k] = IF beta THEN expected ELSE NoValue
         /\ s.attrs[k] # NoValue => sets[s.attrs[k]].req = s.req
<1>. DEFINE s == traced[i]
            v == s.attrs[k]
<1>1. s.start.sets \in Nat /\ s.end.sets \in Nat /\ s.open \in BOOLEAN
  BY SpanTypes, AttributeAssumption DEF TaInv, SpanRecord, TA!Moment
<1>2. Carries(s, k)
  BY DEF TaInv, SpanInv, SpanOK
<1>. HIDE DEF s
<1>3. CASE ~beta
  BY <1>2, <1>3 DEF Carries, s
<1>4. CASE beta /\ LastIn(sets, k, s.start.store, s.start.sets, v) /\ (s.open \/ v # NoValue)
  <2>1. TA!LastSet(k, s.start) = v
    BY <1>1, <1>4, LastSetIs
  <2>. QED  BY <1>2, <1>4, <2>1 DEF Carries, s
<1>5. CASE /\ beta /\ ~s.open
           /\ LastIn(sets, k, s.start.store, s.start.sets, NoValue)
           /\ LastIn(sets, k, s.end.store, s.end.sets, v)
  <2>1. TA!LastSet(k, s.start) = NoValue /\ TA!LastSet(k, s.end) = v
    BY <1>1, <1>5, LastSetIs
  <2>. QED  BY <1>2, <1>5, <2>1 DEF Carries, s
<1>. QED  BY <1>2, <1>3, <1>4, <1>5 DEF Carries

\* Spans and logs carry the attributes of their own request, as they were when the
\* span started or else when it ended
\* (MutableAsyncLocalStorageContextManager.ts:47-57, spanProcessor.ts:39-74).
THEOREM TraceKeepsItsAttributes == TA!Spec => []AttributesOfTheTrace
<1>1. TA!Init => TaInv
  BY TaInit
<1>2. TaInv /\ [TA!Next]_TA!taVars => TaInv'
  BY TaStep
<1>3. TaInv => AttributesOfTheTrace
  <2>. SUFFICES ASSUME TaInv PROVE TA!AttributesOfTheTrace
    BY DEF AttributesOfTheTrace
  <2>. QED  BY LogsOfTheTrace, SpansOfTheTrace DEF TA!AttributesOfTheTrace
<1>. QED  BY <1>1, <1>2, <1>3, PTL DEF TA!Spec

-----------------------------------------------------------------------------
(* LocalVariables.                                                         *)

\* A capture is a record; its steps replace the frames and keep the throw.
PauseInv ==
  /\ LV!PausedIsAttendedTo
  /\ impl.where \in {"sync", "worker"}
  /\ \A c \in captures : DOMAIN c = {"throw", "todo", "done"}

LEMMA PauseInit == LV!Init => PauseInv
<1>. SUFFICES ASSUME LV!Init PROVE PauseInv
  OBVIOUS
<1>1. pausedBy = 0 /\ captures = {} /\ impl \in [where : {"sync", "worker"}, all : BOOLEAN]
  BY DEF LV!Init, LV!InitWith
<1>. QED  BY <1>1 DEF PauseInv, LV!PausedIsAttendedTo

LEMMA PauseStays ==
  ASSUME PauseInv, UNCHANGED <<impl, pausedBy, captures, broken>>
  PROVE  PauseInv'
BY DEF PauseInv, LV!PausedIsAttendedTo

LEMMA ThrowKeepsPause ==
  ASSUME PauseInv, NEW s \in Thrown, NEW caught \in BOOLEAN, LV!Throw(s, caught)
  PROVE  PauseInv'
<1>. DEFINE n == Len(throws) + 1
            c == [throw |-> n, todo |-> IF s.hash = NoHash THEN {} ELSE LV!Visited(s),
                  done |-> {}]
<1>1. impl' = impl /\ broken' = broken
  BY DEF LV!Throw, LV!setupVars
<1>2. \/ pausedBy' = n /\ captures' = captures \cup {c}
      \/ UNCHANGED <<pausedBy, captures>>
  BY DEF LV!Throw
<1>3. CASE pausedBy' = n /\ captures' = captures \cup {c}
  <2>1. DOMAIN c = {"throw", "todo", "done"} /\ c.throw = n
    OBVIOUS
  <2>. HIDE DEF c, n
  <2>. QED  BY <1>1, <1>3, <2>1 DEF PauseInv, LV!PausedIsAttendedTo
<1>. QED  BY <1>1, <1>2, <1>3, PauseStays

LEMMA CaptureKeepsPause ==
  ASSUME PauseInv, NEW c \in captures,
         LV!CaptureFrame(c) \/ LV!RequestFails(c) \/ LV!Complete(c)
  PROVE  PauseInv'
<1>1. DOMAIN c = {"throw", "todo", "done"}
  BY DEF PauseInv
<1>2. impl' = impl
  BY DEF LV!CaptureFrame, LV!RequestFails, LV!Complete, LV!setupVars
<1>3. ASSUME NEW d, d.throw = c.throw, DOMAIN d = {"throw", "todo", "done"},
             captures' = (captures \ {c}) \cup {d}, UNCHANGED <<pausedBy, broken>>
      PROVE  PauseInv'
  BY <1>2, <1>3 DEF PauseInv, LV!PausedIsAttendedTo
<1>4. CASE LV!CaptureFrame(c)
  <2>1. PICK i \in c.todo : /\ captures' = (captures \ {c}) \cup
                                  {[c EXCEPT !.todo = @ \ {i}, !.done = @ \cup {i}]}
                           /\ broken' = broken
    BY <1>4 DEF LV!CaptureFrame
  <2>3. UNCHANGED <<pausedBy, broken>>
    BY <1>4 DEF LV!CaptureFrame
  <2>. DEFINE d == [c EXCEPT !.todo = @ \ {i}, !.done = @ \cup {i}]
  <2>2. d.throw = c.throw /\ DOMAIN d = {"throw", "todo", "done"}
    BY <1>1
  <2>4. captures' = (captures \ {c}) \cup {d}
    BY <2>1
  <2>. HIDE DEF d
  <2>. QED  BY <1>3, <2>2, <2>3, <2>4
<1>5. CASE LV!RequestFails(c)
  <2>1. pausedBy' = pausedBy
    BY <1>5 DEF LV!RequestFails
  <2>2. CASE impl.where = "sync"
    <3>. DEFINE d == [c EXCEPT !.todo = {}]
    <3>1. captures' = (captures \ {c}) \cup {d} /\ broken' = broken
      BY <1>5, <2>2 DEF LV!RequestFails, LV!Fail
    <3>2. d.throw = c.throw /\ DOMAIN d = {"throw", "todo", "done"}
      BY <1>1
    <3>. HIDE DEF d
    <3>. QED  BY <1>3, <2>1, <3>1, <3>2
  <2>3. CASE impl.where = "worker"
    <3>1. captures' = captures \ {c} /\ broken' = broken \cup {c.throw}
      BY <1>5, <2>3 DEF LV!RequestFails, LV!Fail
    <3>. QED  BY <1>2, <2>1, <2>3, <3>1 DEF PauseInv, LV!PausedIsAttendedTo
  <2>. QED  BY <2>2, <2>3 DEF PauseInv
<1>6. CASE LV!Complete(c)
  <2>1. pausedBy' = 0 /\ captures' = captures \ {c}
    BY <1>6 DEF LV!Complete
  <2>. QED  BY <1>2, <2>1 DEF PauseInv, LV!PausedIsAttendedTo
<1>. QED  BY <1>4, <1>5, <1>6

LEMMA PauseStep == PauseInv /\ [LV!Next]_LV!lvVars => PauseInv'
<1>. SUFFICES ASSUME PauseInv, [LV!Next]_LV!lvVars PROVE PauseInv'
  OBVIOUS
<1>1. CASE LV!Connect \/ LV!Answered \/ LV!FailToStart \/ LV!Message \/ LV!Second
           \/ \E n \in LV!Throws : LV!ProcessEvent(n)
  <2>1. UNCHANGED <<impl, pausedBy, captures, broken>>
    BY <1>1 DEF LV!Connect, LV!Answered, LV!FailToStart, LV!Message, LV!Second,
                LV!ProcessEvent, LV!setupVars, LV!debugVars
  <2>. QED  BY <2>1, PauseStays
<1>2. CASE \E s \in Thrown, caught \in BOOLEAN : LV!Throw(s, caught)
  BY <1>2, ThrowKeepsPause
<1>3. CASE \E c \in captures : LV!CaptureFrame(c) \/ LV!RequestFails(c) \/ LV!Complete(c)
  BY <1>3, CaptureKeepsPause
<1>4. CASE LV!ResumeByOther
  <2>1. pausedBy' = 0 /\ UNCHANGED <<impl, captures, broken>>
    BY <1>4 DEF LV!ResumeByOther, LV!setupVars
  <2>. QED  BY <2>1 DEF PauseInv, LV!PausedIsAttendedTo
<1>5. CASE UNCHANGED LV!lvVars
  BY <1>5, PauseStays DEF LV!lvVars
<1>. QED  BY <1>1, <1>2, <1>3, <1>4, <1>5 DEF LV!Next

\* A program that is paused at a throw has a capture under way that resumes it, unless a
\* request of the worker was rejected
\* (local-variables-sync.ts:75-84, worker.ts:179-191).
THEOREM PausesEnd == LV!Spec => []LV!PausedIsAttendedTo
<1>1. LV!Init => PauseInv
  BY PauseInit
<1>2. PauseInv /\ [LV!Next]_LV!lvVars => PauseInv'
  BY PauseStep
<1>3. PauseInv => LV!PausedIsAttendedTo
  BY DEF PauseInv
<1>. QED  BY <1>1, <1>2, <1>3, PTL DEF LV!Spec

-----------------------------------------------------------------------------
(* The variables in the events.                                            *)

IsSequence(q) == \E S : q \in Seq(S)

\* The throws in a sequence of messages or of cached frames, and those whose
\* variables stand in an event.
Waiting(q) == {q[i].throw : i \in DOMAIN q}
Stands(w, s) == \E m \in LV!Throws : \E v \in s[m] : v[2] = w

\* No two entries of q are of the same throw; or even of the same place.
Single(q) == \A i, j \in DOMAIN q : q[i].throw = q[j].throw => i = j
Unlike(q) == \A i, j \in DOMAIN q : LV!Hash(q[i].throw) = LV!Hash(q[j].throw) => i = j

VarTypes ==
  /\ impl.where \in {"sync", "worker"}
  /\ throws \in Seq(Thrown) /\ Len(throws) <= MaxThrows
  /\ IsSequence(inbox) /\ IsSequence(cachedFrames)
  /\ \A c \in captures : DOMAIN c = {"throw", "todo", "done"}
  /\ DOMAIN shown = LV!Throws

\* Everything is about throws that have happened, and an event has its variables after
\* it was processed.
Happened ==
  /\ {c.throw : c \in captures} \subseteq 1..Len(throws)
  /\ Waiting(inbox) \cup Waiting(cachedFrames) \subseteq 1..Len(throws)
  /\ reported \cup captured \subseteq 1..Len(throws)
  /\ \A n \in LV!Throws : n \notin reported => shown[n] = {}
  /\ \A n \in LV!Throws : \A v \in shown[n] : v[2] \in 1..Len(throws)

\* The variables of a throw are in one place.
OnePlace ==
  /\ \A c, d \in captures : c.throw = d.throw => c = d
  /\ Single(inbox) /\ Unlike(cachedFrames)
  /\ \A c \in captures : c.throw \notin Waiting(inbox) \cup Waiting(cachedFrames)
  /\ Waiting(inbox) \cap Waiting(cachedFrames) = {}
  /\ \A c \in captures : ~Stands(c.throw, shown)
  /\ \A w \in Waiting(inbox) \cup Waiting(cachedFrames) : ~Stands(w, shown)

\* In the paused thread a capture is of the last throw, whose event is still to come,
\* and the cache has the last capture of each place.
InTheThread ==
  impl.where = "sync" =>
    /\ inbox = <<>>
    /\ \A c \in captures : c.throw = Len(throws) /\ pausedBy # 0 /\ c.throw \notin reported
    /\ \A n \in captured : \A k \in DOMAIN cachedFrames :
         LV!Hash(cachedFrames[k].throw) = LV!Hash(n) => cachedFrames[k].throw >= n

VarInv == VarTypes /\ Happened /\ OnePlace /\ InTheThread /\ LV!VariablesBelong

LEMMA SequenceOf ==
  ASSUME NEW S, NEW q \in Seq(S)
  PROVE  IsSequence(q)
BY DEF IsSequence

LEMMA VarInit == LV!Init => VarInv
<1>. SUFFICES ASSUME LV!Init PROVE VarInv
  OBVIOUS
<1>1. /\ impl \in [where : {"sync", "worker"}, all : BOOLEAN]
      /\ throws = <<>> /\ captures = {} /\ inbox = <<>> /\ cachedFrames = <<>>
      /\ shown = [n \in LV!Throws |-> {}] /\ reported = {} /\ captured = {}
  BY DEF LV!Init, LV!InitWith
<1>2. <<>> \in Seq({}) /\ <<>> \in Seq(Thrown) /\ Len(<<>>) = 0 /\ DOMAIN <<>> = {}
  OBVIOUS
<1>3. VarTypes
  <2>1. IsSequence(<<>>)
    BY <1>2, SequenceOf
  <2>2. MaxThrows \in Nat
    BY ThrownAssumption
  <2>. QED  BY <1>1, <1>2, <2>1, <2>2 DEF VarTypes
<1>4. Waiting(inbox) = {} /\ Waiting(cachedFrames) = {}
  BY <1>1, <1>2 DEF Waiting
<1>5. Happened
  BY <1>1, <1>4 DEF Happened
<1>6. OnePlace /\ InTheThread
  BY <1>1, <1>2, <1>4 DEF OnePlace, InTheThread, Single, Unlike
<1>7. LV!VariablesBelong
  BY <1>1 DEF LV!VariablesBelong
<1>. QED  BY <1>3, <1>5, <1>6, <1>7 DEF VarInv

LEMMA VarStays ==
  ASSUME VarInv, UNCHANGED <<impl, throws, captures, inbox, cachedFrames, shown, reported,
                             captured, pausedBy>>
  PROVE  VarInv'
<1>1. \A w : Stands(w, shown)' = Stands(w, shown)
  BY DEF Stands
<1>2. VarTypes'
  BY DEF VarInv, VarTypes, IsSequence
<1>3. Happened'
  BY DEF VarInv, Happened, Waiting
<1>4. OnePlace'
  BY <1>1 DEF VarInv, OnePlace, Waiting, Single, Unlike, LV!Hash
<1>5. InTheThread'
  BY DEF VarInv, InTheThread, LV!Hash
<1>6. LV!VariablesBelong'
  BY DEF VarInv, LV!VariablesBelong, LV!Hash
<1>. QED  BY <1>2, <1>3, <1>4, <1>5, <1>6 DEF VarInv

LEMMA ThrowKeepsVars ==
  ASSUME VarInv, NEW s \in Thrown, NEW caught \in BOOLEAN, LV!Throw(s, caught)
  PROVE  VarInv'
<1>. DEFINE n == Len(throws) + 1
            c == [throw |-> n, todo |-> IF s.hash = NoHash THEN {} ELSE LV!Visited(s),
                  done |-> {}]
<1>1. /\ pausedBy = 0 /\ n <= MaxThrows /\ throws' = Append(throws, s)
      /\ UNCHANGED <<impl, inbox, cachedFrames, shown, reported, captured>>
  BY DEF LV!Throw, LV!setupVars, LV!cacheVars, LV!eventVars
<1>2. \/ pausedBy' = n /\ captures' = captures \cup {c}
      \/ UNCHANGED <<pausedBy, captures>>
  BY DEF LV!Throw
<1>3. DOMAIN c = {"throw", "todo", "done"} /\ c.throw = n
  OBVIOUS
<1>. HIDE DEF c
<1>4. /\ throws' \in Seq(Thrown) /\ Len(throws') = n /\ Len(throws) \in Nat
      /\ \A i \in 1..Len(throws) : throws'[i] = throws[i]
  BY <1>1, AppendFacts DEF VarInv, VarTypes
<1>5. \A i \in 1..Len(throws) : LV!Hash(i)' = LV!Hash(i)
  BY <1>4 DEF LV!Hash
<1>6. \A i \in 1..Len(throws) : i < n /\ i \in 1..n
  BY <1>4
<1>7. \A d \in captures' : d \in captures \/ d = c
  BY <1>2
<1>8. VarTypes'
  BY <1>1, <1>3, <1>4, <1>7 DEF VarInv, VarTypes, IsSequence
<1>9. n \in 1..n
  BY <1>4
<1>10. Happened'
  BY <1>1, <1>3, <1>4, <1>6, <1>7, <1>9 DEF VarInv, Happened, Waiting
<1>11. \A d \in captures : d.throw # n
  BY <1>4, <1>6 DEF VarInv, Happened
<1>12. n \notin Waiting(inbox) \cup Waiting(cachedFrames)
  BY <1>4, <1>6 DEF VarInv, Happened
<1>13. \A m \in LV!Throws : \A v \in shown[m] : v[2] \in 1..Len(throws)
  BY DEF VarInv, Happened
<1>14. ~Stands(n, shown) /\ \A w : Stands(w, shown)' = Stands(w, shown)
  BY <1>1, <1>4, <1>13 DEF Stands
<1>15. OnePlace'
  <2>1. (\A d, e \in captures : d.throw = e.throw => d = e)'
    BY <1>3, <1>7, <1>11 DEF VarInv, OnePlace
  <2>2. Single(inbox)' /\ Unlike(cachedFrames)'
    <3>1. \A k \in DOMAIN cachedFrames : cachedFrames[k].throw \in 1..Len(throws)
      BY DEF VarInv, Happened, Waiting
    <3>. QED  BY <1>1, <1>5, <3>1 DEF VarInv, OnePlace, Single, Unlike
  <2>3. (\A d \in captures : d.throw \notin Waiting(inbox) \cup Waiting(cachedFrames))'
    BY <1>1, <1>3, <1>7, <1>12 DEF VarInv, OnePlace, Waiting
  <2>4. (Waiting(inbox) \cap Waiting(cachedFrames) = {})'
    BY <1>1 DEF VarInv, OnePlace, Waiting
  <2>5. (\A d \in captures : ~Stands(d.throw, shown))'
    BY <1>3, <1>7, <1>14 DEF VarInv, OnePlace, Stands
  <2>6. (\A w \in Waiting(inbox) \cup Waiting(cachedFrames) : ~Stands(w, shown))'
    <3>1. Waiting(inbox)' = Waiting(inbox) /\ Waiting(cachedFrames)' = Waiting(cachedFrames)
      BY <1>1 DEF Waiting
    <3>. QED  BY <1>14, <3>1 DEF VarInv, OnePlace
  <2>. QED  BY <2>1, <2>2, <2>3, <2>4, <2>5, <2>6 DEF OnePlace
<1>16. InTheThread'
  <2>. SUFFICES ASSUME impl.where = "sync" PROVE InTheThread'
    BY <1>1 DEF InTheThread
  <2>1. captures = {}
    BY <1>1 DEF VarInv, InTheThread
  <2>2. n # 0 /\ n \notin reported
    BY <1>4 DEF VarInv, Happened
  <2>3. \A d \in captures' : d.throw = n /\ pausedBy' = n
    BY <1>2, <1>3, <2>1
  <2>4. \A m \in captured : \A k \in DOMAIN cachedFrames :
          m \in 1..Len(throws) /\ cachedFrames[k].throw \in 1..Len(throws)
    BY DEF VarInv, Happened, Waiting
  <2>. QED  BY <1>1, <1>4, <1>5, <2>2, <2>3, <2>4 DEF VarInv, InTheThread
<1>17. LV!VariablesBelong'
  <2>1. \A m \in LV!Throws : shown[m] # {} => m \in 1..Len(throws)
    BY DEF VarInv, Happened
  <2>. QED  BY <1>1, <1>5, <1>13, <2>1 DEF VarInv, LV!VariablesBelong
<1>. QED  BY <1>8, <1>10, <1>15, <1>16, <1>17 DEF VarInv

\* The captures go on with the throws they have, or fewer.
LEMMA CapturesGoOn ==
  ASSUME VarInv,
         UNCHANGED <<impl, throws, inbox, cachedFrames, shown, reported, captured>>,
         impl.where = "sync" => pausedBy' = pausedBy \/ captures' = {},
         \A d \in captures' : /\ DOMAIN d = {"throw", "todo", "done"}
                              /\ \E c \in captures : c.throw = d.throw,
         \A d, e \in captures' : d.throw = e.throw => d = e
  PROVE  VarInv'
<1>1. /\ \A w : Stands(w, shown)' = Stands(w, shown)
      /\ Waiting(inbox)' = Waiting(inbox) /\ Waiting(cachedFrames)' = Waiting(cachedFrames)
  BY DEF Stands, Waiting
<1>2. VarTypes'
  BY DEF VarInv, VarTypes, IsSequence
<1>3. Happened'
  <2>1. \A d \in captures' : d.throw \in 1..Len(throws)
    BY DEF VarInv, Happened
  <2>. QED  BY <1>1, <2>1 DEF VarInv, Happened
<1>4. OnePlace'
  <2>1. Single(inbox)' /\ Unlike(cachedFrames)'
    BY DEF VarInv, OnePlace, Single, Unlike, LV!Hash
  <2>2. (\A d \in captures : d.throw \notin Waiting(inbox) \cup Waiting(cachedFrames))'
    BY <1>1 DEF VarInv, OnePlace
  <2>3. (\A d \in captures : ~Stands(d.throw, shown))'
    BY <1>1 DEF VarInv, OnePlace
  <2>. QED  BY <1>1, <2>1, <2>2, <2>3 DEF VarInv, OnePlace
<1>5. InTheThread'
  BY DEF VarInv, InTheThread, LV!Hash
<1>6. LV!VariablesBelong'
  BY DEF VarInv, LV!VariablesBelong, LV!Hash
<1>. QED  BY <1>2, <1>3, <1>4, <1>5, <1>6 DEF VarInv

LEMMA CaptureKeepsVars ==
  ASSUME VarInv, NEW c \in captures, LV!CaptureFrame(c) \/ LV!RequestFails(c)
  PROVE  VarInv'
<1>1. DOMAIN c = {"throw", "todo", "done"}
  BY DEF VarInv, VarTypes
<1>2. UNCHANGED <<impl, throws, pausedBy, inbox, cachedFrames, shown, reported, captured>>
  BY DEF LV!CaptureFrame, LV!RequestFails, LV!setupVars, LV!cacheVars, LV!eventVars
<1>3. \A d \in captures : DOMAIN d = {"throw", "todo", "done"}
  BY DEF VarInv, VarTypes
<1>4. \A d, e \in captures : d.throw = e.throw => d = e
  BY DEF VarInv, OnePlace
<1>5. ASSUME NEW d, d.throw = c.throw, DOMAIN d = {"throw", "todo", "done"},
             captures' = (captures \ {c}) \cup {d}
      PROVE  VarInv'
  BY <1>2, <1>3, <1>4, <1>5, CapturesGoOn
<1>6. ASSUME captures' = captures \ {c} PROVE VarInv'
  BY <1>2, <1>3, <1>4, <1>6, CapturesGoOn
<1>7. CASE LV!CaptureFrame(c)
  <2>1. PICK i \in c.todo : /\ captures' = (captures \ {c}) \cup
                                  {[c EXCEPT !.todo = @ \ {i}, !.done = @ \cup {i}]}
                           /\ broken' = broken
    BY <1>7 DEF LV!CaptureFrame
  <2>. DEFINE d == [c EXCEPT !.todo = @ \ {i}, !.done = @ \cup {i}]
  <2>2. d.throw = c.throw /\ DOMAIN d = {"throw", "todo", "done"}
    BY <1>1
  <2>3. captures' = (captures \ {c}) \cup {d}
    BY <2>1
  <2>. HIDE DEF d
  <2>. QED  BY <1>5, <2>2, <2>3
<1>8. CASE LV!RequestFails(c)
  <2>. DEFINE d == [c EXCEPT !.todo = {}]
  <2>1. captures' = (captures \ {c}) \cup {d} \/ captures' = captures \ {c}
    BY <1>8 DEF LV!RequestFails, LV!Fail
  <2>2. d.throw = c.throw /\ DOMAIN d = {"throw", "todo", "done"}
    BY <1>1
  <2>. HIDE DEF d
  <2>. QED  BY <1>5, <1>6, <2>1, <2>2
<1>. QED  BY <1>7, <1>8

\* Setting a throw in the cache leaves others as they are or drops them, those of the
\* same place in any case.
LEMMA CacheSetFacts ==
  ASSUME IsSequence(cachedFrames), Unlike(cachedFrames), NEW n, NEW list,
         NEW q, q = LV!CacheSet(n, list)
  PROVE  /\ IsSequence(q) /\ Unlike(q)
         /\ \A k \in DOMAIN q :
              \/ q[k].throw = n
              \/ /\ LV!Hash(q[k].throw) # LV!Hash(n)
                 /\ \E j \in DOMAIN cachedFrames : q[k] = cachedFrames[j]
<1>. DEFINE kept == IF Len(cachedFrames) >= CacheSize THEN Tail(cachedFrames)
                    ELSE cachedFrames
            at == {k \in DOMAIN kept : LV!Hash(kept[k].throw) = LV!Hash(n)}
            entry == [throw |-> n, done |-> list]
<1>1. PICK S : cachedFrames \in Seq(S)
  BY DEF IsSequence
<1>2. CacheSize \in Nat \ {0}
  BY ThrownAssumption
<1>3. /\ kept \in Seq(S)
      /\ \A k \in DOMAIN kept : \E j \in DOMAIN cachedFrames : kept[k] = cachedFrames[j]
      /\ Unlike(kept)
  <2>1. CASE Len(cachedFrames) >= CacheSize
    <3>1. cachedFrames # <<>> /\ Len(cachedFrames) \in Nat
      BY <1>1, <1>2, <2>1
    <3>2. /\ Tail(cachedFrames) \in Seq(S)
          /\ Len(Tail(cachedFrames)) = Len(cachedFrames) - 1
          /\ \A i \in 1..Len(cachedFrames) - 1 : Tail(cachedFrames)[i] = cachedFrames[i + 1]
      BY <1>1, <3>1, TailFacts
    <3>3. kept = Tail(cachedFrames)
      BY <2>1
    <3>. HIDE DEF kept
    <3>4. \A k \in DOMAIN kept :
            /\ k + 1 \in DOMAIN cachedFrames /\ kept[k] = cachedFrames[k + 1] /\ k \in Nat
      BY <1>1, <3>1, <3>2, <3>3
    <3>. QED  BY <3>2, <3>3, <3>4 DEF Unlike
  <2>2. CASE ~(Len(cachedFrames) >= CacheSize)
    BY <1>1, <2>2
  <2>. QED  BY <2>1, <2>2
<1>4. q = IF at = {} THEN Append(kept, entry)
          ELSE [k \in DOMAIN kept |-> IF k \in at THEN entry ELSE kept[k]]
  BY DEF LV!CacheSet
<1>5. \A k : k \in at <=> k \in DOMAIN kept /\ LV!Hash(kept[k].throw) = LV!Hash(n)
  OBVIOUS
<1>6. entry.throw = n
  OBVIOUS
<1>. HIDE DEF kept, at, entry
<1>7. CASE at = {}
  <2>. DEFINE T == S \cup {entry}
  <2>1. kept \in Seq(T) /\ entry \in T
    BY <1>3
  <2>. HIDE DEF T
  <2>2. /\ Append(kept, entry) \in Seq(T)
        /\ Len(Append(kept, entry)) = Len(kept) + 1
        /\ \A i \in 1..Len(kept) + 1 :
             Append(kept, entry)[i] = IF i <= Len(kept) THEN kept[i] ELSE entry
    BY <2>1, AppendFacts
  <2>3. q = Append(kept, entry)
    BY <1>4, <1>7
  <2>4. DOMAIN q = 1..Len(kept) + 1 /\ DOMAIN kept = 1..Len(kept) /\ Len(kept) \in Nat
    BY <2>1, <2>2, <2>3
  <2>5. \A k \in DOMAIN q : \/ k \in DOMAIN kept /\ q[k] = kept[k]
                            \/ k = Len(kept) + 1 /\ q[k] = entry
    BY <2>2, <2>3, <2>4
  <2>6. \A k \in DOMAIN kept : LV!Hash(kept[k].throw) # LV!Hash(n)
    BY <1>5, <1>7
  <2>7. Unlike(q)
    BY <1>3, <1>6, <2>5, <2>6 DEF Unlike
  <2>8. IsSequence(q)
    BY <2>2, <2>3 DEF IsSequence
  <2>. QED  BY <1>3, <1>6, <2>5, <2>6, <2>7, <2>8
<1>8. CASE at # {}
  <2>1. q = [k \in DOMAIN kept |-> IF k \in at THEN entry ELSE kept[k]]
    BY <1>4, <1>8
  <2>2. DOMAIN q = DOMAIN kept
    BY <2>1
  <2>3. \A k \in DOMAIN q : \/ k \in at /\ q[k] = entry
                            \/ k \notin at /\ q[k] = kept[k]
    BY <2>1
  <2>4. \A j, k \in at : j = k
    BY <1>3, <1>5 DEF Unlike
  <2>5. Unlike(q)
    BY <1>3, <1>5, <1>6, <2>2, <2>3, <2>4 DEF Unlike
  <2>6. q \in Seq(S \cup {entry})
    <3>1. DOMAIN kept = 1..Len(kept) /\ Len(kept) \in Nat /\ \A k \in DOMAIN kept : kept[k] \in S
      BY <1>3
    <3>2. q \in [1..Len(kept) -> S \cup {entry}]
      BY <2>1, <3>1
    <3>. QED  BY <3>1, <3>2, SeqDef
  <2>7. IsSequence(q)
    BY <2>6 DEF IsSequence
  <2>8. \A k \in DOMAIN q : k \notin at => LV!Hash(q[k].throw) # LV!Hash(n)
    BY <1>5, <2>2, <2>3
  <2>. QED  BY <1>3, <1>6, <2>2, <2>3, <2>5, <2>7, <2>8
<1>. QED  BY <1>7, <1>8

LEMMA PutInCache ==
  ASSUME VarInv, NEW n, NEW list, throws' = throws, cachedFrames' = LV!CacheSet(n, list)
  PROVE  /\ IsSequence(cachedFrames)' /\ Unlike(cachedFrames)'
         /\ Waiting(cachedFrames)' \subseteq Waiting(cachedFrames) \cup {n}
         /\ \A k \in DOMAIN cachedFrames' :
              \/ cachedFrames'[k].throw = n
              \/ /\ LV!Hash(cachedFrames'[k].throw) # LV!Hash(n)
                 /\ \E j \in DOMAIN cachedFrames : cachedFrames'[k] = cachedFrames[j]
<1>. DEFINE q == LV!CacheSet(n, list)
<1>1. IsSequence(cachedFrames) /\ Unlike(cachedFrames)
  BY DEF VarInv, VarTypes, OnePlace
<1>2. q = LV!CacheSet(n, list)
  OBVIOUS
<1>. HIDE DEF q
<1>3. /\ IsSequence(q) /\ Unlike(q)
      /\ \A k \in DOMAIN q :
           \/ q[k].throw = n
           \/ /\ LV!Hash(q[k].throw) # LV!Hash(n)
              /\ \E j \in DOMAIN cachedFrames : q[k] = cachedFrames[j]
  BY <1>1, <1>2, CacheSetFacts
<1>4. cachedFrames' = q
  BY DEF q
<1>5. IsSequence(cachedFrames)' /\ Unlike(cachedFrames)'
  BY <1>3, <1>4 DEF IsSequence, Unlike, LV!Hash
<1>6. Waiting(cachedFrames)' \subseteq Waiting(cachedFrames) \cup {n}
  BY <1>3, <1>4 DEF Waiting
<1>. QED  BY <1>3, <1>4, <1>5, <1>6

\* What goes to the cache or to the parent port leaves where it was.
LEMMA CompleteKeepsVars ==
  ASSUME VarInv, NEW c \in captures, LV!Complete(c)
  PROVE  VarInv'
<1>. DEFINE n == c.throw
<1>1. /\ captures' = captures \ {c} /\ pausedBy' = 0
      /\ UNCHANGED <<impl, throws, shown, reported>>
  BY DEF LV!Complete, LV!setupVars, LV!eventVars
<1>2. /\ \A d \in captures' : d \in captures /\ DOMAIN d = {"throw", "todo", "done"}
      /\ \A d, e \in captures' : d.throw = e.throw => d = e
  BY <1>1 DEF VarInv, VarTypes, OnePlace
<1>3. impl.where = "sync" => captures' = {} /\ n = Len(throws) /\ n \notin reported
  BY <1>1 DEF VarInv, OnePlace, InTheThread
<1>4. n \in 1..Len(throws) /\ \A d \in captures' : d.throw # n
  BY <1>1 DEF VarInv, Happened, OnePlace
<1>5. /\ n \notin Waiting(inbox) /\ n \notin Waiting(cachedFrames) /\ ~Stands(n, shown)
      /\ \A w : Stands(w, shown)' = Stands(w, shown)
  BY <1>1 DEF VarInv, OnePlace, Stands
<1>6. \A m : LV!Hash(m)' = LV!Hash(m)
  BY <1>1 DEF LV!Hash
<1>7. CASE UNCHANGED <<inbox, cachedFrames, captured>>
  BY <1>1, <1>2, <1>3, <1>7, CapturesGoOn
<1>8. CASE /\ impl.where = "sync"
           /\ cachedFrames' = LV!CacheSet(n, c.done)
           /\ captured' = captured \cup {n} /\ inbox' = inbox
  <2>1. /\ IsSequence(cachedFrames)' /\ Unlike(cachedFrames)'
        /\ Waiting(cachedFrames)' \subseteq Waiting(cachedFrames) \cup {n}
        /\ \A k \in DOMAIN cachedFrames' :
             \/ cachedFrames'[k].throw = n
             \/ /\ LV!Hash(cachedFrames'[k].throw) # LV!Hash(n)
                /\ \E j \in DOMAIN cachedFrames : cachedFrames'[k] = cachedFrames[j]
    BY <1>1, <1>8, PutInCache
  <2>2. inbox = <<>> /\ DOMAIN inbox = {} /\ captures' = {}
    BY <1>3, <1>8 DEF VarInv, InTheThread
  <2>3. VarTypes'
    BY <1>1, <1>2, <1>8, <2>1 DEF VarInv, VarTypes, IsSequence
  <2>4. Waiting(inbox) = {} /\ Waiting(inbox)' = {}
    BY <1>8, <2>2 DEF Waiting
  <2>5. Happened'
    BY <1>1, <1>4, <1>8, <2>1, <2>2, <2>4 DEF VarInv, Happened
  <2>6. OnePlace'
    <3>1. Single(inbox)'
      BY <1>8, <2>2 DEF Single
    <3>2. (\A w \in Waiting(cachedFrames) : ~Stands(w, shown))'
      BY <1>5, <2>1 DEF VarInv, OnePlace
    <3>3. Waiting(cachedFrames)' \cup Waiting(inbox)' = Waiting(cachedFrames)'
      BY <2>4
    <3>4. (\A w \in Waiting(inbox) \cup Waiting(cachedFrames) : ~Stands(w, shown))'
      BY <2>4, <3>2
    <3>. QED  BY <2>1, <2>2, <2>4, <3>1, <3>4 DEF OnePlace
  <2>7. InTheThread'
    <3>1. ASSUME NEW m \in captured', NEW k \in DOMAIN cachedFrames',
                 LV!Hash(cachedFrames'[k].throw) = LV!Hash(m)
          PROVE  cachedFrames'[k].throw >= m
      <4>1. m \in 1..Len(throws) /\ Len(throws) \in Nat
        BY <1>4, <1>8 DEF VarInv, Happened, VarTypes
      <4>2. CASE cachedFrames'[k].throw = n
        BY <1>3, <1>8, <4>1, <4>2
      <4>3. CASE cachedFrames'[k].throw # n
        BY <1>8, <2>1, <3>1, <4>3 DEF VarInv, InTheThread
      <4>. QED  BY <4>2, <4>3
    <3>. QED  BY <1>1, <1>6, <1>8, <2>2, <3>1 DEF InTheThread
  <2>8. LV!VariablesBelong'
    <3>1. shown[n] = {}
      <4>1. n \in LV!Throws
        <5>1. MaxThrows \in Nat
          BY ThrownAssumption
        <5>2. Len(throws) \in Nat /\ Len(throws) <= MaxThrows
          BY DEF VarInv, VarTypes
        <5>. QED  BY <1>4, <5>1, <5>2 DEF LV!Throws
      <4>. QED  BY <1>3, <1>8, <4>1 DEF VarInv, Happened
    <3>. QED  BY <1>1, <1>6, <1>8, <3>1 DEF VarInv, LV!VariablesBelong
  <2>. QED  BY <2>3, <2>5, <2>6, <2>7, <2>8 DEF VarInv
<1>9. CASE /\ impl.where # "sync"
           /\ inbox' = Append(inbox, [throw |-> n, done |-> c.done])
           /\ UNCHANGED <<cachedFrames, captured>>
  <2>. DEFINE e == [throw |-> n, done |-> c.done]
  <2>1. PICK S : inbox \in Seq(S)
    BY DEF VarInv, VarTypes, IsSequence
  <2>2. e.throw = n /\ inbox' = Append(inbox, e)
    BY <1>9
  <2>. HIDE DEF e
  <2>3. inbox \in Seq(S \cup {e}) /\ e \in S \cup {e}
    BY <2>1
  <2>4. /\ inbox' \in Seq(S \cup {e}) /\ Len(inbox') = Len(inbox) + 1
        /\ \A i \in 1..Len(inbox) + 1 : inbox'[i] = IF i <= Len(inbox) THEN inbox[i] ELSE e
    BY <2>2, <2>3, AppendFacts
  <2>5. /\ DOMAIN inbox' = 1..Len(inbox) + 1
        /\ DOMAIN inbox = 1..Len(inbox) /\ Len(inbox) \in Nat
    BY <2>1, <2>4
  <2>6. \A i \in DOMAIN inbox' : \/ i \in DOMAIN inbox /\ inbox'[i] = inbox[i]
                                 \/ i = Len(inbox) + 1 /\ inbox'[i].throw = n
    BY <2>2, <2>4, <2>5
  <2>7. Waiting(inbox)' \subseteq Waiting(inbox) \cup {n}
    BY <2>6 DEF Waiting
  <2>8. Waiting(cachedFrames)' = Waiting(cachedFrames)
    BY <1>9 DEF Waiting
  <2>9. IsSequence(inbox)'
    BY <2>4 DEF IsSequence
  <2>10. VarTypes'
    BY <1>1, <1>2, <1>9, <2>9 DEF VarInv, VarTypes, IsSequence
  <2>11. Happened'
    <3>1. \A d \in captures' : d.throw \in 1..Len(throws)
      BY <1>2 DEF VarInv, Happened
    <3>. QED  BY <1>1, <1>4, <1>9, <2>7, <2>8, <3>1 DEF VarInv, Happened
  <2>12. OnePlace'
    <3>1. Single(inbox)'
      <4>1. \A i \in DOMAIN inbox : inbox[i].throw # n
        BY <1>5 DEF Waiting
      <4>. QED  BY <2>6, <4>1 DEF VarInv, OnePlace, Single
    <3>2. Unlike(cachedFrames)'
      BY <1>1, <1>9 DEF VarInv, OnePlace, Unlike, LV!Hash
    <3>3. (\A d \in captures : d.throw \notin Waiting(inbox) \cup Waiting(cachedFrames))'
      BY <1>2, <1>4, <2>7, <2>8 DEF VarInv, OnePlace
    <3>4. (Waiting(inbox) \cap Waiting(cachedFrames) = {})'
      BY <1>5, <2>7, <2>8 DEF VarInv, OnePlace
    <3>5. (\A d \in captures : ~Stands(d.throw, shown))'
      BY <1>2, <1>5 DEF VarInv, OnePlace
    <3>6. (\A w \in Waiting(inbox) \cup Waiting(cachedFrames) : ~Stands(w, shown))'
      BY <1>5, <2>7, <2>8 DEF VarInv, OnePlace
    <3>7. (\A d, f \in captures : d.throw = f.throw => d = f)'
      BY <1>2
    <3>. QED  BY <3>1, <3>2, <3>3, <3>4, <3>5, <3>6, <3>7 DEF OnePlace
  <2>13. InTheThread'
    BY <1>1, <1>9 DEF InTheThread
  <2>14. LV!VariablesBelong'
    BY <1>1, <1>6, <1>9 DEF VarInv, LV!VariablesBelong
  <2>. QED  BY <2>10, <2>11, <2>12, <2>13, <2>14 DEF VarInv
<1>. QED  BY <1>7, <1>8, <1>9 DEF LV!Complete, LV!cacheVars

LEMMA MessageKeepsVars ==
  ASSUME VarInv, LV!Message
  PROVE  VarInv'
<1>. DEFINE n == Head(inbox).throw
<1>1. /\ inbox # <<>> /\ inbox' = Tail(inbox)
      /\ cachedFrames' = LV!CacheSet(n, Head(inbox).done)
      /\ captured' = captured \cup {n}
      /\ UNCHANGED <<impl, throws, captures, shown, reported>>
  BY DEF LV!Message, LV!setupVars, LV!debugVars, LV!eventVars
<1>2. PICK S : inbox \in Seq(S)
  BY DEF VarInv, VarTypes, IsSequence
<1>3. /\ Tail(inbox) \in Seq(S) /\ Len(Tail(inbox)) = Len(inbox) - 1
      /\ \A i \in 1..Len(inbox) - 1 : Tail(inbox)[i] = inbox[i + 1]
      /\ Head(inbox) = inbox[1]
  BY <1>1, <1>2, TailFacts
<1>4. DOMAIN inbox = 1..Len(inbox) /\ Len(inbox) \in Nat \ {0}
  BY <1>1, <1>2
<1>5. 1 \in DOMAIN inbox /\ n = inbox[1].throw
  BY <1>3, <1>4
<1>6. \A i \in DOMAIN inbox' :
        /\ i \in Nat /\ i + 1 \in DOMAIN inbox /\ i + 1 # 1 /\ inbox'[i] = inbox[i + 1]
  BY <1>1, <1>3, <1>4
<1>. HIDE DEF n
<1>7. Waiting(inbox)' \subseteq Waiting(inbox) \ {n}
  BY <1>5, <1>6 DEF VarInv, OnePlace, Single, Waiting
<1>8. n \in Waiting(inbox)
  BY <1>5 DEF Waiting
<1>9. n \in 1..Len(throws) /\ n \notin Waiting(cachedFrames) /\ ~Stands(n, shown)
  BY <1>8 DEF VarInv, Happened, OnePlace
<1>10. /\ IsSequence(cachedFrames)' /\ Unlike(cachedFrames)'
       /\ Waiting(cachedFrames)' \subseteq Waiting(cachedFrames) \cup {n}
  BY <1>1, PutInCache
<1>11. \A w : Stands(w, shown)' = Stands(w, shown)
  BY <1>1 DEF Stands
<1>12. impl.where # "sync"
  BY <1>1 DEF VarInv, InTheThread
<1>13. VarTypes'
  BY <1>1, <1>3, <1>10 DEF VarInv, VarTypes, IsSequence
<1>14. Happened'
  BY <1>1, <1>7, <1>9, <1>10 DEF VarInv, Happened
<1>15. OnePlace'
  <2>1. Single(inbox)'
    BY <1>6 DEF VarInv, OnePlace, Single
  <2>2. (\A d \in captures : d.throw \notin Waiting(inbox) \cup Waiting(cachedFrames))'
    BY <1>1, <1>7, <1>8, <1>10 DEF VarInv, OnePlace
  <2>3. (Waiting(inbox) \cap Waiting(cachedFrames) = {})'
    BY <1>7, <1>10 DEF VarInv, OnePlace
  <2>4. (\A d \in captures : ~Stands(d.throw, shown))'
    BY <1>1, <1>11 DEF VarInv, OnePlace
  <2>5. (\A w \in Waiting(inbox) \cup Waiting(cachedFrames) : ~Stands(w, shown))'
    BY <1>7, <1>9, <1>10, <1>11 DEF VarInv, OnePlace
  <2>6. (\A d, e \in captures : d.throw = e.throw => d = e)'
    BY <1>1 DEF VarInv, OnePlace
  <2>. QED  BY <1>10, <2>1, <2>2, <2>3, <2>4, <2>5, <2>6 DEF OnePlace
<1>16. InTheThread'
  BY <1>1, <1>12 DEF InTheThread
<1>17. LV!VariablesBelong'
  BY <1>1, <1>12 DEF VarInv, LV!VariablesBelong, LV!Hash
<1>. QED  BY <1>13, <1>14, <1>15, <1>16, <1>17 DEF VarInv

\* The event takes the variables of the cache, at the frames they belong to.
LEMMA EventKeepsVars ==
  ASSUME VarInv, NEW n \in LV!Throws, LV!ProcessEvent(n)
  PROVE  VarInv'
<1>. DEFINE at == {k \in DOMAIN cachedFrames :
                     LV!Hash(cachedFrames[k].throw) = LV!Hash(n)}
            none == \/ impl.where = "sync" /\ session # "ready"
                    \/ LV!Hash(n) = NoHash \/ at = {}
            k == CHOOSE k \in at : TRUE
            entry == cachedFrames[k]
            listed == LV!EventFrames(throws[n])
            new == {<<listed[i], entry.throw, i>> : i \in LV!Matched(n, entry)}
<1>1. /\ n \in DOMAIN throws /\ pausedBy = 0 /\ reported' = reported \cup {n}
      /\ UNCHANGED <<impl, throws, captures, inbox, captured, pausedBy>>
  BY DEF LV!ProcessEvent, LV!setupVars, LV!debugVars
<1>2. \/ UNCHANGED <<shown, cachedFrames>>
      \/ /\ at # {} /\ shown' = [shown EXCEPT ![n] = new]
         /\ cachedFrames' = LV!Without(k)
  BY DEF LV!ProcessEvent
<1>3. n \in 1..Len(throws) /\ throws[n] \in Thrown
  BY <1>1 DEF VarInv, VarTypes
<1>4. \A m : LV!Hash(m)' = LV!Hash(m)
  BY <1>1 DEF LV!Hash
<1>5. impl.where = "sync" => captures = {}
  BY <1>1 DEF VarInv, InTheThread
<1>6. n \notin reported
  BY DEF LV!ProcessEvent
<1>7. shown[n] = {}
  BY <1>6 DEF VarInv, Happened
<1>. HIDE DEF at, none, k, new
<1>8. CASE UNCHANGED <<shown, cachedFrames>>
  <2>1. /\ \A w : Stands(w, shown)' = Stands(w, shown)
        /\ Waiting(inbox)' = Waiting(inbox) /\ Waiting(cachedFrames)' = Waiting(cachedFrames)
    BY <1>1, <1>8 DEF Stands, Waiting
  <2>2. VarTypes'
    BY <1>1, <1>8 DEF VarInv, VarTypes, IsSequence
  <2>3. Happened'
    BY <1>1, <1>3, <1>8, <2>1 DEF VarInv, Happened
  <2>4. OnePlace'
    BY <1>1, <1>4, <1>8, <2>1 DEF VarInv, OnePlace, Single, Unlike
  <2>5. InTheThread'
    BY <1>1, <1>4, <1>5, <1>8 DEF VarInv, InTheThread
  <2>6. LV!VariablesBelong'
    BY <1>1, <1>4, <1>8 DEF VarInv, LV!VariablesBelong
  <2>. QED  BY <2>2, <2>3, <2>4, <2>5, <2>6 DEF VarInv
<1>9. CASE /\ at # {} /\ shown' = [shown EXCEPT ![n] = new]
           /\ cachedFrames' = LV!Without(k)
  <2>. DEFINE w == entry.throw
  <2>1. k \in DOMAIN cachedFrames /\ LV!Hash(w) = LV!Hash(n)
    BY <1>9 DEF at, k
  <2>2. \A v \in new : v[2] = w /\ v[1] = v[3]
    <3>1. ASSUME NEW i \in LV!Matched(n, entry) PROVE i \in DOMAIN listed
      BY DEF LV!Matched
    <3>2. \A i \in DOMAIN listed : listed[i] = i
      BY <1>3, ThrownAssumption
    <3>. QED  BY <3>1, <3>2 DEF new
  <2>3. PICK S : cachedFrames \in Seq(S)
    BY DEF VarInv, VarTypes, IsSequence
  <2>. HIDE DEF entry
  <2>4. /\ cachedFrames' \in Seq(S)
        /\ Len(cachedFrames') = Len(cachedFrames) - 1
        /\ \A i \in 1..Len(cachedFrames) - 1 :
             cachedFrames'[i] = IF i < k THEN cachedFrames[i] ELSE cachedFrames[i + 1]
    BY <1>9, <2>1, <2>3, WithoutFacts DEF LV!Without
  <2>5. DOMAIN cachedFrames = 1..Len(cachedFrames) /\ Len(cachedFrames) \in Nat
    BY <2>3
  <2>6. DOMAIN cachedFrames' = 1..Len(cachedFrames) - 1
    BY <2>4, <2>5
  <2>. DEFINE From(i) == IF i < k THEN i ELSE i + 1
  <2>7. \A i \in DOMAIN cachedFrames' :
          /\ From(i) \in DOMAIN cachedFrames /\ From(i) # k
          /\ cachedFrames'[i] = cachedFrames[From(i)]
    BY <2>1, <2>4, <2>5, <2>6
  <2>8. \A i, j \in DOMAIN cachedFrames' : From(i) = From(j) => i = j
    BY <2>1, <2>5, <2>6
  <2>. HIDE DEF From
  <2>9. Unlike(cachedFrames)'
    BY <1>4, <2>7, <2>8 DEF VarInv, OnePlace, Unlike
  <2>10. \A i \in DOMAIN cachedFrames : i # k => cachedFrames[i].throw # w
    BY <2>1 DEF VarInv, OnePlace, Unlike, entry
  <2>11. Waiting(cachedFrames)' \subseteq Waiting(cachedFrames) \ {w}
    BY <2>7, <2>10 DEF Waiting
  <2>12. w \in Waiting(cachedFrames)
    BY <2>1 DEF Waiting, entry
  <2>13. w \in 1..Len(throws) /\ w \notin Waiting(inbox) /\ ~Stands(w, shown)
    BY <2>12 DEF VarInv, Happened, OnePlace
  <2>14. \A c \in captures : c.throw # w
    BY <2>12 DEF VarInv, OnePlace
  <2>. HIDE DEF w
  <2>15. /\ DOMAIN shown' = LV!Throws /\ shown'[n] = new
         /\ \A m \in LV!Throws : m # n => shown'[m] = shown[m]
    BY <1>9 DEF VarInv, VarTypes
  <2>16. \A u : Stands(u, shown)' => u = w \/ Stands(u, shown)
    BY <2>2, <2>15 DEF Stands
  <2>17. Waiting(inbox)' = Waiting(inbox)
    BY <1>1 DEF Waiting
  <2>18. IsSequence(cachedFrames)'
    BY <2>4 DEF IsSequence
  <2>19. VarTypes'
    BY <1>1, <2>15, <2>18 DEF VarInv, VarTypes, IsSequence
  <2>20. Happened'
    <3>1. (\A m \in LV!Throws : m \notin reported => shown[m] = {})'
      BY <1>1, <2>15 DEF VarInv, Happened, LV!Throws
    <3>2. (\A m \in LV!Throws : \A v \in shown[m] : v[2] \in 1..Len(throws))'
      BY <1>1, <2>2, <2>13, <2>15 DEF VarInv, Happened, LV!Throws
    <3>. QED  BY <1>1, <1>3, <2>11, <2>17, <3>1, <3>2 DEF VarInv, Happened
  <2>21. OnePlace'
    <3>1. Single(inbox)'
      BY <1>1 DEF VarInv, OnePlace, Single
    <3>2. (\A c \in captures : c.throw \notin Waiting(inbox) \cup Waiting(cachedFrames))'
      BY <1>1, <2>11, <2>17 DEF VarInv, OnePlace
    <3>3. (Waiting(inbox) \cap Waiting(cachedFrames) = {})'
      BY <2>11, <2>17 DEF VarInv, OnePlace
    <3>4. (\A c \in captures : ~Stands(c.throw, shown))'
      BY <1>1, <2>14, <2>16 DEF VarInv, OnePlace
    <3>5. (\A u \in Waiting(inbox) \cup Waiting(cachedFrames) : ~Stands(u, shown))'
      BY <2>11, <2>13, <2>16, <2>17 DEF VarInv, OnePlace
    <3>6. (\A c, d \in captures : c.throw = d.throw => c = d)'
      BY <1>1 DEF VarInv, OnePlace
    <3>. QED  BY <2>9, <3>1, <3>2, <3>3, <3>4, <3>5, <3>6 DEF OnePlace
  <2>22. InTheThread'
    BY <1>1, <1>4, <1>5, <2>7 DEF VarInv, InTheThread
  <2>23. LV!VariablesBelong'
    <3>1. ASSUME NEW m \in LV!Throws, NEW v \in shown'[m]
          PROVE  /\ LV!Hash(v[2]) = LV!Hash(m) /\ v[1] = v[3]
                 /\ impl.where = "sync" /\ m \in captured => v[2] >= m
      <4>1. CASE m = n
        <5>1. v \in new
          BY <2>15, <4>1
        <5>2. impl.where = "sync" /\ n \in captured => w >= n
          BY <2>1 DEF VarInv, InTheThread, w, entry
        <5>. QED  BY <2>1, <2>2, <4>1, <5>1, <5>2
      <4>2. CASE m # n
        BY <2>15, <4>2 DEF VarInv, LV!VariablesBelong
      <4>. QED  BY <4>1, <4>2
    <3>2. ASSUME NEW m \in LV!Throws, NEW o \in LV!Throws, m # o
          PROVE  {v[2] : v \in shown'[m]} \cap {v[2] : v \in shown'[o]} = {}
      <4>1. \A u \in LV!Throws : u # n => \A v \in shown[u] : v[2] # w
        BY <2>13 DEF Stands
      <4>2. \A v \in shown'[n] : v[2] = w
        BY <2>2, <2>15
      <4>3. CASE m # n /\ o # n
        BY <2>15, <3>2, <4>3 DEF VarInv, LV!VariablesBelong
      <4>4. CASE m = n \/ o = n
        BY <2>15, <3>2, <4>1, <4>2, <4>4
      <4>. QED  BY <4>3, <4>4
    <3>. QED  BY <1>1, <1>4, <3>1, <3>2 DEF LV!VariablesBelong
  <2>. QED  BY <2>19, <2>20, <2>21, <2>22, <2>23 DEF VarInv
<1>. QED  BY <1>2, <1>8, <1>9

LEMMA VarStep == VarInv /\ [LV!Next]_LV!lvVars => VarInv'
<1>. SUFFICES ASSUME VarInv, [LV!Next]_LV!lvVars PROVE VarInv'
  OBVIOUS
<1>1. CASE LV!Connect \/ LV!Answered \/ LV!FailToStart \/ LV!Second
  <2>1. UNCHANGED <<impl, throws, captures, inbox, cachedFrames, shown, reported, captured,
                    pausedBy>>
    BY <1>1 DEF LV!Connect, LV!Answered, LV!FailToStart, LV!Second, LV!setupVars,
                LV!debugVars, LV!cacheVars, LV!eventVars
  <2>. QED  BY <2>1, VarStays
<1>2. CASE \E s \in Thrown, caught \in BOOLEAN : LV!Throw(s, caught)
  BY <1>2, ThrowKeepsVars
<1>3. CASE \E c \in captures : LV!CaptureFrame(c) \/ LV!RequestFails(c) \/ LV!Complete(c)
  BY <1>3, CaptureKeepsVars, CompleteKeepsVars
<1>4. CASE LV!ResumeByOther
  <2>1. /\ impl.where # "sync"
        /\ UNCHANGED <<impl, throws, captures, inbox, cachedFrames, shown, reported, captured>>
    BY <1>4 DEF LV!ResumeByOther, LV!setupVars, LV!cacheVars, LV!eventVars
  <2>2. /\ \A d \in captures' : DOMAIN d = {"throw", "todo", "done"}
        /\ \A d, e \in captures' : d.throw = e.throw => d = e
    BY <2>1 DEF VarInv, VarTypes, OnePlace
  <2>. QED  BY <2>1, <2>2, CapturesGoOn
<1>5. CASE LV!Message
  BY <1>5, MessageKeepsVars
<1>6. CASE \E n \in LV!Throws : LV!ProcessEvent(n)
  BY <1>6, EventKeepsVars
<1>7. CASE UNCHANGED LV!lvVars
  <2>1. UNCHANGED <<impl, throws, captures, inbox, cachedFrames, shown, reported, captured,
                    pausedBy>>
    BY <1>7 DEF LV!lvVars
  <2>. QED  BY <2>1, VarStays
<1>. QED  BY <1>1, <1>2, <1>3, <1>4, <1>5, <1>6, <1>7 DEF LV!Next

\* The variables in an event were captured where its exception was thrown, stand at their
\* frames and in no other event; in the paused thread they are those of the exception
\* itself unless it was not captured or the place threw again
\* (local-variables-sync.ts:273-319, 367-372).
THEOREM VariablesOfTheThrow == LV!Spec => []LV!VariablesBelong
<1>1. LV!Init => VarInv
  BY VarInit
<1>2. VarInv /\ [LV!Next]_LV!lvVars => VarInv'
  BY VarStep
<1>3. VarInv => LV!VariablesBelong
  BY DEF VarInv
<1>. QED  BY <1>1, <1>2, <1>3, PTL DEF LV!Spec

\* Both together: a throw that pauses the program is attended to, and its variables come
\* out where they belong (local-variables-sync.ts:75-84, 273-319).
THEOREM CapturesServe == LV!Spec => []CapturesServeTheirThrow
<1>1. LV!PausedIsAttendedTo /\ LV!VariablesBelong => CapturesServeTheirThrow
  BY DEF CapturesServeTheirThrow
<1>. QED  BY <1>1, PausesEnd, VariablesOfTheThrow, PTL

\* The limiter has counted no more pauses than there were throws.
LvInv == LV!TypeOK /\ limiter.count <= Len(throws)

CaptureRecord == [throw : LV!Throws, todo : SUBSET LV!Frames, done : SUBSET LV!Frames]
EntryRecord == [throw : LV!Throws, done : SUBSET LV!Frames]

LEMMA LvInit == LV!Init => LvInv
<1>. SUFFICES ASSUME LV!Init PROVE LvInv
  OBVIOUS
<1>1. \A S : <<>> \in Seq(S)
  BY EmptySeq
<1>2. /\ MaxThrows \in Nat /\ LongestRetry \in Nat /\ FirstRetry \in 1..LongestRetry
  BY ThrownAssumption
<1>3. /\ LV!NotLimited \in [count : 0..MaxThrows, retry : 1..LongestRetry, off : 0..LongestRetry]
      /\ LV!NotLimited.count = 0
  BY <1>2 DEF LV!NotLimited
<1>4. throws = <<>> /\ Len(throws) = 0 /\ shown \in [LV!Throws -> SUBSET (LV!Frames \X LV!Throws \X LV!Frames)]
  BY DEF LV!Init, LV!InitWith
<1>5. /\ impl \in [where : {"sync", "worker"}, all : BOOLEAN]
      /\ session = "off" /\ limiter = LV!NotLimited /\ pauseOn = "none" /\ pausedBy = 0
      /\ captures = {} /\ inbox = <<>> /\ cachedFrames = <<>>
      /\ reported = {} /\ captured = {} /\ broken = {}
  BY DEF LV!Init, LV!InitWith
<1>. QED  BY <1>1, <1>2, <1>3, <1>4, <1>5 DEF LvInv, LV!TypeOK

\* The frames looked into are frames.
LEMMA VisitedFrames ==
  ASSUME NEW s \in Thrown
  PROVE  LV!Visited(s) \subseteq LV!Frames
BY DEF LV!Visited, LV!Frames

LEMMA ThrowKeepsTypes ==
  ASSUME LvInv, NEW s \in Thrown, NEW caught \in BOOLEAN, LV!Throw(s, caught)
  PROVE  LvInv'
<1>. DEFINE n == Len(throws) + 1
            c == [throw |-> n, done |-> {},
                  todo |-> IF s.hash = NoHash THEN {} ELSE LV!Visited(s)]
<1>1. MaxThrows \in Nat /\ throws \in Seq(Thrown) /\ Len(throws) \in Nat
  BY ThrownAssumption DEF LvInv, LV!TypeOK
<1>2. /\ throws' \in Seq(Thrown) /\ Len(throws') = n /\ n <= MaxThrows /\ n \in LV!Throws
  BY <1>1, AppendFacts DEF LV!Throw, LV!Throws
<1>3. c \in CaptureRecord
  BY <1>2, VisitedFrames DEF CaptureRecord
<1>4. /\ limiter \in [count : 0..MaxThrows, retry : 1..LongestRetry, off : 0..LongestRetry]
      /\ limiter.count <= Len(throws)
  BY DEF LvInv, LV!TypeOK
<1>5. /\ limiter' \in [count : 0..MaxThrows, retry : 1..LongestRetry, off : 0..LongestRetry]
      /\ limiter'.count <= n
  <2>1. limiter' = limiter \/ limiter' = [limiter EXCEPT !.count = @ + 1]
    BY DEF LV!Throw, LV!Counted
  <2>. QED  BY <1>1, <1>2, <1>4, <2>1
<1>6. \/ pausedBy' = n /\ captures' = captures \cup {c}
      \/ UNCHANGED <<pausedBy, captures>>
  BY DEF LV!Throw
<1>7. UNCHANGED <<impl, session, pauseOn, broken, inbox, cachedFrames, captured, shown, reported>>
  BY DEF LV!Throw, LV!setupVars, LV!cacheVars, LV!eventVars
<1>8. captures' \subseteq CaptureRecord
  BY <1>3, <1>6 DEF LvInv, LV!TypeOK, CaptureRecord
<1>9. pausedBy' \in 0..MaxThrows
  BY <1>1, <1>2, <1>6 DEF LvInv, LV!TypeOK
<1>. HIDE DEF n, c
<1>. QED  BY <1>2, <1>5, <1>7, <1>8, <1>9 DEF LvInv, LV!TypeOK, CaptureRecord

LEMMA CaptureKeepsTypes ==
  ASSUME LvInv, NEW c \in captures, LV!CaptureFrame(c) \/ LV!RequestFails(c)
  PROVE  LvInv'
<1>1. /\ c \in CaptureRecord /\ captures \subseteq CaptureRecord
  BY DEF LvInv, LV!TypeOK, CaptureRecord
<1>2. UNCHANGED <<impl, session, limiter, pauseOn, throws, pausedBy, inbox, cachedFrames,
                  captured, shown, reported>>
  BY DEF LV!CaptureFrame, LV!RequestFails, LV!setupVars, LV!cacheVars, LV!eventVars
<1>3. captures' \subseteq CaptureRecord /\ broken' \subseteq LV!Throws
  <2>1. broken \subseteq LV!Throws /\ c.throw \in LV!Throws
    BY <1>1 DEF LvInv, LV!TypeOK, CaptureRecord
  <2>2. CASE LV!CaptureFrame(c)
    <3>1. PICK i \in c.todo : /\ captures' = (captures \ {c}) \cup
                                   {[c EXCEPT !.todo = @ \ {i}, !.done = @ \cup {i}]}
                              /\ broken' = broken
      BY <2>2 DEF LV!CaptureFrame
    <3>2. [c EXCEPT !.todo = @ \ {i}, !.done = @ \cup {i}] \in CaptureRecord
      BY <1>1 DEF CaptureRecord
    <3>. QED  BY <1>1, <2>1, <3>1, <3>2
  <2>3. CASE LV!RequestFails(c)
    <3>1. [c EXCEPT !.todo = {}] \in CaptureRecord
      BY <1>1 DEF CaptureRecord
    <3>. QED  BY <1>1, <2>1, <2>3, <3>1 DEF LV!RequestFails, LV!Fail
  <2>. QED  BY <2>2, <2>3
<1>. QED  BY <1>2, <1>3 DEF LvInv, LV!TypeOK, CaptureRecord

LEMMA CacheSetTypes ==
  ASSUME LvInv, NEW n \in LV!Throws, NEW list \in SUBSET LV!Frames
  PROVE  LV!CacheSet(n, list) \in Seq(EntryRecord)
<1>. DEFINE kept == IF Len(cachedFrames) >= CacheSize THEN Tail(cachedFrames)
                    ELSE cachedFrames
            at == {k \in DOMAIN kept : LV!Hash(kept[k].throw) = LV!Hash(n)}
            entry == [throw |-> n, done |-> list]
<1>1. entry \in EntryRecord
  BY DEF EntryRecord
<1>2. cachedFrames \in Seq(EntryRecord) /\ CacheSize \in Nat \ {0}
  BY ThrownAssumption DEF LvInv, LV!TypeOK, EntryRecord
<1>3. kept \in Seq(EntryRecord)
  BY <1>2
<1>4. LV!CacheSet(n, list) = IF at = {} THEN Append(kept, entry)
                             ELSE [k \in DOMAIN kept |-> IF k \in at THEN entry ELSE kept[k]]
  BY DEF LV!CacheSet
<1>. HIDE DEF kept, at, entry
<1>5. Append(kept, entry) \in Seq(EntryRecord)
  BY <1>1, <1>3
<1>6. [k \in DOMAIN kept |-> IF k \in at THEN entry ELSE kept[k]] \in Seq(EntryRecord)
  <2>1. Len(kept) \in Nat /\ DOMAIN kept = 1..Len(kept) /\ \A k \in DOMAIN kept : kept[k] \in EntryRecord
    BY <1>3
  <2>2. [k \in DOMAIN kept |-> IF k \in at THEN entry ELSE kept[k]] \in [1..Len(kept) -> EntryRecord]
    BY <1>1, <2>1
  <2>. QED  BY <2>1, <2>2, SeqDef
<1>. QED  BY <1>4, <1>5, <1>6

LEMMA CompleteKeepsTypes ==
  ASSUME LvInv, NEW c \in captures, LV!Complete(c)
  PROVE  LvInv'
<1>1. c.throw \in LV!Throws /\ c.done \in SUBSET LV!Frames /\ inbox \in Seq(EntryRecord)
  BY DEF LvInv, LV!TypeOK, EntryRecord
<1>2. LV!CacheSet(c.throw, c.done) \in Seq(EntryRecord)
  BY <1>1, CacheSetTypes
<1>3. [throw |-> c.throw, done |-> c.done] \in EntryRecord
  BY <1>1 DEF EntryRecord
<1>4. Append(inbox, [throw |-> c.throw, done |-> c.done]) \in Seq(EntryRecord)
  BY <1>1, <1>3, AppendFacts
<1>5. /\ captures' \subseteq captures /\ pausedBy' = 0
      /\ UNCHANGED <<impl, session, limiter, pauseOn, throws, broken, shown, reported>>
  BY DEF LV!Complete, LV!setupVars, LV!eventVars
<1>6. /\ cachedFrames' \in Seq(EntryRecord) /\ inbox' \in Seq(EntryRecord)
      /\ captured' \subseteq LV!Throws
  <2>1. cachedFrames \in Seq(EntryRecord) /\ captured \subseteq LV!Throws
    BY DEF LvInv, LV!TypeOK, EntryRecord
  <2>. QED  BY <1>1, <1>2, <1>4, <2>1 DEF LV!Complete, LV!cacheVars
<1>7. 0 \in 0..MaxThrows
  BY ThrownAssumption
<1>. QED  BY <1>5, <1>6, <1>7 DEF LvInv, LV!TypeOK, EntryRecord

LEMMA MessageKeepsTypes ==
  ASSUME LvInv, LV!Message
  PROVE  LvInv'
<1>1. inbox \in Seq(EntryRecord) /\ inbox # <<>> /\ captured \subseteq LV!Throws
  BY DEF LvInv, LV!TypeOK, EntryRecord, LV!Message
<1>2. Tail(inbox) \in Seq(EntryRecord) /\ Head(inbox) \in EntryRecord
  BY <1>1, TailFacts
<1>3. Head(inbox).throw \in LV!Throws /\ Head(inbox).done \in SUBSET LV!Frames
  BY <1>2 DEF EntryRecord
<1>4. LV!CacheSet(Head(inbox).throw, Head(inbox).done) \in Seq(EntryRecord)
  BY <1>3, CacheSetTypes
<1>5. /\ inbox' \in Seq(EntryRecord) /\ cachedFrames' \in Seq(EntryRecord)
      /\ captured' \subseteq LV!Throws
  BY <1>1, <1>2, <1>3, <1>4 DEF LV!Message
<1>6. UNCHANGED <<impl, session, limiter, pauseOn, throws, pausedBy, captures, broken,
                  shown, reported>>
  BY DEF LV!Message, LV!setupVars, LV!debugVars, LV!eventVars
<1>. QED  BY <1>5, <1>6 DEF LvInv, LV!TypeOK, EntryRecord

LEMMA SecondKeepsTypes ==
  ASSUME LvInv, LV!Second
  PROVE  LvInv'
<1>1. /\ MaxThrows \in Nat /\ LongestRetry \in Nat \ {0} /\ Len(throws) \in Nat
      /\ limiter \in [count : 0..MaxThrows, retry : 1..LongestRetry, off : 0..LongestRetry]
  BY ThrownAssumption DEF LvInv, LV!TypeOK
<1>2. LV!Capped(2 * limiter.retry) \in 1..LongestRetry
  BY <1>1 DEF LV!Capped
<1>3. limiter' \in [count : {0}, retry : 1..LongestRetry, off : 0..LongestRetry]
  <2>1. CASE limiter.off = 0 /\ limiter.count > MaxPerSecond
    BY <1>1, <1>2, <2>1 DEF LV!Second
  <2>2. CASE limiter.off = 0 /\ ~(limiter.count > MaxPerSecond)
    BY <1>1, <2>2 DEF LV!Second
  <2>3. CASE limiter.off # 0
    <3>1. limiter' = [limiter EXCEPT !.count = 0, !.off = limiter.off - 1]
      BY <2>3 DEF LV!Second
    <3>2. limiter.off - 1 \in 0..LongestRetry
      BY <1>1, <2>3
    <3>. QED  BY <1>1, <3>1, <3>2
  <2>. QED  BY <2>1, <2>2, <2>3
<1>4. pauseOn' \in {"none", "uncaught", "all"}
  BY DEF LV!Second, LvInv, LV!TypeOK
<1>5. UNCHANGED <<impl, session, throws, pausedBy, captures, broken, inbox, cachedFrames,
                  captured, shown, reported>>
  BY DEF LV!Second, LV!setupVars, LV!debugVars, LV!cacheVars, LV!eventVars
<1>6. /\ limiter' \in [count : 0..MaxThrows, retry : 1..LongestRetry, off : 0..LongestRetry]
      /\ limiter'.count <= Len(throws)
  BY <1>1, <1>3
<1>. QED  BY <1>4, <1>5, <1>6 DEF LvInv, LV!TypeOK

\* An event gets frames of its own stack with variables of frames that were captured.
LEMMA EventKeepsTypes ==
  ASSUME LvInv, VarInv, NEW n \in LV!Throws, LV!ProcessEvent(n)
  PROVE  LvInv'
<1>. DEFINE at == {k \in DOMAIN cachedFrames :
                     LV!Hash(cachedFrames[k].throw) = LV!Hash(n)}
            k == CHOOSE k \in at : TRUE
            entry == cachedFrames[k]
            listed == LV!EventFrames(throws[n])
            new == {<<listed[i], entry.throw, i>> : i \in LV!Matched(n, entry)}
<1>1. /\ n \in DOMAIN throws /\ reported' = reported \cup {n}
      /\ UNCHANGED <<impl, session, limiter, pauseOn, throws, pausedBy, captures, broken,
                     inbox, captured>>
  BY DEF LV!ProcessEvent, LV!setupVars, LV!debugVars
<1>2. \/ UNCHANGED <<shown, cachedFrames>>
      \/ /\ at # {} /\ shown' = [shown EXCEPT ![n] = new]
         /\ cachedFrames' = LV!Without(k)
  BY DEF LV!ProcessEvent
<1>3. cachedFrames \in Seq(EntryRecord)
  BY DEF LvInv, LV!TypeOK, EntryRecord
<1>4. ASSUME at # {}
      PROVE  k \in DOMAIN cachedFrames
  BY <1>4
<1>. HIDE DEF at, k
<1>5. ASSUME at # {}
      PROVE  new \subseteq LV!Frames \X LV!Throws \X LV!Frames
  <2>1. entry \in EntryRecord /\ entry.throw \in Waiting(cachedFrames)
    BY <1>3, <1>4, <1>5 DEF Waiting
  <2>2. entry.throw \in LV!Throws /\ entry.throw \in 1..Len(throws)
    BY <2>1 DEF EntryRecord, VarInv, Happened
  <2>3. throws \in Seq(Thrown)
    BY DEF LvInv, LV!TypeOK
  <2>4. throws[entry.throw] \in Thrown /\ throws[n] \in Thrown
    BY <1>1, <2>2, <2>3
  <2>5. PICK m \in 0..Len(throws[n].shown) : listed = [i \in 1..m |-> i]
    BY <2>4, ThrownAssumption
  <2>. HIDE DEF entry, listed
  <2>6. ASSUME NEW i \in LV!Matched(n, entry)
        PROVE  listed[i] = i /\ i \in LV!Frames
    <3>1. i \in DOMAIN listed /\ \A j \in 1..i : j \in DOMAIN LV!Calls(entry.throw)
      BY DEF LV!Matched, listed
    <3>2. i \in 1..i /\ listed[i] = i
      BY <2>5, <3>1
    <3>3. i \in DOMAIN throws[entry.throw].calls
      BY <3>1, <3>2 DEF LV!Calls
    <3>. QED  BY <2>4, <3>2, <3>3 DEF LV!Frames
  <2>. QED  BY <2>2, <2>6
<1>6. cachedFrames' \in Seq(EntryRecord)
  <2>1. CASE UNCHANGED cachedFrames
    BY <1>3, <2>1
  <2>2. CASE at # {} /\ cachedFrames' = LV!Without(k)
    BY <1>3, <1>4, <2>2, WithoutFacts DEF LV!Without
  <2>. QED  BY <1>2, <2>1, <2>2
<1>. HIDE DEF new
<1>7. shown' \in [LV!Throws -> SUBSET (LV!Frames \X LV!Throws \X LV!Frames)]
  BY <1>2, <1>5 DEF LvInv, LV!TypeOK
<1>8. reported' \subseteq LV!Throws
  BY <1>1 DEF LvInv, LV!TypeOK
<1>. QED  BY <1>1, <1>6, <1>7, <1>8 DEF LvInv, LV!TypeOK, EntryRecord

LEMMA LvStep == LvInv /\ VarInv /\ [LV!Next]_LV!lvVars => LvInv'
<1>. SUFFICES ASSUME LvInv, VarInv, [LV!Next]_LV!lvVars PROVE LvInv'
  OBVIOUS
<1>1. CASE LV!Connect \/ LV!Answered \/ LV!FailToStart
  <2>1. /\ session' \in {"off", "connected", "ready", "failed"}
        /\ pauseOn' \in {"none", "uncaught", "all"}
        /\ UNCHANGED <<impl, limiter, throws, pausedBy, captures, broken, inbox, cachedFrames,
                       captured, shown, reported>>
    BY <1>1 DEF LV!Connect, LV!Answered, LV!FailToStart, LV!debugVars, LV!cacheVars,
                LV!eventVars, LvInv, LV!TypeOK
  <2>. QED  BY <2>1 DEF LvInv, LV!TypeOK
<1>2. CASE \E s \in Thrown, caught \in BOOLEAN : LV!Throw(s, caught)
  BY <1>2, ThrowKeepsTypes
<1>3. CASE \E c \in captures : LV!CaptureFrame(c) \/ LV!RequestFails(c) \/ LV!Complete(c)
  BY <1>3, CaptureKeepsTypes, CompleteKeepsTypes
<1>4. CASE LV!ResumeByOther
  <2>1. /\ pausedBy' = 0 /\ 0 \in 0..MaxThrows
        /\ UNCHANGED <<impl, session, limiter, pauseOn, throws, captures, broken, inbox,
                       cachedFrames, captured, shown, reported>>
    BY <1>4, ThrownAssumption
       DEF LV!ResumeByOther, LV!setupVars, LV!cacheVars, LV!eventVars
  <2>. QED  BY <2>1 DEF LvInv, LV!TypeOK
<1>5. CASE LV!Message \/ LV!Second \/ \E n \in LV!Throws : LV!ProcessEvent(n)
  BY <1>5, MessageKeepsTypes, SecondKeepsTypes, EventKeepsTypes
<1>6. CASE UNCHANGED LV!lvVars
  BY <1>6 DEF LV!lvVars, LvInv, LV!TypeOK
<1>. QED  BY <1>1, <1>2, <1>3, <1>4, <1>5, <1>6 DEF LV!Next

\* The variables of the capture of local variables keep their types, and the limiter its
\* bounds (local-variables-sync.ts, worker.ts, common.ts:17-55).
THEOREM CaptureTypes == LV!Spec => []LV!TypeOK
<1>1. LV!Init => LvInv /\ VarInv
  BY LvInit, VarInit
<1>2. LvInv /\ VarInv /\ [LV!Next]_LV!lvVars => LvInv' /\ VarInv'
  BY LvStep, VarStep
<1>3. LvInv => LV!TypeOK
  BY DEF LvInv
<1>. QED  BY <1>1, <1>2, <1>3, PTL DEF LV!Spec

-----------------------------------------------------------------------------
(* HttpCapture.                                                            *)

\* What a body is made of, and that a message is over when its end arrives.
HttpInv ==
  /\ chunks \in Seq(Pieces) /\ piped \in Seq(Pieces \cup {"end"}) /\ finished \in BOOLEAN
  /\ body.text \in Seq(Pieces)
  /\ \A i \in DOMAIN piped : piped[i] = "end" => finished
  /\ HC!NothingDeniedRecorded

LEMMA PrefixOfItself ==
  ASSUME NEW S, NEW s \in Seq(S)
  PROVE  HC!IsPrefix(s, s)
BY DEF HC!IsPrefix

LEMMA PrefixIs ==
  ASSUME NEW S, NEW s \in Seq(S), NEW t \in Seq(S)
  PROVE  HC!IsPrefix(s, t) <=> Len(s) <= Len(t) /\ \A i \in 1..Len(s) : s[i] = t[i]
<1>1. /\ Len(s) \in Nat /\ Len(t) \in Nat
      /\ \A n \in 0..Len(s) : /\ SubSeq(s, 1, n) \in Seq(S) /\ Len(SubSeq(s, 1, n)) = n
                              /\ \A i \in 1..n : SubSeq(s, 1, n)[i] = s[i]
  OBVIOUS
<1>2. ASSUME Len(s) <= Len(t)
      PROVE  /\ SubSeq(t, 1, Len(s)) \in Seq(S) /\ Len(SubSeq(t, 1, Len(s))) = Len(s)
             /\ \A i \in 1..Len(s) : SubSeq(t, 1, Len(s))[i] = t[i]
  BY <1>1, <1>2
<1>3. ASSUME NEW a \in Seq(S), NEW b \in Seq(S), Len(a) = Len(b)
      PROVE  a = b <=> \A i \in 1..Len(a) : a[i] = b[i]
  BY <1>3
<1>4. Len(s) \in 0..Len(s)
  BY <1>1
<1>5. /\ SubSeq(s, 1, Len(s)) \in Seq(S) /\ Len(SubSeq(s, 1, Len(s))) = Len(s)
      /\ \A i \in 1..Len(s) : SubSeq(s, 1, Len(s))[i] = s[i]
  BY <1>1, <1>4
<1>6. ASSUME Len(s) <= Len(t)
      PROVE  SubSeq(s, 1, Len(s)) = SubSeq(t, 1, Len(s)) <=> \A i \in 1..Len(s) : s[i] = t[i]
  BY <1>2, <1>3, <1>5, <1>6
<1>. QED  BY <1>6 DEF HC!IsPrefix

\* More chunks do not change what a prefix of them is.
LEMMA PrefixStays ==
  ASSUME NEW S, NEW s \in Seq(S), NEW t \in Seq(S), NEW u \in Seq(S), HC!IsPrefix(s, t)
  PROVE  HC!IsPrefix(s, t \o u)
<1>1. Len(s) \in Nat /\ Len(t) \in Nat /\ Len(u) \in Nat
  OBVIOUS
<1>2. /\ t \o u \in Seq(S) /\ Len(t \o u) = Len(t) + Len(u)
      /\ \A i \in 1..Len(t) : (t \o u)[i] = t[i]
  BY <1>1
<1>3. Len(s) <= Len(t) /\ \A i \in 1..Len(s) : s[i] = t[i]
  BY PrefixIs
<1>4. Len(s) <= Len(t \o u) /\ \A i \in 1..Len(s) : i \in 1..Len(t)
  BY <1>1, <1>2, <1>3
<1>. QED  BY <1>2, <1>3, <1>4, PrefixIs

LEMMA HttpInit == HC!Init => HttpInv
<1>. SUFFICES ASSUME HC!Init PROVE HttpInv
  OBVIOUS
<1>1. chunks = <<>> /\ piped = <<>> /\ finished = FALSE /\ body = HC!Unset
  BY DEF HC!Init, HC!InitWith
<1>2. \A S : <<>> \in Seq(S)
  BY EmptySeq
<1>3. body.text = <<>> /\ body.kind = "unset"
  BY <1>1 DEF HC!Unset
<1>4. \A i \in DOMAIN piped : FALSE
  BY <1>1
<1>. QED  BY <1>1, <1>2, <1>3, <1>4 DEF HttpInv, HC!NothingDeniedRecorded

\* The body as it is put on the span: all of the chunks there are.
LEMMA BodyIsChecked ==
  ASSUME NEW t \in Seq(Pieces), NEW g, NEW c, HC!SetBody(t, g, c)
  PROVE  \/ body' = body
         \/ body'.text = t /\ (body'.kind = "readable" => \A k \in Keywords : ~HC!HasKeyword(t, k))
         \/ body' = HC!Filtered
BY DEF HC!SetBody, HC!Recorded, HC!ShouldRecordBody

\* The chunks grow, and the body stays or is set from all of them.
LEMMA BodyKeeps ==
  ASSUME HttpInv, NEW u \in Seq(Pieces), chunks' = chunks \o u, finished => finished',
         finished' \in BOOLEAN, piped' \in Seq(Pieces \cup {"end"}),
         \A i \in DOMAIN piped' : piped'[i] = "end" => finished',
         body' = body \/ (finished' /\ \E g, c : HC!SetBody(chunks', g, c))
  PROVE  HttpInv'
<1>1. chunks \in Seq(Pieces) /\ body.text \in Seq(Pieces)
  BY DEF HttpInv
<1>2. chunks' \in Seq(Pieces)
  BY <1>1
<1>3. CASE body' = body
  <2>1. body.kind = "readable" => HC!IsPrefix(body.text, chunks')
    BY <1>1, PrefixStays DEF HttpInv, HC!NothingDeniedRecorded
  <2>. QED  BY <1>2, <1>3, <2>1 DEF HttpInv, HC!NothingDeniedRecorded
<1>4. CASE finished' /\ body'.text = chunks'
           /\ (body'.kind = "readable" => \A k \in Keywords : ~HC!HasKeyword(chunks', k))
  <2>1. HC!IsPrefix(body'.text, chunks')
    BY <1>2, <1>4, PrefixOfItself
  <2>. QED  BY <1>2, <1>4, <2>1 DEF HttpInv, HC!NothingDeniedRecorded
<1>5. CASE body' = HC!Filtered
  <2>1. body'.kind # "readable" /\ body'.text = <<>> /\ <<>> \in Seq(Pieces)
    BY <1>5 DEF HC!Filtered
  <2>. QED  BY <1>2, <2>1 DEF HttpInv, HC!NothingDeniedRecorded
<1>. QED  BY <1>2, <1>3, <1>4, <1>5, BodyIsChecked

LEMMA SingleChunk ==
  ASSUME NEW S, NEW s \in Seq(S), NEW e \in S
  PROVE  Append(s, e) = s \o <<e>> /\ <<e>> \in Seq(S) /\ s = s \o <<>> /\ <<>> \in Seq(S)
OBVIOUS

LEMMA HttpStep == HttpInv /\ [HC!Next]_HC!hcVars => HttpInv'
<1>. SUFFICES ASSUME HttpInv, [HC!Next]_HC!hcVars PROVE HttpInv'
  OBVIOUS
<1>. DEFINE P == Pieces \cup {"end"}
<1>1. /\ chunks \in Seq(Pieces) /\ piped \in Seq(P)
      /\ \A i \in DOMAIN piped : piped[i] = "end" => finished
  BY DEF HttpInv
<1>2. chunks = chunks \o <<>> /\ <<>> \in Seq(Pieces)
  BY <1>1, SingleChunk
<1>3. ASSUME NEW p \in Pieces, HC!Write(p)
      PROVE  HttpInv'
  <2>1. chunks' = chunks \o <<p>> /\ <<p>> \in Seq(Pieces) /\ UNCHANGED <<piped, finished, body>>
    BY <1>1, <1>3, SingleChunk DEF HC!Write
  <2>. QED  BY <1>1, <2>1, BodyKeeps DEF HttpInv
<1>4. ASSUME NEW p \in P, piped' = Append(piped, p), UNCHANGED <<chunks, body>>,
             p = "end" => finished', finished' \in BOOLEAN, finished => finished'
      PROVE  HttpInv'
  <2>1. /\ piped' \in Seq(P)
        /\ \A i \in DOMAIN piped' : (i \in DOMAIN piped /\ piped'[i] = piped[i]) \/ piped'[i] = p
    BY <1>1, <1>4, AppendFacts
  <2>2. \A i \in DOMAIN piped' : piped'[i] = "end" => finished'
    BY <1>1, <1>4, <2>1
  <2>. QED  BY <1>2, <1>4, <2>1, <2>2, BodyKeeps
<1>5. ASSUME NEW p \in Pieces, HC!Arrive(p)
      PROVE  HttpInv'
  BY <1>4, <1>5, HttpAssumption DEF HC!Arrive, HttpInv
<1>6. CASE HC!ArriveEnd
  BY <1>4, <1>6 DEF HC!ArriveEnd
<1>7. CASE HC!Abort
  <2>1. UNCHANGED <<chunks, piped, body>> /\ finished'
    BY <1>7 DEF HC!Abort
  <2>. QED  BY <1>1, <1>2, <2>1, BodyKeeps
<1>8. ASSUME NEW data \in {<<>>} \cup {<<p>> : p \in Pieces}, NEW callback \in BOOLEAN,
             HC!EndWith(data, callback)
      PROVE  HttpInv'
  <2>1. data \in Seq(Pieces)
    BY <1>2, SingleChunk, <1>1
  <2>2. /\ chunks' = chunks \o data /\ finished' = TRUE /\ piped' = piped
        /\ HC!SetBody(chunks', garbled', FALSE)
    BY <1>8 DEF HC!EndWith
  <2>. QED  BY <1>1, <2>1, <2>2, BodyKeeps
<1>9. ASSUME NEW cut \in BOOLEAN, HC!PassThrough(cut)
      PROVE  HttpInv'
  <2>1. piped # <<>> /\ piped' = Tail(piped) /\ finished' = finished
    BY <1>9 DEF HC!PassThrough
  <2>2. /\ piped' \in Seq(P) /\ Head(piped) \in P
        /\ \A i \in DOMAIN piped' : \E j \in DOMAIN piped : piped'[i] = piped[j]
        /\ 1 \in DOMAIN piped /\ Head(piped) = piped[1]
    BY <1>1, <2>1, TailFacts
  <2>3. \A i \in DOMAIN piped' : piped'[i] = "end" => finished'
    BY <1>1, <2>1, <2>2
  <2>4. CASE Head(piped) = "end"
    <3>1. finished /\ chunks' = chunks /\ HC!SetBody(chunks, FALSE, cut)
      BY <1>1, <1>9, <2>2, <2>4 DEF HC!PassThrough
    <3>2. HC!SetBody(chunks', FALSE, cut)
      BY <3>1
    <3>. QED  BY <1>2, <2>1, <2>2, <2>3, <3>1, <3>2, BodyKeeps DEF HttpInv
  <2>5. CASE Head(piped) # "end"
    <3>1. chunks' = chunks \o <<Head(piped)>> /\ <<Head(piped)>> \in Seq(Pieces)
      BY <1>1, <1>9, <2>2, <2>5, SingleChunk DEF HC!PassThrough
    <3>2. body' = body
      BY <1>9, <2>5 DEF HC!PassThrough
    <3>. QED  BY <2>1, <2>2, <2>3, <3>1, <3>2, BodyKeeps DEF HttpInv
  <2>. QED  BY <2>4, <2>5
<1>10. CASE HC!SpanEnds \/ UNCHANGED HC!hcVars
  <2>1. UNCHANGED <<chunks, piped, body, finished>>
    BY <1>10 DEF HC!SpanEnds, HC!hcVars
  <2>. QED  BY <2>1 DEF HttpInv, HC!NothingDeniedRecorded
<1>. QED
  BY <1>3, <1>5, <1>6, <1>7, <1>8, <1>9, <1>10 DEF HC!Next

\* No body in which a keyword of the deny list can be read gets on a span, and a body that
\* can be read is all that was written or came through so far (http.ts:52-64, 114-187).
THEOREM DeniedStaysOff == HC!Spec => []NothingDeniedRecorded
<1>1. HC!Init => HttpInv
  BY HttpInit
<1>2. HttpInv /\ [HC!Next]_HC!hcVars => HttpInv'
  BY HttpStep
<1>3. HttpInv => NothingDeniedRecorded
  BY DEF HttpInv, NothingDeniedRecorded
<1>. QED  BY <1>1, <1>2, <1>3, PTL DEF HC!Spec

\* What SetBody leaves on the span.
LEMMA BodyTypes ==
  ASSUME HC!HcTypeOK, NEW t \in Seq(Pieces), NEW g, NEW c, HC!SetBody(t, g, c)
  PROVE  body' \in [kind : {"unset", "filtered", "readable", "bytes"}, text : Seq(Pieces)]
<1>1. <<>> \in Seq(Pieces)
  BY EmptySeq
<1>. QED  BY <1>1 DEF HC!HcTypeOK, HC!SetBody, HC!Recorded, HC!Filtered

\* The variables of the capture of bodies keep their types (instrumentations/http.ts).
THEOREM HttpTypes == HC!Spec => []HC!HcTypeOK
<1>. DEFINE P == Pieces \cup {"end"}
<1>1. HC!Init => HC!HcTypeOK
  <2>. SUFFICES ASSUME HC!Init PROVE HC!HcTypeOK
    OBVIOUS
  <2>1. \A S : <<>> \in Seq(S)
    BY EmptySeq
  <2>2. HC!Unset \in [kind : {"unset", "filtered", "readable", "bytes"}, text : Seq(Pieces)]
    BY <2>1 DEF HC!Unset
  <2>3. /\ message \in HC!Messages /\ encoding \in {"identity", "gzip", "br"}
        /\ chunks = <<>> /\ piped = <<>> /\ body = HC!Unset
        /\ finished = FALSE /\ garbled = FALSE /\ spanOpen = TRUE
    BY DEF HC!Init, HC!InitWith
  <2>. QED  BY <2>1, <2>2, <2>3 DEF HC!HcTypeOK
<1>2. HC!HcTypeOK /\ [HC!Next]_HC!hcVars => HC!HcTypeOK'
  <2>. SUFFICES ASSUME HC!HcTypeOK, [HC!Next]_HC!hcVars PROVE HC!HcTypeOK'
    OBVIOUS
  <2>1. ASSUME NEW p \in Pieces, HC!Write(p) \/ HC!Arrive(p)
        PROVE  HC!HcTypeOK'
    <3>1. Append(chunks, p) \in Seq(Pieces) /\ Append(piped, p) \in Seq(P)
      BY AppendFacts DEF HC!HcTypeOK
    <3>2. CASE HC!Write(p)
      BY <3>1, <3>2 DEF HC!HcTypeOK, HC!Write
    <3>3. CASE HC!Arrive(p)
      <4>1. /\ piped' \in Seq(P)
            /\ UNCHANGED <<message, encoding, chunks, finished, garbled, spanOpen, body>>
        BY <3>1, <3>3 DEF HC!Arrive
      <4>. QED  BY <4>1 DEF HC!HcTypeOK
    <3>. QED  BY <2>1, <3>2, <3>3
  <2>2. ASSUME NEW data \in {<<>>} \cup {<<p>> : p \in Pieces}, NEW callback \in BOOLEAN,
               HC!EndWith(data, callback)
        PROVE  HC!HcTypeOK'
    <3>1. data \in Seq(Pieces)
      <4>1. <<>> \in Seq(Pieces) /\ \A p \in Pieces : <<p>> \in Seq(Pieces)
        OBVIOUS
      <4>. QED  BY <4>1
    <3>2. chunks' \in Seq(Pieces) /\ chunks' = chunks \o data
      BY <2>2, <3>1, ConcatProperties DEF HC!HcTypeOK, HC!EndWith
    <3>3. body' \in [kind : {"unset", "filtered", "readable", "bytes"}, text : Seq(Pieces)]
      BY <2>2, <3>2, BodyTypes DEF HC!EndWith
    <3>. QED  BY <2>2, <3>2, <3>3 DEF HC!HcTypeOK, HC!EndWith
  <2>3. CASE HC!ArriveEnd \/ HC!Abort \/ HC!SpanEnds
    <3>1. Append(piped, "end") \in Seq(P)
      BY AppendFacts DEF HC!HcTypeOK
    <3>. QED  BY <2>3, <3>1 DEF HC!HcTypeOK, HC!ArriveEnd, HC!Abort, HC!SpanEnds
  <2>4. ASSUME NEW cut \in BOOLEAN, HC!PassThrough(cut)
        PROVE  HC!HcTypeOK'
    <3>1. piped' \in Seq(P) /\ Head(piped) \in P
      BY <2>4, TailFacts DEF HC!PassThrough, HC!HcTypeOK
    <3>2. CASE Head(piped) = "end"
      <4>1. body' \in [kind : {"unset", "filtered", "readable", "bytes"}, text : Seq(Pieces)]
        BY <2>4, <3>2, BodyTypes DEF HC!PassThrough, HC!HcTypeOK
      <4>. QED  BY <2>4, <3>1, <3>2, <4>1 DEF HC!HcTypeOK, HC!PassThrough
    <3>3. CASE Head(piped) # "end"
      <4>1. Append(chunks, Head(piped)) \in Seq(Pieces)
        BY <3>1, <3>3, AppendFacts DEF HC!HcTypeOK
      <4>. QED  BY <2>4, <3>1, <3>3, <4>1 DEF HC!HcTypeOK, HC!PassThrough
    <3>. QED  BY <3>2, <3>3
  <2>5. CASE UNCHANGED HC!hcVars
    BY <2>5 DEF HC!HcTypeOK, HC!hcVars
  <2>. QED  BY <2>1, <2>2, <2>3, <2>4, <2>5 DEF HC!Next
<1>. QED  BY <1>1, <1>2, PTL DEF HC!Spec

-----------------------------------------------------------------------------
(* LogTransports.                                                          *)

\* the logs in a sequence of lines or records
LogsIn(q) == {q[i].log : i \in DOMAIN q}
Distinct(q) == \A i, j \in DOMAIN q : q[i].log = q[j].log => i = j

Exported == {r.log : r \in sent}
GivenUp == spilled \cup failed \cup refused

\* Every log is somewhere.
PlaceInv ==
  \A n \in DOMAIN origin : \/ n \in LogsIn(lines) \cup LogsIn(buffer) \cup Exported \cup GivenUp
                           \/ \E b \in inFlight : n \in LogsIn(b.records)

\* No log is in two places.
OnceInv ==
  /\ Distinct(lines) /\ Distinct(buffer)
  /\ LogsIn(lines) \cap LogsIn(buffer) = {}
  /\ (LogsIn(lines) \cup LogsIn(buffer)) \cap (Exported \cup GivenUp) = {}
  /\ Exported \cap GivenUp = {}
  /\ \A b \in inFlight : LogsIn(b.records) \cap
       (LogsIn(lines) \cup LogsIn(buffer) \cup Exported \cup GivenUp) = {}
  /\ \A b, c \in inFlight : b # c => LogsIn(b.records) \cap LogsIn(c.records) = {}

\* Nothing is anywhere that was not logged.
LoggedInv ==
  /\ LogsIn(lines) \cup LogsIn(buffer) \cup Exported \cup GivenUp \subseteq DOMAIN origin
  /\ \A b \in inFlight : LogsIn(b.records) \subseteq DOMAIN origin

\* A transport that closes takes nothing more, one that is closed waits for nothing.
ClosingInv ==
  /\ transport \in LT!Transports
  /\ closing # "open" => buffer = <<>>
  /\ closing = "closed" => inFlight = {}
  /\ transport.disabled => buffer = <<>> /\ inFlight = {}

Ids == {"trace_id", "span_id", "trace_flags"}
\* the span of the log n by way of the transport t, if logs came from the spans in o
SpanOf(n, t, o) == IF t.lib = "winston" \/ t.mixin THEN o[n] ELSE NoSpan
Right(q, t, o) == \A i \in DOMAIN q : q[i].span = SpanOf(q[i].log, t, o)
LinesRight(q, t, o) ==
  \A i \in DOMAIN q : Ids \subseteq q[i].ids <=> t.mixin /\ o[q[i].log] # NoSpan

\* Every record has the span it is meant to have, and every line the ids for it.
RightInv ==
  /\ lines # <<>> => transport.lib = "pino"
  /\ LinesRight(lines, transport, origin)
  /\ Right(buffer, transport, origin)
  /\ \A b \in inFlight : Right(b.records, transport, origin)
  /\ \A r \in sent : r.span = SpanOf(r.log, transport, origin)

LtInv ==
  /\ LT!LtTypeOK /\ PlaceInv /\ OnceInv /\ LoggedInv /\ ClosingInv /\ RightInv

LEMMA LtTypes ==
  ASSUME LT!LtTypeOK
  PROVE  /\ origin \in Seq(LT!SpansOrNone) /\ Len(origin) \in Nat /\ Len(origin) <= MaxLogged
         /\ DOMAIN origin = 1..Len(origin)
         /\ lines \in Seq(LT!Lines) /\ buffer \in Seq(LT!Records)
         /\ \A b \in inFlight : b \in [records : Seq(LT!Records), awaited : BOOLEAN]
         /\ sent \subseteq LT!Records
         /\ spilled \subseteq LT!Logs /\ failed \subseteq LT!Logs /\ refused \subseteq LT!Logs
<1>1. origin \in Seq(LT!SpansOrNone) /\ Len(origin) <= MaxLogged
  BY DEF LT!LtTypeOK
<1>2. Len(origin) \in Nat /\ DOMAIN origin = 1..Len(origin)
  BY <1>1
<1>. QED  BY <1>1, <1>2 DEF LT!LtTypeOK

LEMMA PrefixOfLength ==
  ASSUME NEW S, NEW q \in Seq(S), NEW m \in 0..Len(q)
  PROVE  Len(SubSeq(q, 1, m)) = m
<1>1. 1 \in 1..Len(q) + 1 /\ m \in 1 - 1..Len(q)
  OBVIOUS
<1>2. Len(SubSeq(q, 1, m)) = m - 1 + 1
  BY <1>1, SubSeqFacts
<1>. QED  BY <1>2

LEMMA LogsAppended ==
  ASSUME NEW S, NEW q \in Seq(S), NEW e \in S
  PROVE  /\ LogsIn(Append(q, e)) = LogsIn(q) \cup {e.log}
         /\ Distinct(q) /\ e.log \notin LogsIn(q) => Distinct(Append(q, e))
         /\ \A t, o : Right(q, t, o) /\ e.span = SpanOf(e.log, t, o) => Right(Append(q, e), t, o)
         /\ \A t, o : LinesRight(q, t, o)
                        /\ (Ids \subseteq e.ids <=> t.mixin /\ o[e.log] # NoSpan)
                      => LinesRight(Append(q, e), t, o)
<1>. DEFINE r == Append(q, e)
            n == Len(q)
<1>1. /\ n \in Nat /\ DOMAIN q = 1..n /\ DOMAIN r = 1..n + 1
      /\ (\A i \in 1..n : r[i] = q[i]) /\ r[n + 1] = e
  BY AppendFacts
<1>. HIDE DEF r, n
<1>2. n + 1 \in 1..n + 1 /\ \A i \in 1..n + 1 : i \in 1..n \/ i = n + 1
  BY <1>1
<1>3. \A i \in 1..n : i \in 1..n + 1
  BY <1>1
<1>4. LogsIn(r) = LogsIn(q) \cup {e.log}
  BY <1>1, <1>2, <1>3 DEF LogsIn
<1>5. Distinct(q) /\ e.log \notin LogsIn(q) => Distinct(r)
  BY <1>1, <1>2 DEF Distinct, LogsIn
<1>6. \A t, o : Right(q, t, o) /\ e.span = SpanOf(e.log, t, o) => Right(r, t, o)
  BY <1>1, <1>2 DEF Right
<1>7. \A t, o : LinesRight(q, t, o) /\ (Ids \subseteq e.ids <=> t.mixin /\ o[e.log] # NoSpan)
              => LinesRight(r, t, o)
  BY <1>1, <1>2 DEF LinesRight
<1>. QED  BY <1>4, <1>5, <1>6, <1>7 DEF r

LEMMA LogsOfTail ==
  ASSUME NEW S, NEW q \in Seq(S), q # <<>>
  PROVE  /\ LogsIn(q) = LogsIn(Tail(q)) \cup {Head(q).log}
         /\ Distinct(q) => Distinct(Tail(q)) /\ Head(q).log \notin LogsIn(Tail(q))
         /\ \A t, o : LinesRight(q, t, o) => LinesRight(Tail(q), t, o)
<1>. DEFINE r == Tail(q)
            n == Len(q) - 1
<1>1. /\ n \in Nat /\ DOMAIN q = 1..n + 1 /\ DOMAIN r = 1..n
      /\ (\A i \in 1..n : r[i] = q[i + 1]) /\ q[1] = Head(q)
  BY TailFacts
<1>. HIDE DEF r, n
<1>2. \A i \in 1..n : i + 1 \in 1..n + 1 /\ i + 1 # 1
  BY <1>1
<1>3. 1 \in 1..n + 1 /\ \A i \in 1..n + 1 : i = 1 \/ (i - 1 \in 1..n /\ (i - 1) + 1 = i)
  BY <1>1
<1>4. LogsIn(q) = LogsIn(r) \cup {Head(q).log}
  <2>1. \A x \in LogsIn(r) : x \in LogsIn(q)
    BY <1>1, <1>2 DEF LogsIn
  <2>2. ASSUME NEW i \in 1..n + 1
        PROVE  q[i].log \in LogsIn(r) \/ q[i].log = Head(q).log
    <3>1. CASE i = 1
      BY <1>1, <3>1
    <3>2. CASE i # 1
      <4>1. i - 1 \in 1..n /\ r[i - 1] = q[i]
        <5>1. i - 1 \in 1..n /\ (i - 1) + 1 = i
          BY <1>3, <3>2
        <5>. QED  BY <1>1, <5>1
      <4>. QED  BY <1>1, <4>1 DEF LogsIn
    <3>. QED  BY <3>1, <3>2
  <2>3. Head(q).log \in LogsIn(q)
    BY <1>1, <1>3 DEF LogsIn
  <2>4. \A x \in LogsIn(q) : x \in LogsIn(r) \/ x = Head(q).log
    BY <1>1, <2>2 DEF LogsIn
  <2>. QED  BY <2>1, <2>3, <2>4
<1>5. ASSUME Distinct(q)
      PROVE  Distinct(r) /\ Head(q).log \notin LogsIn(r)
  <2>1. Distinct(r)
    <3>. SUFFICES ASSUME NEW i \in 1..n, NEW j \in 1..n, r[i].log = r[j].log PROVE i = j
      BY <1>1 DEF Distinct
    <3>1. i + 1 \in DOMAIN q /\ j + 1 \in DOMAIN q /\ q[i + 1].log = q[j + 1].log
      BY <1>1, <1>2
    <3>2. i + 1 = j + 1
      BY <1>5, <3>1 DEF Distinct
    <3>. QED  BY <1>1, <3>2
  <2>2. ASSUME NEW i \in 1..n, r[i].log = Head(q).log
        PROVE  FALSE
    <3>1. i + 1 \in DOMAIN q /\ 1 \in DOMAIN q /\ q[i + 1].log = q[1].log /\ i + 1 # 1
      BY <1>1, <1>2, <1>3, <2>2
    <3>. QED  BY <1>5, <3>1 DEF Distinct
  <2>3. Head(q).log \notin LogsIn(r)
    BY <1>1, <2>2 DEF LogsIn
  <2>. QED  BY <2>1, <2>3
<1>6. \A t, o : LinesRight(q, t, o) => LinesRight(r, t, o)
  BY <1>1, <1>2 DEF LinesRight
<1>. QED  BY <1>4, <1>5, <1>6 DEF r

\* A part of a sequence, from m to n.
LEMMA LogsOfPart ==
  ASSUME NEW S, NEW q \in Seq(S), NEW m \in 1..Len(q) + 1, NEW n \in m - 1..Len(q)
  PROVE  /\ SubSeq(q, m, n) \in Seq(S)
         /\ LogsIn(SubSeq(q, m, n)) = {q[i].log : i \in m..n}
         /\ Distinct(q) => Distinct(SubSeq(q, m, n))
         /\ \A t, o : Right(q, t, o) => Right(SubSeq(q, m, n), t, o)
<1>. DEFINE r == SubSeq(q, m, n)
            k == n - m + 1
<1>1. /\ r \in Seq(S) /\ Len(r) = k /\ k \in Nat /\ \A i \in 1..k : r[i] = q[m + i - 1]
  BY SubSeqFacts
<1>2. DOMAIN r = 1..k /\ DOMAIN q = 1..Len(q) /\ Len(q) \in Nat
  BY <1>1
<1>3. \A i \in 1..k : m + i - 1 \in m..n /\ m + i - 1 \in 1..Len(q)
  BY <1>2
<1>4. \A i \in m..n : i - m + 1 \in 1..k /\ m + (i - m + 1) - 1 = i
  BY <1>2
<1>5. \A i, j \in 1..k : m + i - 1 = m + j - 1 => i = j
  BY <1>2
<1>. HIDE DEF r, k
<1>6. LogsIn(r) = {q[i].log : i \in m..n}
  <2>1. \A x \in LogsIn(r) : \E i \in m..n : x = q[i].log
    BY <1>1, <1>2, <1>3 DEF LogsIn
  <2>2. \A i \in m..n : q[i].log \in LogsIn(r)
    <3>. SUFFICES ASSUME NEW i \in m..n PROVE \E j \in 1..k : q[i] = r[j]
      BY <1>2 DEF LogsIn
    <3>. QED  BY <1>1, <1>4
  <2>. QED  BY <2>1, <2>2
<1>7. ASSUME Distinct(q)
      PROVE  Distinct(r)
  <2>. SUFFICES ASSUME NEW i \in 1..k, NEW j \in 1..k, r[i].log = r[j].log PROVE i = j
    BY <1>2 DEF Distinct
  <2>1. /\ m + i - 1 \in DOMAIN q /\ m + j - 1 \in DOMAIN q
        /\ q[m + i - 1].log = q[m + j - 1].log
    BY <1>1, <1>2, <1>3
  <2>2. m + i - 1 = m + j - 1
    BY <1>7, <2>1 DEF Distinct
  <2>. QED  BY <1>5, <2>2
<1>8. ASSUME NEW t, NEW o, Right(q, t, o)
      PROVE  Right(r, t, o)
  BY <1>1, <1>2, <1>3, <1>8 DEF Right
<1>. QED  BY <1>1, <1>6, <1>7, <1>8 DEF r

LEMMA NothingIn ==
  LogsIn(<<>>) = {} /\ Distinct(<<>>) /\ \A t, o : Right(<<>>, t, o) /\ LinesRight(<<>>, t, o)
<1>1. DOMAIN <<>> = {}
  OBVIOUS
<1>. QED  BY <1>1 DEF LogsIn, Distinct, Right, LinesRight

LEMMA RightGrows ==
  ASSUME NEW q, NEW t, NEW o, NEW p, \A n \in LogsIn(q) : p[n] = o[n]
  PROVE  /\ Right(q, t, o) => Right(q, t, p)
         /\ LinesRight(q, t, o) => LinesRight(q, t, p)
<1>1. \A i \in DOMAIN q : p[q[i].log] = o[q[i].log]
  BY DEF LogsIn
<1>. QED  BY <1>1 DEF Right, LinesRight, SpanOf

\* A log is put into the buffer, or is given up.
Emission(n, span) ==
  \/ refused' = refused \cup {n} /\ UNCHANGED <<buffer, spilled>>
  \/ spilled' = spilled \cup {n} /\ UNCHANGED <<buffer, refused>>
  \/ /\ closing = "open" /\ ~transport.disabled
     /\ buffer' = Append(buffer, [log |-> n, span |-> span]) /\ UNCHANGED <<spilled, refused>>

LEMMA EmissionIs ==
  ASSUME NEW n, NEW active, NEW ids, NEW span
  PROVE  /\ LT!PostMessage(n, active, ids, span) =>
              Emission(n, IF Ids \subseteq ids THEN span ELSE active)
         /\ LT!NodeLoggerPostMessage(n, active) /\ ~transport.disabled => Emission(n, active)
BY DEF LT!PostMessage, LT!NodeLoggerPostMessage, LT!Emitted, LT!LoadContext, Emission, Ids

\* A log that is nowhere yet, or was the next line, is emitted.
LEMMA EmitKeeps ==
  ASSUME LtInv, NEW n \in LT!Logs, NEW span \in LT!SpansOrNone, Emission(n, span),
         UNCHANGED <<transport, ending, closing, inFlight, sent, failed>>,
         origin' \in Seq(LT!SpansOrNone), Len(origin') <= MaxLogged,
         n \in DOMAIN origin', DOMAIN origin \subseteq DOMAIN origin',
         DOMAIN origin' \subseteq DOMAIN origin \cup {n},
         \A m \in DOMAIN origin : origin'[m] = origin[m],
         lines' \in Seq(LT!Lines), Distinct(lines'), LogsIn(lines') \subseteq LogsIn(lines),
         LogsIn(lines) \subseteq LogsIn(lines') \cup {n}, n \notin LogsIn(lines'),
         lines' # <<>> => lines # <<>>, LinesRight(lines', transport, origin'),
         n \notin LogsIn(buffer) \cup Exported \cup GivenUp,
         \A b \in inFlight : n \notin LogsIn(b.records),
         span = SpanOf(n, transport, origin')
  PROVE  LtInv'
<1>. DEFINE e == [log |-> n, span |-> span]
<1>1. e \in LT!Records /\ e.log = n /\ e.span = span
  BY DEF LT!Records
<1>2. /\ buffer \in Seq(LT!Records)
      /\ spilled \subseteq LT!Logs /\ refused \subseteq LT!Logs
      /\ Distinct(buffer) /\ Right(buffer, transport, origin) /\ ClosingInv
  BY LtTypes DEF LtInv, OnceInv, RightInv
<1>. HIDE DEF e
<1>3. /\ LogsIn(buffer) \subseteq LogsIn(buffer')
      /\ LogsIn(buffer') \subseteq LogsIn(buffer) \cup {n}
      /\ GivenUp' \subseteq GivenUp \cup {n} /\ GivenUp \subseteq GivenUp'
      /\ n \in LogsIn(buffer') \cup GivenUp' /\ LogsIn(buffer') \cap GivenUp' \subseteq
                                               LogsIn(buffer) \cap GivenUp
      /\ buffer' \in Seq(LT!Records) /\ Distinct(buffer')
      /\ spilled' \subseteq LT!Logs /\ refused' \subseteq LT!Logs
      /\ Right(buffer', transport, origin')
      /\ closing # "open" \/ transport.disabled => buffer' = buffer
  <2>1. Right(buffer, transport, origin')
    <3>1. LogsIn(buffer) \subseteq DOMAIN origin
      BY DEF LtInv, LoggedInv
    <3>. QED  BY <1>2, <3>1, RightGrows
  <2>2. CASE UNCHANGED buffer /\ GivenUp' = GivenUp \cup {n}
             /\ spilled' \subseteq LT!Logs /\ refused' \subseteq LT!Logs
    BY <1>2, <2>1, <2>2
  <2>3. CASE /\ closing = "open" /\ ~transport.disabled
             /\ buffer' = Append(buffer, e) /\ UNCHANGED <<spilled, refused>>
    <3>1. /\ buffer' \in Seq(LT!Records) /\ LogsIn(buffer') = LogsIn(buffer) \cup {n}
          /\ Distinct(buffer') /\ Right(buffer', transport, origin')
      BY <1>1, <1>2, <2>1, <2>3, LogsAppended, AppendFacts
    <3>2. GivenUp' = GivenUp
      BY <2>3 DEF GivenUp
    <3>. QED  BY <1>2, <2>3, <3>1, <3>2
  <2>. QED  BY <1>2, <2>2, <2>3 DEF Emission, GivenUp, e
<1>4. LT!LtTypeOK'
  BY <1>3 DEF LtInv, LT!LtTypeOK
<1>5. Exported' = Exported
  BY DEF Exported
<1>6. PlaceInv'
  BY <1>3, <1>5 DEF LtInv, PlaceInv
<1>7. OnceInv'
  <2>1. OnceInv
    BY DEF LtInv
  <2>2. LogsIn(lines') \cap LogsIn(buffer') = {} /\ Exported' \cap GivenUp' = {}
    BY <1>3, <1>5, <2>1 DEF OnceInv
  <2>3. (LogsIn(lines') \cup LogsIn(buffer')) \cap (Exported' \cup GivenUp') = {}
    BY <1>3, <1>5, <2>1 DEF OnceInv
  <2>4. \A b \in inFlight : LogsIn(b.records) \cap
          (LogsIn(lines') \cup LogsIn(buffer') \cup Exported' \cup GivenUp') = {}
    <3>1. LogsIn(lines') \cup LogsIn(buffer') \cup Exported' \cup GivenUp' \subseteq
            LogsIn(lines) \cup LogsIn(buffer) \cup Exported \cup GivenUp \cup {n}
      BY <1>3, <1>5
    <3>. QED  BY <2>1, <3>1 DEF OnceInv
  <2>. QED  BY <1>3, <2>1, <2>2, <2>3, <2>4 DEF OnceInv
<1>8. LoggedInv'
  BY <1>3, <1>5 DEF LtInv, LoggedInv
<1>9. ClosingInv'
  BY <1>3 DEF LtInv, ClosingInv
<1>10. RightInv'
  <2>1. \A b \in inFlight : Right(b.records, transport, origin')
    BY RightGrows DEF LtInv, LoggedInv, RightInv
  <2>2. \A r \in sent : r.log \in DOMAIN origin
    BY DEF LtInv, LoggedInv, Exported
  <2>3. \A r \in sent : r.span = SpanOf(r.log, transport, origin')
    BY <2>2 DEF LtInv, RightInv, SpanOf
  <2>. QED  BY <1>3, <2>1, <2>3 DEF LtInv, RightInv
<1>. QED  BY <1>4, <1>6, <1>7, <1>8, <1>9, <1>10 DEF LtInv

\* The batches that some of the records of the buffer q are put into; rest stays.
Batches(made, q, rest) ==
  /\ \A c \in made : c \in [records : Seq(LT!Records), awaited : BOOLEAN]
  /\ \A c \in made : \A t, o : Right(q, t, o) => Right(c.records, t, o)
  /\ \A c \in made : LogsIn(c.records) \subseteq LogsIn(q) \ LogsIn(rest)
  /\ \A x \in LogsIn(q) \ LogsIn(rest) : \E c \in made : x \in LogsIn(c.records)
  /\ \A c, d \in made : c # d => LogsIn(c.records) \cap LogsIn(d.records) = {}

\* Records leave the buffer in batches, while lines may be given up.
LEMMA BatchesKeep ==
  ASSUME LtInv, NEW made, Batches(made, buffer, buffer'),
         inFlight' = inFlight \cup made, UNCHANGED <<transport, origin, sent, spilled, failed>>,
         ending' \in BOOLEAN, closing' \in {"open", "flushing", "closed", "rejected"},
         buffer' \in Seq(LT!Records), LogsIn(buffer') \subseteq LogsIn(buffer), Distinct(buffer'),
         Right(buffer', transport, origin),
         lines' \in {lines, <<>>}, refused' = refused \cup (LogsIn(lines) \ LogsIn(lines'))
  PROVE  LT!LtTypeOK' /\ PlaceInv' /\ OnceInv' /\ LoggedInv' /\ RightInv'
<1>1. /\ lines' \in Seq(LT!Lines) /\ Distinct(lines')
      /\ LogsIn(lines') \subseteq LogsIn(lines)
      /\ LinesRight(lines', transport, origin) /\ (lines' # <<>> => lines # <<>>)
  <2>1. lines \in Seq(LT!Lines) /\ <<>> \in Seq(LT!Lines)
    BY LtTypes, EmptySeq DEF LtInv
  <2>2. CASE lines' = lines
    BY <2>1, <2>2 DEF LtInv, OnceInv, RightInv
  <2>3. CASE lines' = <<>>
    BY <2>1, <2>3, NothingIn
  <2>. QED  BY <2>2, <2>3
<1>2. LogsIn(lines) \subseteq LT!Logs
  <2>. DEFINE S == LT!Lines
  <2>1. lines \in Seq(S)
    BY LtTypes DEF LtInv
  <2>. HIDE DEF S
  <2>2. \A i \in DOMAIN lines : lines[i] \in S
    BY <2>1
  <2>. QED  BY <2>2 DEF LogsIn, S, LT!Lines
<1>3. /\ GivenUp' = GivenUp \cup (LogsIn(lines) \ LogsIn(lines')) /\ Exported' = Exported
      /\ refused' \subseteq LT!Logs
  BY <1>2, LtTypes DEF GivenUp, Exported, LtInv
<1>4. LT!LtTypeOK'
  <2>1. \A b \in inFlight' : b \in [records : Seq(LT!Records), awaited : BOOLEAN]
    BY LtTypes DEF LtInv, Batches
  <2>. QED  BY <1>1, <1>3, <2>1 DEF LtInv, LT!LtTypeOK
<1>5. PlaceInv'
  <2>. SUFFICES ASSUME NEW n \in DOMAIN origin
                PROVE  \/ n \in LogsIn(lines') \cup LogsIn(buffer') \cup Exported' \cup GivenUp'
                       \/ \E b \in inFlight' : n \in LogsIn(b.records)
    BY DEF PlaceInv
  <2>1. CASE n \in LogsIn(buffer) \ LogsIn(buffer')
    BY <2>1 DEF Batches
  <2>2. CASE \E b \in inFlight : n \in LogsIn(b.records)
    BY <2>2
  <2>3. CASE n \in LogsIn(lines) \cup LogsIn(buffer') \cup Exported \cup GivenUp
    BY <1>3, <2>3
  <2>. QED  BY <2>1, <2>2, <2>3 DEF LtInv, PlaceInv
<1>6. OnceInv'
  <2>1. OnceInv
    BY DEF LtInv
  <2>2. LogsIn(lines') \cap LogsIn(buffer') = {} /\ Exported' \cap GivenUp' = {}
    BY <1>1, <1>3, <2>1 DEF OnceInv
  <2>3. (LogsIn(lines') \cup LogsIn(buffer')) \cap (Exported' \cup GivenUp') = {}
    BY <1>1, <1>3, <2>1 DEF OnceInv
  <2>4. LogsIn(lines') \cup LogsIn(buffer') \cup Exported' \cup GivenUp' \subseteq
          (LogsIn(lines) \cup Exported \cup GivenUp) \cup LogsIn(buffer')
    BY <1>1, <1>3
  <2>5. ASSUME NEW b \in inFlight'
        PROVE  LogsIn(b.records) \cap
                 (LogsIn(lines') \cup LogsIn(buffer') \cup Exported' \cup GivenUp') = {}
    <3>1. CASE b \in inFlight
      BY <2>1, <2>4, <3>1 DEF OnceInv
    <3>2. CASE b \in made
      <4>1. LogsIn(b.records) \subseteq LogsIn(buffer) \ LogsIn(buffer')
        BY <3>2 DEF Batches
      <4>2. LogsIn(buffer) \cap (LogsIn(lines) \cup Exported \cup GivenUp) = {}
        BY <2>1 DEF OnceInv
      <4>. QED  BY <2>4, <4>1, <4>2
    <3>. QED  BY <3>1, <3>2
  <2>6. ASSUME NEW b \in inFlight', NEW c \in inFlight', b # c
        PROVE  LogsIn(b.records) \cap LogsIn(c.records) = {}
    <3>1. \A d \in inFlight : LogsIn(d.records) \cap LogsIn(buffer) = {}
      BY <2>1 DEF OnceInv
    <3>2. \A d \in made : LogsIn(d.records) \subseteq LogsIn(buffer)
      BY DEF Batches
    <3>3. CASE b \in inFlight /\ c \in inFlight
      BY <2>1, <2>6, <3>3 DEF OnceInv
    <3>4. CASE b \in made /\ c \in made
      BY <2>6, <3>4 DEF Batches
    <3>5. CASE b \in inFlight /\ c \in made
      BY <3>1, <3>2, <3>5
    <3>6. CASE b \in made /\ c \in inFlight
      BY <3>1, <3>2, <3>6
    <3>. QED  BY <3>3, <3>4, <3>5, <3>6
  <2>. QED  BY <1>1, <2>2, <2>3, <2>5, <2>6 DEF OnceInv
<1>7. LoggedInv'
  BY <1>1, <1>3 DEF LtInv, LoggedInv, Batches
<1>8. RightInv'
  BY <1>1 DEF LtInv, RightInv, Batches
<1>. QED  BY <1>4, <1>5, <1>6, <1>7, <1>8

\* Arithmetic of the batches.
LEMMA DivisionFacts ==
  ASSUME NEW m \in Nat \ {0}, NEW a \in Nat
  PROVE  a \div m \in Nat /\ a % m \in 0..m - 1 /\ a = m * (a \div m) + (a % m)
<1>1. m \in Int /\ a \in Int /\ m > 0
  OBVIOUS
<1>2. a = m * (a \div m) + (a % m)
  BY <1>1
<1>3. a % m \in 0..m - 1
  OBVIOUS
<1>4. a \div m \in Nat
  OBVIOUS
<1>. QED  BY <1>2, <1>3, <1>4

\* Every place belongs to a batch.
LEMMA BatchOfPlace ==
  ASSUME NEW m \in Nat \ {0}, NEW j \in Nat \ {0}
  PROVE  \E i \in 1..j : (i - 1) % m = 0 /\ j <= i + m - 1
<1>. DEFINE q == (j - 1) \div m
            r == (j - 1) % m
            i == m * q + 1
<1>1. q \in Nat /\ r \in 0..m - 1 /\ j - 1 = m * q + r
  <2>1. j - 1 \in Nat
    OBVIOUS
  <2>. QED  BY <2>1, DivisionFacts
<1>. HIDE DEF q, r
<1>2. m * q \in Nat
  BY <1>1
<1>3. (m * q) % m = 0
  <2>1. m \in Int /\ q \in Int /\ m > 0
    BY <1>1
  <2>. QED  BY <2>1
<1>4. i - 1 = m * q
  BY <1>2
<1>5. i \in 1..j /\ j <= i + m - 1
  BY <1>1, <1>2
<1>. QED  BY <1>3, <1>4, <1>5

\* Batches begin at least m places from each other.
LEMMA BatchesApart ==
  ASSUME NEW m \in Nat \ {0}, NEW i \in Nat \ {0}, NEW k \in Nat \ {0}, i < k,
         (i - 1) % m = 0, (k - 1) % m = 0
  PROVE  i + m - 1 < k
<1>1. PICK p \in Nat : i - 1 = m * p
  <2>1. i - 1 \in Nat
    OBVIOUS
  <2>2. (i - 1) \div m \in Nat /\ i - 1 = m * ((i - 1) \div m) + ((i - 1) % m)
    BY <2>1, DivisionFacts
  <2>. DEFINE d == (i - 1) \div m
  <2>3. m * d \in Nat
    BY <2>2
  <2>. HIDE DEF d
  <2>4. d \in Nat /\ i - 1 = m * d
    BY <2>2, <2>3 DEF d
  <2>. QED  BY <2>4
<1>2. PICK q \in Nat : k - 1 = m * q
  <2>1. k - 1 \in Nat
    OBVIOUS
  <2>2. (k - 1) \div m \in Nat /\ k - 1 = m * ((k - 1) \div m) + ((k - 1) % m)
    BY <2>1, DivisionFacts
  <2>. DEFINE d == (k - 1) \div m
  <2>3. m * d \in Nat
    BY <2>2
  <2>. HIDE DEF d
  <2>4. d \in Nat /\ k - 1 = m * d
    BY <2>2, <2>3 DEF d
  <2>. QED  BY <2>4
<1>3. p < q
  BY <1>1, <1>2
<1>4. m * q >= m * p + m
  BY <1>3
<1>. QED  BY <1>1, <1>2, <1>4

LEMMA ShutdownBatches ==
  ASSUME LtInv, LT!Shutdown
  PROVE  \E made : /\ Batches(made, buffer, buffer') /\ inFlight' = inFlight \cup made
                  /\ buffer' = <<>> /\ (buffer = <<>> => made = {})
<1>. DEFINE n == Len(buffer)
            m == BufferSize
            Starts == {i \in DOMAIN buffer : (i - 1) % m = 0}
            End(i) == IF i + m - 1 < n THEN i + m - 1 ELSE n
            Part(i) == SubSeq(buffer, i, End(i))
            made == {[records |-> Part(i), awaited |-> TRUE] : i \in Starts}
<1>1. inFlight' = inFlight \cup made /\ buffer' = <<>>
  BY DEF LT!Shutdown
<1>2. /\ buffer \in Seq(LT!Records) /\ Distinct(buffer)
      /\ n \in Nat /\ DOMAIN buffer = 1..n /\ m \in Nat \ {0}
  BY LtTypes, LogAssumption DEF LtInv, OnceInv
<1>. HIDE DEF n, m
<1>3. \A i \in Starts : /\ i \in 1..n /\ i \in 1..n + 1 /\ i \in Nat \ {0} /\ (i - 1) % m = 0
                       /\ End(i) \in i..n /\ End(i) \in i - 1..n /\ End(i) <= i + m - 1
  BY <1>2
<1>4. \A j \in 1..n : \A i \in 1..j : (i - 1) % m = 0 /\ j <= i + m - 1 =>
                                    i \in Starts /\ j \in i..End(i)
  <2>. SUFFICES ASSUME NEW j \in 1..n, NEW i \in 1..j, (i - 1) % m = 0, j <= i + m - 1
                PROVE  i \in Starts /\ j \in i..End(i)
    OBVIOUS
  <2>1. i \in Starts
    BY <1>2
  <2>. HIDE DEF Starts
  <2>2. j \in i..End(i)
    BY <1>2
  <2>. QED  BY <2>1, <2>2
<1>. HIDE DEF Starts, End
<1>5. ASSUME NEW i \in Starts
      PROVE  /\ Part(i) \in Seq(LT!Records)
             /\ LogsIn(Part(i)) = {buffer[j].log : j \in i..End(i)}
             /\ \A t, o : Right(buffer, t, o) => Right(Part(i), t, o)
  <2>. DEFINE e == End(i)
  <2>1. i \in 1..Len(buffer) + 1 /\ e \in i - 1..Len(buffer)
    BY <1>3 DEF n
  <2>. HIDE DEF e
  <2>2. /\ SubSeq(buffer, i, e) \in Seq(LT!Records)
        /\ LogsIn(SubSeq(buffer, i, e)) = {buffer[j].log : j \in i..e}
        /\ \A t, o : Right(buffer, t, o) => Right(SubSeq(buffer, i, e), t, o)
    BY <1>2, <2>1, LogsOfPart
  <2>. QED  BY <2>2 DEF e
<1>6. ASSUME NEW j \in 1..n
      PROVE  \E i \in Starts : j \in i..End(i)
  <2>1. j \in Nat \ {0}
    BY <1>2
  <2>2. PICK i \in 1..j : (i - 1) % m = 0 /\ j <= i + m - 1
    BY <1>2, <2>1, BatchOfPlace
  <2>. QED  BY <1>4, <2>2
<1>7. ASSUME NEW i \in Starts, NEW k \in Starts, i # k
      PROVE  LogsIn(Part(i)) \cap LogsIn(Part(k)) = {}
  <2>. HIDE DEF Part
  <2>1. ASSUME NEW x \in Starts, NEW y \in Starts, x < y,
               NEW u \in x..End(x), NEW v \in y..End(y)
        PROVE  buffer[u].log # buffer[v].log
    <3>1. x + m - 1 < y
      BY <1>2, <1>3, <2>1, BatchesApart
    <3>2. /\ x \in 1..n /\ End(x) \in x..n /\ End(x) <= x + m - 1
          /\ y \in 1..n /\ End(y) \in y..n
      BY <1>3
    <3>3. u \in 1..n /\ v \in 1..n /\ u # v
      BY <1>2, <3>1, <3>2
    <3>. QED  BY <1>2, <3>3 DEF Distinct
  <2>2. i < k \/ k < i
    BY <1>3, <1>7
  <2>. QED  BY <1>5, <2>1, <2>2
<1>8. Batches(made, buffer, <<>>)
  <2>. HIDE DEF Part
  <2>1. \A c \in made : \E i \in Starts : c = [records |-> Part(i), awaited |-> TRUE]
    OBVIOUS
  <2>2. ASSUME NEW i \in Starts
        PROVE  \E c \in made : c.records = Part(i)
    <3>1. [records |-> Part(i), awaited |-> TRUE] \in made
      OBVIOUS
    <3>. HIDE DEF made
    <3>. QED  BY <3>1
  <2>. HIDE DEF made
  <2>3. ASSUME NEW c \in made
        PROVE  c \in [records : Seq(LT!Records), awaited : BOOLEAN]
    <3>1. PICK i \in Starts : c = [records |-> Part(i), awaited |-> TRUE]
      BY <2>1
    <3>. QED  BY <1>5, <3>1
  <2>4. \A c \in made : \A t, o : Right(buffer, t, o) => Right(c.records, t, o)
    BY <1>5, <2>1
  <2>5. \A c \in made : LogsIn(c.records) \subseteq LogsIn(buffer) \ LogsIn(<<>>)
    <3>1. \A i \in Starts : LogsIn(Part(i)) \subseteq LogsIn(buffer)
      <4>1. \A i \in Starts : \A j \in i..End(i) : j \in 1..n
        BY <1>2, <1>3
      <4>2. \A j \in 1..n : buffer[j].log \in LogsIn(buffer)
        BY <1>2 DEF LogsIn
      <4>. QED  BY <1>5, <4>1, <4>2
    <3>. QED  BY <2>1, <3>1, NothingIn
  <2>6. ASSUME NEW x \in LogsIn(buffer)
        PROVE  \E c \in made : x \in LogsIn(c.records)
    <3>1. PICK j \in 1..n : x = buffer[j].log
      BY <1>2 DEF LogsIn
    <3>2. PICK i \in Starts : j \in i..End(i)
      BY <1>6
    <3>. QED  BY <1>5, <2>2, <3>1, <3>2
  <2>7. ASSUME NEW c \in made, NEW d \in made, c # d
        PROVE  LogsIn(c.records) \cap LogsIn(d.records) = {}
    <3>1. PICK i \in Starts : c = [records |-> Part(i), awaited |-> TRUE]
      BY <2>1
    <3>2. PICK k \in Starts : d = [records |-> Part(k), awaited |-> TRUE]
      BY <2>1
    <3>3. i # k /\ c.records = Part(i) /\ d.records = Part(k)
      BY <2>7, <3>1, <3>2
    <3>. QED  BY <1>7, <3>3
  <2>. QED  BY <2>3, <2>4, <2>5, <2>6, <2>7 DEF Batches
<1>9. buffer = <<>> => made = {}
  <2>1. buffer = <<>> => Starts = {}
    BY DEF Starts
  <2>. QED  BY <2>1
<1>. HIDE DEF made
<1>. QED  BY <1>1, <1>8, <1>9

LEMMA SendBatchMoves ==
  ASSUME LtInv, LT!SendBatch
  PROVE  \E made : /\ Batches(made, buffer, buffer') /\ inFlight' = inFlight \cup made
                  /\ buffer' \in Seq(LT!Records) /\ LogsIn(buffer') \subseteq LogsIn(buffer)
                  /\ Distinct(buffer') /\ Right(buffer', transport, origin)
<1>. DEFINE n == Len(buffer)
            m == IF n > BufferSize THEN BufferSize ELSE n
            first == SubSeq(buffer, 1, m)
            rest == SubSeq(buffer, m + 1, n)
            made == {[records |-> first, awaited |-> FALSE]}
<1>1. /\ buffer \in Seq(LT!Records) /\ n \in Nat /\ DOMAIN buffer = 1..n
      /\ Distinct(buffer) /\ Right(buffer, transport, origin)
  BY LtTypes DEF LtInv, OnceInv, RightInv
<1>2. m \in 0..n
  BY <1>1, LogAssumption
<1>. HIDE DEF m
<1>3. 1 \in 1..n + 1 /\ m \in 1 - 1..n /\ m + 1 \in 1..n + 1 /\ n \in (m + 1) - 1..n
  BY <1>1, <1>2
<1>4. /\ first \in Seq(LT!Records) /\ LogsIn(first) = {buffer[i].log : i \in 1..m}
      /\ \A t, o : Right(buffer, t, o) => Right(first, t, o)
  BY <1>1, <1>3, LogsOfPart
<1>5. /\ rest \in Seq(LT!Records) /\ LogsIn(rest) = {buffer[i].log : i \in m + 1..n}
      /\ Distinct(rest) /\ Right(rest, transport, origin)
  BY <1>1, <1>3, LogsOfPart
<1>6. Len(first) = m
  BY <1>1, <1>2, PrefixOfLength
<1>7. inFlight' = inFlight \cup made /\ buffer' = rest
  BY <1>6 DEF LT!SendBatch, LT!Batch, m
<1>. HIDE DEF n, first, rest
<1>8. LogsIn(buffer) = LogsIn(first) \cup LogsIn(rest)
  <2>1. \A i \in 1..n : i \in 1..m \/ i \in m + 1..n
    BY <1>1, <1>2
  <2>2. (\A i \in 1..m : i \in 1..n) /\ (\A i \in m + 1..n : i \in 1..n)
    BY <1>1, <1>2
  <2>. QED  BY <1>1, <1>4, <1>5, <2>1, <2>2 DEF LogsIn
<1>9. LogsIn(first) \cap LogsIn(rest) = {}
  <2>1. ASSUME NEW i \in 1..m, NEW j \in m + 1..n
        PROVE  buffer[i].log # buffer[j].log
    <3>1. i \in 1..n /\ j \in 1..n /\ i # j
      BY <1>1, <1>2
    <3>. QED  BY <1>1, <3>1 DEF Distinct
  <2>. QED  BY <1>4, <1>5, <2>1
<1>10. Batches(made, buffer, rest)
  <2>1. /\ \A c \in made : c.records = first
        /\ \A c \in made : c \in [records : Seq(LT!Records), awaited : BOOLEAN]
        /\ \E c \in made : c.records = first
        /\ \A c, d \in made : c = d
    BY <1>4
  <2>. HIDE DEF made
  <2>. QED  BY <1>4, <1>8, <1>9, <2>1 DEF Batches
<1>. HIDE DEF made
<1>. QED  BY <1>5, <1>7, <1>8, <1>10

LEMMA LtInitial == LT!LtInit => LtInv
<1>. SUFFICES ASSUME LT!LtInit PROVE LtInv
  OBVIOUS
<1>1. /\ transport \in LT!Transports /\ ending = FALSE /\ closing = "open"
      /\ origin = <<>> /\ lines = <<>> /\ buffer = <<>> /\ inFlight = {} /\ sent = {}
      /\ spilled = {} /\ failed = {} /\ refused = {}
  BY DEF LT!LtInit, LT!InitWith
<1>2. (\A S : <<>> \in Seq(S)) /\ Len(<<>>) = 0 /\ DOMAIN <<>> = {}
  BY EmptySeq
<1>3. /\ LogsIn(lines) = {} /\ LogsIn(buffer) = {} /\ Exported = {} /\ GivenUp = {}
      /\ DOMAIN origin = {}
  BY <1>1, <1>2, NothingIn DEF Exported, GivenUp
<1>4. LT!LtTypeOK
  <2>1. transport \in [lib : {"winston", "pino"}, pkg : {"otel", "node-logger"},
                       disabled : BOOLEAN, mixin : BOOLEAN]
    BY <1>1 DEF LT!Transports
  <2>2. Len(origin) <= MaxLogged
    BY <1>1, <1>2, LogAssumption
  <2>3. {spilled, failed, refused} \subseteq SUBSET LT!Logs /\ sent \subseteq LT!Records
    BY <1>1
  <2>. QED  BY <1>1, <1>2, <2>1, <2>2, <2>3 DEF LT!LtTypeOK
<1>5. PlaceInv /\ LoggedInv
  BY <1>1, <1>3 DEF PlaceInv, LoggedInv
<1>6. OnceInv
  BY <1>1, <1>3, NothingIn DEF OnceInv
<1>7. ClosingInv
  BY <1>1 DEF ClosingInv
<1>8. RightInv
  BY <1>1, NothingIn DEF RightInv
<1>. QED  BY <1>4, <1>5, <1>6, <1>7, <1>8 DEF LtInv

\* What a new log changes.
LEMMA NewLog ==
  ASSUME LtInv, NEW span \in LT!SpansOrNone, Len(origin) < MaxLogged,
         origin' = Append(origin, span), NEW n, n = Len(origin) + 1
  PROVE  /\ n \in LT!Logs /\ Len(origin') = n /\ Len(origin') <= MaxLogged
         /\ origin' \in Seq(LT!SpansOrNone)
         /\ DOMAIN origin' = DOMAIN origin \cup {n} /\ origin'[n] = span
         /\ \A m \in DOMAIN origin : origin'[m] = origin[m]
         /\ n \notin LogsIn(lines) \cup LogsIn(buffer) \cup Exported \cup GivenUp
         /\ \A b \in inFlight : n \notin LogsIn(b.records)
         /\ LinesRight(lines, transport, origin')
<1>1. /\ origin \in Seq(LT!SpansOrNone) /\ Len(origin) \in Nat /\ DOMAIN origin = 1..Len(origin)
  BY LtTypes DEF LtInv
<1>2. /\ origin' \in Seq(LT!SpansOrNone) /\ Len(origin') = n
      /\ \A m \in 1..n : origin'[m] = IF m <= Len(origin) THEN origin[m] ELSE span
  BY <1>1, AppendFacts
<1>3. DOMAIN origin' = 1..n
  BY <1>2
<1>4. n \notin DOMAIN origin
  BY <1>1
<1>5. /\ LogsIn(lines) \cup LogsIn(buffer) \cup Exported \cup GivenUp \subseteq DOMAIN origin
      /\ \A b \in inFlight : LogsIn(b.records) \subseteq DOMAIN origin
  BY DEF LtInv, LoggedInv
<1>6. \A m \in DOMAIN origin : origin'[m] = origin[m]
  BY <1>1, <1>2
<1>7. LinesRight(lines, transport, origin')
  <2>1. LinesRight(lines, transport, origin) /\ \A m \in LogsIn(lines) : origin'[m] = origin[m]
    BY <1>5, <1>6 DEF LtInv, RightInv
  <2>. QED  BY <2>1, RightGrows
<1>8. n \in LT!Logs /\ n <= MaxLogged
  BY <1>1, LogAssumption DEF LT!Logs
<1>9. DOMAIN origin' = DOMAIN origin \cup {n} /\ origin'[n] = span
  BY <1>1, <1>2, <1>3
<1>. QED  BY <1>2, <1>4, <1>5, <1>6, <1>7, <1>8, <1>9

LEMMA WinstonKeeps ==
  ASSUME LtInv, NEW span \in LT!SpansOrNone,
         LT!WinstonLog(span) \/ LT!NodeLoggerWinstonLog(span)
  PROVE  LtInv'
<1>. DEFINE n == Len(origin) + 1
<1>1. /\ transport.lib = "winston" /\ Len(origin) < MaxLogged /\ origin' = Append(origin, span)
      /\ UNCHANGED <<transport, lines, ending, closing, inFlight, sent, failed>>
  BY DEF LT!WinstonLog, LT!NodeLoggerWinstonLog
<1>2. /\ n \in LT!Logs /\ Len(origin') = n /\ Len(origin') <= MaxLogged
      /\ origin' \in Seq(LT!SpansOrNone)
      /\ DOMAIN origin' = DOMAIN origin \cup {n} /\ origin'[n] = span
      /\ \A m \in DOMAIN origin : origin'[m] = origin[m]
      /\ n \notin LogsIn(lines) \cup LogsIn(buffer) \cup Exported \cup GivenUp
      /\ \A b \in inFlight : n \notin LogsIn(b.records)
      /\ LinesRight(lines, transport, origin')
  BY <1>1, NewLog
<1>. HIDE DEF n
<1>3. Emission(n, span)
  <2>1. CASE LT!WinstonLog(span)
    <3>1. LT!PostMessage(n, span, {}, NoSpan)
      BY <1>2, <2>1 DEF LT!WinstonLog
    <3>2. ~(Ids \subseteq {})
      BY DEF Ids
    <3>. QED  BY <3>1, <3>2, EmissionIs
  <2>2. CASE LT!NodeLoggerWinstonLog(span)
    <3>1. LT!NodeLoggerPostMessage(n, span) /\ transport.pkg = "node-logger"
      BY <1>2, <2>2 DEF LT!NodeLoggerWinstonLog
    <3>2. ~transport.disabled
      BY <3>1 DEF LtInv, ClosingInv, LT!Transports
    <3>. QED  BY <3>1, <3>2, EmissionIs
  <2>. QED  BY <2>1, <2>2
<1>4. span = SpanOf(n, transport, origin')
  BY <1>1, <1>2 DEF SpanOf
<1>5. lines' \in Seq(LT!Lines) /\ Distinct(lines')
  BY <1>1, LtTypes DEF LtInv, OnceInv
<1>6. LogsIn(lines') = LogsIn(lines)
  BY <1>1
<1>. QED  BY <1>1, <1>2, <1>3, <1>4, <1>5, <1>6, EmitKeeps

\* What is known of the next line.
LEMMA NextLine ==
  ASSUME LtInv, lines # <<>>, lines' = Tail(lines), NEW n, n = Head(lines).log
  PROVE  /\ n \in LT!Logs /\ n \in DOMAIN origin /\ Head(lines) \in LT!Lines
         /\ lines' \in Seq(LT!Lines) /\ Distinct(lines')
         /\ LogsIn(lines) = LogsIn(lines') \cup {n} /\ n \notin LogsIn(lines')
         /\ LinesRight(lines', transport, origin)
         /\ n \notin LogsIn(buffer) \cup Exported \cup GivenUp
         /\ \A b \in inFlight : n \notin LogsIn(b.records)
         /\ SpanOf(n, transport, origin) \in LT!SpansOrNone
         /\ transport.lib = "pino"
         /\ Ids \subseteq Head(lines).ids <=> transport.mixin /\ origin[n] # NoSpan
<1>1. lines \in Seq(LT!Lines) /\ Distinct(lines) /\ LinesRight(lines, transport, origin)
  BY LtTypes DEF LtInv, OnceInv, RightInv
<1>2. /\ lines' \in Seq(LT!Lines) /\ Head(lines) \in LT!Lines
      /\ Head(lines) = lines[1] /\ 1 \in DOMAIN lines
  BY <1>1, TailFacts
<1>3. /\ LogsIn(lines) = LogsIn(lines') \cup {n} /\ n \notin LogsIn(lines') /\ Distinct(lines')
      /\ LinesRight(lines', transport, origin)
  BY <1>1, LogsOfTail
<1>4. n \in LogsIn(lines)
  BY <1>3
<1>5. /\ n \notin LogsIn(buffer) \cup Exported \cup GivenUp
      /\ \A b \in inFlight : n \notin LogsIn(b.records)
  BY <1>4 DEF LtInv, OnceInv
<1>6. n \in DOMAIN origin /\ n \in LT!Logs
  BY <1>2, <1>4 DEF LtInv, LoggedInv, LT!Lines
<1>7. SpanOf(n, transport, origin) \in LT!SpansOrNone
  <2>1. origin[n] \in LT!SpansOrNone
    <3>. DEFINE S == LT!SpansOrNone
    <3>1. origin \in Seq(S)
      BY LtTypes DEF LtInv
    <3>. HIDE DEF S
    <3>2. origin[n] \in S
      BY <1>6, <3>1
    <3>. QED  BY <3>2 DEF S
  <2>. QED  BY <2>1 DEF SpanOf, LT!SpansOrNone
<1>8. Ids \subseteq Head(lines).ids <=> transport.mixin /\ origin[n] # NoSpan
  BY <1>1, <1>2 DEF LinesRight
<1>. QED  BY <1>2, <1>3, <1>5, <1>6, <1>7, <1>8 DEF LtInv, RightInv

LEMMA LineKeeps ==
  ASSUME LtInv, LT!PinoLine \/ LT!NodeLoggerPinoLine \/ LT!PinoTooLate
  PROVE  LtInv'
<1>. DEFINE n == Head(lines).log
            span == SpanOf(n, transport, origin)
<1>1. /\ lines # <<>> /\ lines' = Tail(lines)
      /\ UNCHANGED <<transport, origin, ending, closing, inFlight, sent, failed>>
  BY DEF LT!PinoLine, LT!NodeLoggerPinoLine, LT!PinoTooLate
<1>2. /\ n \in LT!Logs /\ n \in DOMAIN origin
      /\ lines' \in Seq(LT!Lines) /\ Distinct(lines')
      /\ LogsIn(lines) = LogsIn(lines') \cup {n} /\ n \notin LogsIn(lines')
      /\ LinesRight(lines', transport, origin)
      /\ n \notin LogsIn(buffer) \cup Exported \cup GivenUp
      /\ \A b \in inFlight : n \notin LogsIn(b.records)
      /\ span \in LT!SpansOrNone /\ transport.lib = "pino"
      /\ Ids \subseteq Head(lines).ids <=> transport.mixin /\ origin[n] # NoSpan
  BY <1>1, NextLine
<1>3. Emission(n, span)
  <2>1. CASE LT!PinoLine
    <3>1. LT!PostMessage(n, NoSpan, Head(lines).ids, origin[n])
      BY <2>1 DEF LT!PinoLine
    <3>2. span = IF Ids \subseteq Head(lines).ids THEN origin[n] ELSE NoSpan
      BY <1>2 DEF SpanOf
    <3>. HIDE DEF n, span
    <3>. QED  BY <3>1, <3>2, EmissionIs
  <2>2. CASE LT!NodeLoggerPinoLine
    <3>1. LT!NodeLoggerPostMessage(n, NoSpan) /\ transport.pkg = "node-logger"
      BY <2>2 DEF LT!NodeLoggerPinoLine
    <3>2. ~transport.disabled /\ ~transport.mixin
      BY <3>1 DEF LtInv, ClosingInv, LT!Transports
    <3>3. span = NoSpan
      BY <1>2, <3>2 DEF SpanOf
    <3>. HIDE DEF n, span
    <3>. QED  BY <3>1, <3>2, <3>3, EmissionIs
  <2>3. CASE LT!PinoTooLate
    BY <2>3 DEF LT!PinoTooLate, Emission
  <2>. QED  BY <2>1, <2>2, <2>3
<1>4. origin \in Seq(LT!SpansOrNone) /\ Len(origin) <= MaxLogged
  BY LtTypes DEF LtInv
<1>5. span = SpanOf(n, transport, origin') /\ LinesRight(lines', transport, origin')
  BY <1>1, <1>2
<1>. HIDE DEF n, span
<1>. QED  BY <1>1, <1>2, <1>3, <1>4, <1>5, EmitKeeps

LEMMA PinoLogKeeps ==
  ASSUME LtInv, NEW span \in LT!SpansOrNone, NEW ids \in {{}, {"trace_id"}}, LT!PinoLog(span, ids)
  PROVE  LtInv'
<1>. DEFINE n == Len(origin) + 1
            e == [log |-> n, ids |-> ids \cup LT!Mixin(span)]
<1>1. /\ transport.lib = "pino" /\ Len(origin) < MaxLogged /\ origin' = Append(origin, span)
      /\ UNCHANGED <<transport, ending, closing, buffer, inFlight, sent, spilled, failed, refused>>
  BY DEF LT!PinoLog
<1>2. /\ n \in LT!Logs /\ Len(origin') = n /\ Len(origin') <= MaxLogged
      /\ origin' \in Seq(LT!SpansOrNone)
      /\ DOMAIN origin' = DOMAIN origin \cup {n} /\ origin'[n] = span
      /\ \A m \in DOMAIN origin : origin'[m] = origin[m]
      /\ n \notin LogsIn(lines) \cup LogsIn(buffer) \cup Exported \cup GivenUp
      /\ \A b \in inFlight : n \notin LogsIn(b.records)
      /\ LinesRight(lines, transport, origin')
  BY <1>1, NewLog
<1>3. lines' = Append(lines, e)
  BY <1>2 DEF LT!PinoLog
<1>4. e \in LT!Lines /\ e.log = n
  BY <1>2 DEF LT!Lines, LT!Mixin
<1>5. Ids \subseteq e.ids <=> transport.mixin /\ origin'[e.log] # NoSpan
  <2>1. ~(Ids \subseteq ids) /\ ~(Ids \subseteq ids \cup {})
    BY DEF Ids
  <2>. QED  BY <1>2, <2>1 DEF LT!Mixin, Ids
<1>. HIDE DEF e, n
<1>6. /\ lines \in Seq(LT!Lines) /\ Distinct(lines)
  BY LtTypes DEF LtInv, OnceInv
<1>7. /\ lines' \in Seq(LT!Lines) /\ LogsIn(lines') = LogsIn(lines) \cup {n} /\ Distinct(lines')
      /\ LinesRight(lines', transport, origin')
  BY <1>2, <1>3, <1>4, <1>5, <1>6, LogsAppended, AppendFacts
<1>8. Exported' = Exported /\ GivenUp' = GivenUp
  BY <1>1 DEF Exported, GivenUp
<1>9. LT!LtTypeOK'
  BY <1>1, <1>2, <1>7 DEF LtInv, LT!LtTypeOK
<1>10. PlaceInv'
  BY <1>1, <1>2, <1>7, <1>8 DEF LtInv, PlaceInv
<1>11. OnceInv'
  <2>1. OnceInv
    BY DEF LtInv
  <2>2. LogsIn(lines') \cap (LogsIn(buffer) \cup Exported \cup GivenUp) = {}
    BY <1>2, <1>7, <2>1 DEF OnceInv
  <2>3. \A b \in inFlight : LogsIn(b.records) \cap
          (LogsIn(lines') \cup LogsIn(buffer) \cup Exported \cup GivenUp) = {}
    BY <1>2, <1>7, <2>1 DEF OnceInv
  <2>. QED  BY <1>1, <1>7, <1>8, <2>1, <2>2, <2>3 DEF OnceInv
<1>12. LoggedInv'
  BY <1>1, <1>2, <1>7, <1>8 DEF LtInv, LoggedInv
<1>13. ClosingInv'
  BY <1>1 DEF LtInv, ClosingInv
<1>14. RightInv'
  <2>1. Right(buffer, transport, origin') /\ \A b \in inFlight : Right(b.records, transport, origin')
    BY <1>2, RightGrows DEF LtInv, LoggedInv, RightInv
  <2>2. \A r \in sent : r.log \in DOMAIN origin
    BY DEF LtInv, LoggedInv, Exported
  <2>3. \A r \in sent : r.span = SpanOf(r.log, transport, origin')
    BY <1>2, <2>2 DEF LtInv, RightInv, SpanOf
  <2>. QED  BY <1>1, <1>7, <2>1, <2>3 DEF RightInv
<1>. QED  BY <1>9, <1>10, <1>11, <1>12, <1>13, <1>14 DEF LtInv

LEMMA SendBatchKeeps ==
  ASSUME LtInv, LT!SendBatch
  PROVE  LtInv'
<1>1. /\ closing = "open" /\ buffer # <<>>
      /\ UNCHANGED <<transport, origin, lines, ending, closing, sent, spilled, failed, refused>>
  BY DEF LT!SendBatch
<1>2. PICK made : /\ Batches(made, buffer, buffer') /\ inFlight' = inFlight \cup made
                  /\ buffer' \in Seq(LT!Records) /\ LogsIn(buffer') \subseteq LogsIn(buffer)
                  /\ Distinct(buffer') /\ Right(buffer', transport, origin)
  BY SendBatchMoves
<1>3. ending \in BOOLEAN /\ closing \in {"open", "flushing", "closed", "rejected"}
  BY DEF LtInv, LT!LtTypeOK
<1>4. refused' = refused \cup (LogsIn(lines) \ LogsIn(lines'))
  BY <1>1
<1>5. LT!LtTypeOK' /\ PlaceInv' /\ OnceInv' /\ LoggedInv' /\ RightInv'
  BY <1>1, <1>2, <1>3, <1>4, BatchesKeep
<1>6. ClosingInv'
  BY <1>1 DEF LtInv, ClosingInv
<1>. QED  BY <1>5, <1>6 DEF LtInv

LEMMA CloseKeeps ==
  ASSUME LtInv, LT!WinstonClose \/ \E t \in BOOLEAN : LT!PinoClose(t)
  PROVE  LtInv'
<1>1. /\ LT!Shutdown /\ closing = "open"
      /\ UNCHANGED <<transport, origin, sent, spilled, failed>>
      /\ ending' \in BOOLEAN
      /\ lines' \in {lines, <<>>}
      /\ refused' = refused \cup (LogsIn(lines) \ LogsIn(lines'))
  <2>1. ending \in BOOLEAN
    BY DEF LtInv, LT!LtTypeOK
  <2>2. CASE LT!WinstonClose
    BY <2>2 DEF LT!WinstonClose
  <2>3. CASE \E t \in BOOLEAN : LT!PinoClose(t)
    <3>1. /\ LT!Shutdown /\ closing = "open" /\ lines' = <<>>
          /\ UNCHANGED <<transport, origin, ending, sent, spilled, failed>>
          /\ refused' = refused \cup {lines[i].log : i \in DOMAIN lines}
      BY <2>3 DEF LT!PinoClose
    <3>. QED  BY <2>1, <3>1, NothingIn DEF LogsIn
  <2>. QED  BY <2>2, <2>3
<1>2. PICK made : /\ Batches(made, buffer, buffer') /\ inFlight' = inFlight \cup made
                  /\ buffer' = <<>> /\ (buffer = <<>> => made = {})
  BY <1>1, ShutdownBatches
<1>3. closing' = IF transport.disabled THEN "closed" ELSE "flushing"
  BY <1>1 DEF LT!Shutdown
<1>4. /\ buffer' \in Seq(LT!Records) /\ LogsIn(buffer') \subseteq LogsIn(buffer)
      /\ Distinct(buffer') /\ Right(buffer', transport, origin)
  BY <1>2, NothingIn, EmptySeq
<1>5. LT!LtTypeOK' /\ PlaceInv' /\ OnceInv' /\ LoggedInv' /\ RightInv'
  BY <1>1, <1>2, <1>3, <1>4, BatchesKeep
<1>6. ClosingInv'
  BY <1>1, <1>2, <1>3 DEF LtInv, ClosingInv
<1>. QED  BY <1>5, <1>6 DEF LtInv

LEMMA ExportEndsKeeps ==
  ASSUME LtInv, NEW b \in inFlight, NEW ok \in BOOLEAN, LT!ExportEnds(b, ok)
  PROVE  LtInv'
<1>. DEFINE F == LogsIn(b.records)
            S == LT!ToSet(b.records)
<1>1. /\ inFlight' = inFlight \ {b}
      /\ UNCHANGED <<transport, origin, lines, ending, buffer, spilled, refused>>
      /\ \/ sent' = sent \cup S /\ UNCHANGED <<failed, closing>>
         \/ /\ failed' = failed \cup {r.log : r \in S} /\ sent' = sent
            /\ closing' = closing \/ (closing = "flushing" /\ closing' = "rejected")
  <2>1. CASE ok
    BY <2>1 DEF LT!ExportEnds
  <2>2. CASE ~ok
    BY <2>2 DEF LT!ExportEnds
  <2>. QED  BY <2>1, <2>2
<1>2. F = {r.log : r \in S} /\ \A r \in S : r \in LT!Records /\ r.span = SpanOf(r.log, transport, origin)
  <2>. DEFINE R == LT!Records
  <2>1. b.records \in Seq(R) /\ Right(b.records, transport, origin)
    BY LtTypes DEF LtInv, RightInv
  <2>2. S = {b.records[i] : i \in DOMAIN b.records}
    BY DEF LT!ToSet
  <2>. HIDE DEF R, S
  <2>3. \A r \in S : r \in R
    BY <2>1, <2>2
  <2>. QED  BY <2>1, <2>2, <2>3 DEF LogsIn, Right, R
<1>3. F \subseteq LT!Logs /\ F \subseteq DOMAIN origin
  BY <1>2 DEF LT!Records, LtInv, LoggedInv
<1>. HIDE DEF F, S
<1>4. \/ Exported' = Exported \cup F /\ GivenUp' = GivenUp
      \/ Exported' = Exported /\ GivenUp' = GivenUp \cup F
  BY <1>1, <1>2 DEF Exported, GivenUp
<1>5. LT!LtTypeOK'
  <2>1. failed' \subseteq LT!Logs /\ sent' \subseteq LT!Records
    BY <1>1, <1>2, <1>3, LtTypes DEF LtInv
  <2>2. closing' \in {"open", "flushing", "closed", "rejected"}
    BY <1>1 DEF LtInv, LT!LtTypeOK
  <2>. QED  BY <1>1, <2>1, <2>2 DEF LtInv, LT!LtTypeOK
<1>6. PlaceInv'
  <2>. SUFFICES ASSUME NEW n \in DOMAIN origin
                PROVE  \/ n \in LogsIn(lines) \cup LogsIn(buffer) \cup Exported' \cup GivenUp'
                       \/ \E c \in inFlight' : n \in LogsIn(c.records)
    BY <1>1 DEF PlaceInv
  <2>1. CASE n \in F
    BY <1>4, <2>1
  <2>2. CASE n \notin F
    BY <1>1, <1>4, <2>2 DEF LtInv, PlaceInv, F
  <2>. QED  BY <2>1, <2>2
<1>7. OnceInv'
  <2>1. OnceInv
    BY DEF LtInv
  <2>2. F \cap (LogsIn(lines) \cup LogsIn(buffer) \cup Exported \cup GivenUp) = {}
    BY <2>1 DEF OnceInv, F
  <2>3. \A c \in inFlight' : LogsIn(c.records) \cap F = {}
    BY <1>1, <2>1 DEF OnceInv, F
  <2>. QED  BY <1>1, <1>4, <2>1, <2>2, <2>3 DEF OnceInv
<1>8. LoggedInv'
  BY <1>1, <1>3, <1>4 DEF LtInv, LoggedInv
<1>9. ClosingInv'
  BY <1>1 DEF LtInv, ClosingInv
<1>10. RightInv'
  BY <1>1, <1>2 DEF LtInv, RightInv
<1>. QED  BY <1>5, <1>6, <1>7, <1>8, <1>9, <1>10 DEF LtInv

\* Steps that move no log.
LEMMA LogsStay ==
  ASSUME LtInv, ending' \in BOOLEAN,
         closing' = closing \/ (LT!CanFinish /\ closing' = "closed"),
         UNCHANGED <<transport, origin, lines, buffer, inFlight, sent, spilled, failed, refused>>
  PROVE  LtInv'
<1>1. LT!LtTypeOK'
  BY DEF LtInv, LT!LtTypeOK
<1>2. ClosingInv'
  BY DEF LtInv, ClosingInv, LT!CanFinish
<1>3. PlaceInv' /\ OnceInv' /\ LoggedInv' /\ RightInv'
  BY DEF LtInv, PlaceInv, OnceInv, LoggedInv, RightInv, Exported, GivenUp
<1>. QED  BY <1>1, <1>2, <1>3 DEF LtInv

LEMMA LtStep == LtInv /\ [LT!LtNext]_LT!ltVars => LtInv'
<1>. SUFFICES ASSUME LtInv, [LT!LtNext]_LT!ltVars PROVE LtInv'
  OBVIOUS
<1>1. CASE \E s \in LT!SpansOrNone : LT!WinstonLog(s) \/ LT!NodeLoggerWinstonLog(s)
  BY <1>1, WinstonKeeps
<1>2. CASE \E s \in LT!SpansOrNone, ids \in {{}, {"trace_id"}} : LT!PinoLog(s, ids)
  BY <1>2, PinoLogKeeps
<1>3. CASE LT!SendBatch
  BY <1>3, SendBatchKeeps
<1>4. CASE \E b \in inFlight, ok \in BOOLEAN : LT!ExportEnds(b, ok)
  BY <1>4, ExportEndsKeeps
<1>5. CASE LT!WinstonClose \/ \E t \in BOOLEAN : LT!PinoClose(t)
  BY <1>5, CloseKeeps
<1>6. CASE LT!PinoLine \/ LT!NodeLoggerPinoLine \/ LT!PinoTooLate
  BY <1>6, LineKeeps
<1>7. CASE LT!Finish \/ LT!PinoEnd \/ UNCHANGED LT!ltVars
  <2>1. ending \in BOOLEAN
    BY DEF LtInv, LT!LtTypeOK
  <2>2. CASE LT!Finish
    BY <2>1, <2>2, LogsStay DEF LT!Finish
  <2>3. CASE LT!PinoEnd
    BY <2>3, LogsStay DEF LT!PinoEnd
  <2>4. CASE UNCHANGED LT!ltVars
    BY <2>1, <2>4, LogsStay DEF LT!ltVars
  <2>. QED  BY <1>7, <2>2, <2>3, <2>4
<1>. QED  BY <1>1, <1>2, <1>3, <1>4, <1>5, <1>6, <1>7 DEF LT!LtNext

\* The variables of the transports keep their types (otel-logger, node-logger).
THEOREM TransportTypes == LT!LtSpec => []LT!LtTypeOK
<1>1. LT!LtInit => LtInv
  BY LtInitial
<1>2. LtInv /\ [LT!LtNext]_LT!ltVars => LtInv'
  BY LtStep
<1>3. LtInv => LT!LtTypeOK
  BY DEF LtInv
<1>. QED  BY <1>1, <1>2, <1>3, PTL DEF LT!LtSpec

\* A transport that is closed has no log left, none is both exported and given up, and
\* what is exported is in the span it was logged in
\* (otel-logger/index.ts:44-76, winston.ts:88-100, pino.ts:93-113).
THEOREM ClosedTransportsAreEmpty == LT!LtSpec => []ClosedWithNothingLeft
<1>1. LT!LtInit => LtInv
  BY LtInitial
<1>2. LtInv /\ [LT!LtNext]_LT!ltVars => LtInv'
  BY LtStep
<1>3. LtInv => ClosedWithNothingLeft
  <2>. SUFFICES ASSUME LtInv PROVE LT!ClosedWithNothingLeft
    BY DEF ClosedWithNothingLeft
  <2>1. closing = "closed" /\ lines = <<>> =>
          DOMAIN origin \subseteq Exported \cup spilled \cup failed \cup refused
    BY NothingIn DEF LtInv, PlaceInv, ClosingInv, GivenUp
  <2>2. Exported \cap (spilled \cup failed \cup refused) = {}
    BY DEF LtInv, OnceInv, GivenUp
  <2>3. \A r \in sent :
          r.span = IF transport.lib = "winston" \/ transport.mixin THEN origin[r.log] ELSE NoSpan
    BY DEF LtInv, RightInv, SpanOf
  <2>. QED  BY <2>1, <2>2, <2>3 DEF LT!ClosedWithNothingLeft, Exported
<1>. QED  BY <1>1, <1>2, <1>3, PTL DEF LT!LtSpec

-----------------------------------------------------------------------------
(* SourceContext: the cache of files, a list in the order of use.         *)

Entries == [file : SC!Files, found : BOOLEAN]
Distinctly(c) == \A i, j \in DOMAIN c : c[i].file = c[j].file => i = j
Caches == {c \in Seq(Entries) : Len(c) <= Capacity /\ Distinctly(c)}

\* What is in a cache, and for which files.
Stored(c) == {c[i] : i \in DOMAIN c}
Known(c) == {x.file : x \in Stored(c)}

\* The files of F that are in the cache are the ones that were used last.
Recent(c, F) ==
  \A i, j \in DOMAIN c : i < j /\ c[i].file \in F => c[j].file \in F

LEMMA KnownIs ==
  ASSUME NEW c, NEW f
  PROVE  /\ f \in Known(c) <=> \E i \in DOMAIN c : c[i].file = f
         /\ SC!Cached(c, f) <=> f \in Known(c)
BY DEF Known, Stored, SC!Cached

LEMMA CacheFacts ==
  ASSUME NEW c \in Caches
  PROVE  /\ c \in Seq(Entries) /\ Len(c) \in Nat /\ Len(c) <= Capacity /\ DOMAIN c = 1..Len(c)
         /\ \A i \in DOMAIN c : c[i] \in Entries /\ c[i].file \in SC!Files
         /\ Distinctly(c) /\ Known(c) \subseteq SC!Files
<1>1. c \in Seq(Entries) /\ Len(c) <= Capacity /\ Distinctly(c)
  BY DEF Caches
<1>2. Len(c) \in Nat /\ DOMAIN c = 1..Len(c) /\ \A i \in DOMAIN c : c[i] \in Entries
  BY <1>1
<1>. QED  BY <1>1, <1>2 DEF Entries, Known, Stored

\* Where the elements of a list of n come from when the i-th is put behind the others, and
\* where they go.
From(i, n, k) == IF k = n THEN i ELSE IF k < i THEN k ELSE k + 1
To(i, n, j) == IF j = i THEN n ELSE IF j < i THEN j ELSE j - 1

LEMMA PutBehind ==
  ASSUME NEW n \in Nat, NEW i \in 1..n
  PROVE  /\ \A k \in 1..n : From(i, n, k) \in 1..n
         /\ \A k, l \in 1..n : From(i, n, k) = From(i, n, l) => k = l
         /\ \A k, l \in 1..n : k < l /\ l # n =>
              From(i, n, k) < From(i, n, l) /\ From(i, n, k) # i
         /\ \A j \in 1..n : To(i, n, j) \in 1..n /\ From(i, n, To(i, n, j)) = j
BY DEF From, To

\* A look into the cache changes the order of it only: what it looked for is the last.
LEMMA GetFacts ==
  ASSUME NEW c \in Caches, NEW f, NEW g, g = SC!Get(c, f)
  PROVE  /\ g \in Caches /\ Stored(g) = Stored(c) /\ Known(g) = Known(c)
         /\ \A F : Recent(c, F) => Recent(g, F \cup {f})
<1>1. /\ c \in Seq(Entries) /\ Len(c) \in Nat /\ Len(c) <= Capacity /\ DOMAIN c = 1..Len(c)
      /\ Distinctly(c)
  BY CacheFacts
<1>2. CASE ~SC!Cached(c, f)
  <2>1. g = c
    BY <1>2 DEF SC!Get
  <2>2. \A i \in DOMAIN c : c[i].file # f
    BY <1>2 DEF SC!Cached
  <2>. QED  BY <2>1, <2>2 DEF Recent
<1>3. CASE SC!Cached(c, f)
  <2>. DEFINE i == CHOOSE i \in DOMAIN c : c[i].file = f
              r == SC!RemoveAt(c, i)
              N == Len(c)
  <2>1. i \in DOMAIN c /\ c[i].file = f
    BY <1>3 DEF SC!Cached
  <2>2. g = Append(r, c[i])
    BY <1>3 DEF SC!Get
  <2>. HIDE DEF i
  <2>3. /\ r \in Seq(Entries) /\ Len(r) = Len(c) - 1
        /\ \A k \in 1..Len(c) - 1 : r[k] = IF k < i THEN c[k] ELSE c[k + 1]
    BY <1>1, <2>1, WithoutFacts DEF SC!RemoveAt
  <2>. HIDE DEF r
  <2>4. c[i] \in Entries
    BY <1>1, <2>1
  <2>5. /\ g \in Seq(Entries) /\ Len(g) = Len(r) + 1
        /\ \A k \in 1..Len(r) + 1 : g[k] = IF k <= Len(r) THEN r[k] ELSE c[i]
    BY <2>2, <2>3, <2>4, AppendFacts
  <2>6. N \in Nat /\ i \in 1..N /\ Len(g) = N /\ DOMAIN g = 1..N /\ DOMAIN c = 1..N
    BY <1>1, <2>1, <2>3, <2>5
  <2>7. \A k \in 1..N : g[k] = IF k = N THEN c[i] ELSE IF k < i THEN c[k] ELSE c[k + 1]
    <3>1. /\ Len(r) = N - 1 /\ \A k \in 1..N - 1 : r[k] = IF k < i THEN c[k] ELSE c[k + 1]
          /\ \A k \in 1..Len(r) + 1 : g[k] = IF k <= Len(r) THEN r[k] ELSE c[i]
      BY <2>3, <2>5
    <3>. HIDE DEF N
    <3>2. \A k \in 1..N : k \in 1..Len(r) + 1 /\ (k <= Len(r) <=> k # N)
      BY <2>6, <3>1
    <3>3. \A k \in 1..N : k # N => k \in 1..N - 1
      BY <2>6
    <3>. QED  BY <3>1, <3>2, <3>3
  <2>. HIDE DEF N
  <2>8. \A k \in 1..N : g[k] = c[From(i, N, k)]
    BY <2>7 DEF From
  <2>9. /\ \A k \in 1..N : From(i, N, k) \in 1..N
        /\ \A k, l \in 1..N : From(i, N, k) = From(i, N, l) => k = l
        /\ \A k, l \in 1..N : k < l /\ l # N =>
             From(i, N, k) < From(i, N, l) /\ From(i, N, k) # i
        /\ \A j \in 1..N : To(i, N, j) \in 1..N /\ From(i, N, To(i, N, j)) = j
    <3>1. N \in Nat /\ i \in 1..N
      BY <2>6
    <3>. QED  BY <3>1, PutBehind
  <2>11. g[N].file = f
    <3>1. N \in 1..N
      BY <2>6
    <3>. QED  BY <2>1, <2>7, <3>1
  <2>12. Stored(g) = Stored(c)
    <3>1. \A k \in DOMAIN g : g[k] \in Stored(c)
      BY <2>6, <2>8, <2>9 DEF Stored
    <3>2. \A j \in DOMAIN c : c[j] \in Stored(g)
      <4>1. \A j \in DOMAIN c : To(i, N, j) \in DOMAIN g /\ g[To(i, N, j)] = c[j]
        BY <2>6, <2>8, <2>9
      <4>. QED  BY <4>1 DEF Stored
    <3>. QED  BY <3>1, <3>2 DEF Stored
  <2>13. Distinctly(g)
    <3>. SUFFICES ASSUME NEW k \in 1..N, NEW l \in 1..N, g[k].file = g[l].file PROVE k = l
      BY <2>6 DEF Distinctly
    <3>1. c[From(i, N, k)].file = c[From(i, N, l)].file
      BY <2>8
    <3>2. From(i, N, k) \in DOMAIN c /\ From(i, N, l) \in DOMAIN c
      BY <2>6, <2>9
    <3>3. From(i, N, k) = From(i, N, l)
      <4>1. \A a, b \in DOMAIN c : c[a].file = c[b].file => a = b
        BY <1>1 DEF Distinctly
      <4>. QED  BY <3>1, <3>2, <4>1
    <3>. QED  BY <2>9, <3>3
  <2>14. g \in Caches
    BY <1>1, <2>5, <2>6, <2>13 DEF Caches, N
  <2>15. ASSUME NEW F, Recent(c, F) PROVE Recent(g, F \cup {f})
    <3>. SUFFICES ASSUME NEW k \in DOMAIN g, NEW l \in DOMAIN g, k < l,
                         g[k].file \in F \cup {f}
                  PROVE  g[l].file \in F \cup {f}
      BY DEF Recent
    <3>1. CASE l = N
      BY <2>11, <3>1
    <3>2. CASE l # N
      <4>1. /\ From(i, N, k) < From(i, N, l) /\ From(i, N, k) # i
            /\ g[k] = c[From(i, N, k)] /\ g[l] = c[From(i, N, l)]
            /\ From(i, N, k) \in DOMAIN c /\ From(i, N, l) \in DOMAIN c
        BY <2>6, <2>8, <2>9, <3>2
      <4>2. c[From(i, N, k)].file # f
        BY <1>1, <2>1, <4>1 DEF Distinctly
      <4>. QED  BY <2>15, <4>1, <4>2 DEF Recent
    <3>. QED  BY <3>1, <3>2
  <2>. QED  BY <2>12, <2>14, <2>15 DEF Known
<1>. QED  BY <1>2, <1>3

\* Setting a file drops the oldest entry of a full cache and leaves the others.
LEMMA SetFacts ==
  ASSUME NEW c \in Caches, NEW f \in SC!Files, NEW found \in BOOLEAN,
         NEW s, s = SC!Set(c, f, found)
  PROVE  /\ s \in Caches /\ f \in Known(s) /\ Known(s) \subseteq Known(c) \cup {f}
         /\ Stored(s) \subseteq Stored(c) \cup {[file |-> f, found |-> found]}
         /\ Len(c) < Capacity => Known(c) \subseteq Known(s)
         /\ \A F : /\ Recent(c, F) /\ f \in F /\ f \notin Known(c)
                   /\ Len(c) >= Capacity => c[1].file \notin F
                   => Recent(s, F) /\ Known(c) \cap F \subseteq Known(s)
<1>. DEFINE e == [file |-> f, found |-> found]
            room == IF Len(c) >= Capacity THEN Tail(c) ELSE c
            d == IF Len(c) >= Capacity THEN 1 ELSE 0
<1>1. /\ c \in Seq(Entries) /\ Len(c) \in Nat /\ Len(c) <= Capacity /\ DOMAIN c = 1..Len(c)
      /\ Distinctly(c) /\ Capacity \in Nat \ {0}
  BY CacheFacts, SourceAssumption
<1>2. e \in Entries /\ e.file = f
  BY DEF Entries
<1>3. /\ room \in Seq(Entries) /\ Len(room) = Len(c) - d /\ Len(room) < Capacity
      /\ \A k \in 1..Len(room) : k + d \in DOMAIN c /\ room[k] = c[k + d]
  <2>1. CASE Len(c) >= Capacity
    <3>1. c # <<>>
      BY <1>1, <2>1
    <3>2. /\ Tail(c) \in Seq(Entries) /\ Len(Tail(c)) = Len(c) - 1
          /\ \A k \in 1..Len(c) - 1 : Tail(c)[k] = c[k + 1]
      BY <1>1, <3>1, TailFacts
    <3>. QED  BY <1>1, <2>1, <3>2
  <2>2. CASE ~(Len(c) >= Capacity)
    BY <1>1, <2>2
  <2>. QED  BY <2>1, <2>2
<1>4. s = IF SC!Cached(room, f)
          THEN [k \in DOMAIN room |-> IF room[k].file = f THEN e ELSE room[k]]
          ELSE Append(room, e)
  BY DEF SC!Set
<1>5. d \in {0, 1} /\ (d = 1 <=> Len(c) >= Capacity)
  OBVIOUS
<1>. HIDE DEF e, room, d
<1>6. Len(room) \in Nat /\ DOMAIN room = 1..Len(room) /\ \A k \in DOMAIN room : room[k] \in Entries
  BY <1>3
<1>7. Distinctly(room)
  <2>1. \A k, l \in DOMAIN room : k + d = l + d => k = l
    BY <1>5, <1>6
  <2>. QED  BY <1>1, <1>3, <1>6, <2>1 DEF Distinctly
<1>8. \A j \in DOMAIN c : j # d => j - d \in DOMAIN room /\ room[j - d] = c[j]
  <2>1. \A j \in DOMAIN c : j # d => j - d \in 1..Len(room) /\ (j - d) + d = j
    BY <1>1, <1>3, <1>5
  <2>. QED  BY <1>3, <1>6, <2>1
<1>9. /\ s \in Seq(Entries) /\ Len(s) <= Capacity /\ Distinctly(s)
      /\ \A k \in DOMAIN room : k \in DOMAIN s
      /\ \A k \in DOMAIN room : s[k].file = room[k].file
      /\ \A k \in DOMAIN s : s[k] = e \/ (k \in DOMAIN room /\ s[k] = room[k])
      /\ \E k \in DOMAIN s : s[k].file = f
      /\ \A k \in DOMAIN s : k \notin DOMAIN room => s[k].file = f
  <2>1. CASE SC!Cached(room, f)
    <3>1. s = [k \in DOMAIN room |-> IF room[k].file = f THEN e ELSE room[k]]
      BY <1>4, <2>1
    <3>2. s \in [1..Len(room) -> Entries]
      BY <1>2, <1>6, <3>1
    <3>3. s \in Seq(Entries) /\ DOMAIN s = DOMAIN room /\ Len(s) = Len(room)
      BY <1>6, <3>2, SeqDef
    <3>4. \A k \in DOMAIN room : /\ s[k].file = room[k].file
                                 /\ s[k] = e \/ s[k] = room[k]
      BY <1>2, <3>1
    <3>5. \E k \in DOMAIN s : s[k].file = f
      BY <2>1, <3>3, <3>4 DEF SC!Cached
    <3>6. Distinctly(s)
      BY <1>7, <3>3, <3>4 DEF Distinctly
    <3>. QED  BY <1>1, <1>3, <1>6, <3>3, <3>4, <3>5, <3>6
  <2>2. CASE ~SC!Cached(room, f)
    <3>1. /\ s \in Seq(Entries) /\ Len(s) = Len(room) + 1
          /\ \A k \in 1..Len(room) + 1 : s[k] = IF k <= Len(room) THEN room[k] ELSE e
      BY <1>2, <1>3, <1>4, <2>2, AppendFacts
    <3>2. /\ DOMAIN s = 1..Len(room) + 1
          /\ \A k \in DOMAIN room : k \in DOMAIN s /\ s[k] = room[k]
          /\ \A k \in DOMAIN s : k \notin DOMAIN room => k = Len(room) + 1 /\ s[k] = e
          /\ Len(room) + 1 \in DOMAIN s
      BY <1>6, <3>1
    <3>3. \A k \in DOMAIN room : room[k].file # f
      BY <2>2 DEF SC!Cached
    <3>4. Distinctly(s)
      BY <1>2, <1>7, <3>2, <3>3 DEF Distinctly
    <3>5. s[Len(room) + 1].file = f
      BY <1>2, <1>6, <3>1
    <3>. QED  BY <1>1, <1>2, <1>3, <1>6, <3>1, <3>2, <3>4, <3>5
  <2>. QED  BY <2>1, <2>2
<1>10. s \in Caches /\ f \in Known(s)
  BY <1>9, KnownIs DEF Caches
<1>11. Stored(s) \subseteq Stored(c) \cup {e}
  <2>1. \A k \in DOMAIN room : room[k] \in Stored(c)
    BY <1>3, <1>6 DEF Stored
  <2>. QED  BY <1>9, <2>1 DEF Stored
<1>12. Known(s) \subseteq Known(c) \cup {f}
  BY <1>2, <1>11 DEF Known
<1>13. \A j \in DOMAIN c : j # d => c[j].file \in Known(s)
  BY <1>8, <1>9, KnownIs
<1>14. Len(c) < Capacity => Known(c) \subseteq Known(s)
  <2>1. Len(c) < Capacity => d = 0 /\ d \notin DOMAIN c
    BY <1>1, <1>5
  <2>. QED  BY <1>13, <2>1, KnownIs
<1>15. ASSUME NEW F, Recent(c, F), f \in F, f \notin Known(c),
              Len(c) >= Capacity => c[1].file \notin F
       PROVE  Recent(s, F) /\ Known(c) \cap F \subseteq Known(s)
  <2>1. \A j \in DOMAIN c : c[j].file \in F => j # d
    BY <1>1, <1>5, <1>15
  <2>2. Known(c) \cap F \subseteq Known(s)
    BY <1>13, <2>1, KnownIs
  <2>3. ASSUME NEW k \in DOMAIN s, NEW l \in DOMAIN s, k < l, s[k].file \in F
        PROVE  s[l].file \in F
    <3>1. CASE l \notin DOMAIN room
      BY <1>9, <1>15, <3>1
    <3>2. CASE l \in DOMAIN room
      <4>1. DOMAIN s = 1..Len(s)
        BY <1>9
      <4>2. k \in DOMAIN room
        BY <1>6, <2>3, <3>2, <4>1
      <4>3. /\ k + d \in DOMAIN c /\ l + d \in DOMAIN c
            /\ s[k].file = c[k + d].file /\ s[l].file = c[l + d].file
        BY <1>3, <1>6, <1>9, <3>2, <4>2
      <4>4. k + d < l + d
        BY <1>5, <1>6, <2>3, <3>2, <4>2
      <4>. QED  BY <1>15, <2>3, <4>3, <4>4 DEF Recent
    <3>. QED  BY <3>1, <3>2
  <2>. QED  BY <2>2, <2>3 DEF Recent
<1>. QED  BY <1>10, <1>11, <1>12, <1>14, <1>15 DEF e

-----------------------------------------------------------------------------
(* Recursion on naturals: what the loops of the model compute.             *)

\* A set of naturals has a least element.
LEMMA Least ==
  ASSUME NEW T \in SUBSET Nat, T # {}
  PROVE  \E n \in T : \A m \in T : n <= m
<1>. DEFINE R == OpToRel(<, Nat)
<1>1. IsWellFoundedOn(R, Nat)
  BY NatLessThanWellFounded
<1>2. \A x, y \in Nat : y < x => <<y, x>> \in R
  BY DEF OpToRel
<1>. HIDE DEF R
<1>3. PICK x \in T : \A y \in T : ~ (<<y, x>> \in R)
  BY <1>1, WFMin
<1>4. \A y \in T : ~(y < x)
  BY <1>2, <1>3
<1>5. x \in Nat /\ \A y \in T : y \in Nat
  OBVIOUS
<1>6. \A y \in T : x <= y
  BY <1>4, <1>5
<1>. QED  BY <1>6

LEMMA Induction ==
  ASSUME NEW T, 0 \in T, \A n \in Nat : n \in T => n + 1 \in T
  PROVE  \A n \in Nat : n \in T
<1>. SUFFICES ASSUME Nat \ T # {} PROVE FALSE
  OBVIOUS
<1>1. PICK n \in Nat \ T : \A m \in Nat \ T : n <= m
  BY Least
<1>2. n # 0 /\ n - 1 \in Nat /\ (n - 1) + 1 = n
  OBVIOUS
<1>3. n - 1 \in T
  BY <1>1, <1>2
<1>. QED  BY <1>2, <1>3

\* The first values of a sequence in which each follows from the one before.
Runs(S, init, step, n) ==
  {g \in [0..n -> S] : /\ g[0] = init
                       /\ \A m \in 0..n : m # n => g[m + 1] = step[<<m, g[m]>>]}

\* The sequences of which that is so.
Recursive(S, init, step) ==
  {f \in [Nat -> S] : f[0] = init /\ \A n \in Nat : f[n + 1] = step[<<n, f[n]>>]}

LEMMA Recursion ==
  ASSUME NEW S, NEW init \in S, NEW step \in [Nat \X S -> S]
  PROVE  Recursive(S, init, step) # {}
<1>. DEFINE T == {n \in Nat : Runs(S, init, step, n) # {}}
            G(n) == CHOOSE g \in Runs(S, init, step, n) : TRUE
            f == [n \in Nat |-> G(n)[n]]
<1>0. \A n \in Nat, x \in S : step[<<n, x>>] \in S
  OBVIOUS
<1>1. \A n \in Nat : n \in T
  <2>1. 0 \in T
    <3>1. [m \in 0..0 |-> init] \in Runs(S, init, step, 0)
      BY DEF Runs
    <3>. QED  BY <3>1
  <2>2. ASSUME NEW n \in Nat, n \in T PROVE n + 1 \in T
    <3>1. PICK g : g \in Runs(S, init, step, n)
      BY <2>2
    <3>2. /\ g \in [0..n -> S] /\ g[0] = init /\ g[n] \in S
          /\ \A m \in 0..n : m # n => g[m + 1] = step[<<m, g[m]>>]
      BY <3>1 DEF Runs
    <3>. DEFINE h == [m \in 0..(n + 1) |-> IF m = n + 1 THEN step[<<n, g[n]>>] ELSE g[m]]
    <3>3. h \in [0..(n + 1) -> S] /\ h[0] = init
      BY <1>0, <3>2
    <3>4. ASSUME NEW m \in 0..(n + 1), m # n + 1 PROVE h[m + 1] = step[<<m, h[m]>>]
      <4>1. m \in 0..n /\ h[m] = g[m] /\ m + 1 \in 0..(n + 1)
        BY <3>4
      <4>2. CASE m = n
        BY <4>1, <4>2
      <4>3. CASE m # n
        <5>1. h[m + 1] = g[m + 1]
          BY <4>1, <4>3
        <5>. QED  BY <3>2, <4>1, <4>3, <5>1
      <4>. QED  BY <4>2, <4>3
    <3>. HIDE DEF h
    <3>5. h \in Runs(S, init, step, n + 1)
      BY <3>3, <3>4 DEF Runs
    <3>. QED  BY <3>5
  <2>. HIDE DEF T
  <2>. QED  BY <2>1, <2>2, Induction
<1>2. \A n \in Nat : G(n) \in Runs(S, init, step, n)
  BY <1>1
<1>. HIDE DEF G
<1>3. ASSUME NEW n \in Nat PROVE G(n + 1)[n] = G(n)[n]
  <2>. DEFINE U == {m \in Nat : m <= n => G(n + 1)[m] = G(n)[m]}
  <2>1. /\ G(n)[0] = init /\ G(n + 1)[0] = init
        /\ \A m \in 0..n : m # n => G(n)[m + 1] = step[<<m, G(n)[m]>>]
        /\ \A m \in 0..(n + 1) : m # n + 1 => G(n + 1)[m + 1] = step[<<m, G(n + 1)[m]>>]
    <3>1. G(n) \in Runs(S, init, step, n) /\ G(n + 1) \in Runs(S, init, step, n + 1)
      BY <1>2
    <3>. QED  BY <3>1 DEF Runs
  <2>2. 0 \in U
    BY <2>1
  <2>3. ASSUME NEW m \in Nat, m \in U PROVE m + 1 \in U
    <3>1. CASE m + 1 <= n
      <4>1. m \in 0..n /\ m # n /\ m \in 0..(n + 1) /\ m # n + 1 /\ G(n + 1)[m] = G(n)[m]
        BY <2>3, <3>1
      <4>2. G(n)[m + 1] = step[<<m, G(n)[m]>>] /\ G(n + 1)[m + 1] = step[<<m, G(n + 1)[m]>>]
        BY <2>1, <4>1
      <4>. QED  BY <4>1, <4>2
    <3>. QED  BY <3>1
  <2>4. \A m \in Nat : m \in U
    <3>. HIDE DEF U
    <3>. QED  BY <2>2, <2>3, Induction
  <2>. QED  BY <2>4
<1>4. \A n \in Nat : G(n)[n] \in S
  BY <1>2 DEF Runs
<1>5. G(0)[0] = init
  BY <1>2 DEF Runs
<1>6. ASSUME NEW n \in Nat PROVE G(n + 1)[n + 1] = step[<<n, G(n)[n]>>]
  <2>1. G(n + 1) \in Runs(S, init, step, n + 1)
    BY <1>2
  <2>2. G(n + 1)[n + 1] = step[<<n, G(n + 1)[n]>>]
    BY <2>1 DEF Runs
  <2>. QED  BY <1>3, <2>2
<1>7. f \in [Nat -> S] /\ f[0] = init /\ \A n \in Nat : f[n + 1] = step[<<n, f[n]>>]
  BY <1>4, <1>5, <1>6
<1>. QED  BY <1>7 DEF Recursive

\* A loop over a list of n, step by step from an initial state.
Looping(N, S, init, step) ==
  {g \in [0..N -> S] :
     g = [n \in 0..N |-> IF n = 0 THEN init ELSE step[<<n - 1, g[n - 1]>>]]}

LEMMA Loop ==
  ASSUME NEW N \in Nat, NEW S, NEW init \in S, NEW step \in [Nat \X S -> S]
  PROVE  Looping(N, S, init, step) # {}
<1>1. PICK f \in Recursive(S, init, step) : TRUE
  BY Recursion
<1>2. /\ f \in [Nat -> S] /\ f[0] = init
      /\ \A n \in Nat : f[n + 1] = step[<<n, f[n]>>]
  BY <1>1 DEF Recursive
<1>. DEFINE g == [n \in 0..N |-> f[n]]
<1>3. ASSUME NEW n \in 0..N, n # 0
      PROVE  f[n] = step[<<n - 1, f[n - 1]>>] /\ n - 1 \in 0..N
  <2>1. n - 1 \in Nat /\ (n - 1) + 1 = n /\ n - 1 \in 0..N
    BY <1>3
  <2>. QED  BY <1>2, <2>1
<1>4. g \in [0..N -> S]
  BY <1>2
<1>5. g = [n \in 0..N |-> IF n = 0 THEN init ELSE step[<<n - 1, g[n - 1]>>]]
  BY <1>2, <1>3
<1>. QED  BY <1>4, <1>5 DEF Looping


-----------------------------------------------------------------------------
(* SourceContext: the loops over the frames of an event.                   *)

ScanStates == [cache : Caches, asked : SUBSET SC!Files, reads : SUBSET SC!Files]
FrameFiles == SC!Files \cup {NoFile}

\* How far the first loop is: the files V have been visited, c is the cache at its start.
ScanOK(c, s, V) ==
  /\ s \in ScanStates
  /\ Stored(s.cache) = Stored(c)
  /\ s.asked \subseteq V /\ s.reads = V \ Known(c)
  /\ Recent(s.cache, V)

LEMMA VisitTypes ==
  ASSUME NEW s \in ScanStates, NEW f \in FrameFiles
  PROVE  SC!Visit(s, f) \in ScanStates
<1>1. s.cache \in Caches /\ s.asked \subseteq SC!Files /\ s.reads \subseteq SC!Files
  BY DEF ScanStates
<1>2. SC!Get(s.cache, f) \in Caches
  BY <1>1, GetFacts
<1>3. f # NoFile => f \in SC!Files
  BY DEF FrameFiles
<1>. QED  BY <1>1, <1>2, <1>3 DEF SC!Visit, ScanStates

LEMMA VisitFacts ==
  ASSUME NEW c, NEW s, NEW V, ScanOK(c, s, V), NEW f \in FrameFiles
  PROVE  ScanOK(c, SC!Visit(s, f), V \cup ({f} \ {NoFile}))
<1>1. /\ s \in ScanStates /\ s.cache \in Caches /\ Stored(s.cache) = Stored(c)
      /\ s.asked \subseteq V /\ s.reads = V \ Known(c) /\ Recent(s.cache, V)
  BY DEF ScanOK, ScanStates
<1>2. CASE f = NoFile \/ f \in s.asked
  <2>1. SC!Visit(s, f) = s /\ V \cup ({f} \ {NoFile}) = V
    BY <1>1, <1>2 DEF SC!Visit
  <2>. QED  BY <2>1
<1>3. CASE f # NoFile /\ f \notin s.asked
  <2>. DEFINE t == SC!Visit(s, f)
              g == SC!Get(s.cache, f)
  <2>1. V \cup ({f} \ {NoFile}) = V \cup {f}
    BY <1>3
  <2>2. t = [cache |-> g,
             asked |-> IF SC!Found(s.cache, f) THEN s.asked ELSE s.asked \cup {f},
             reads |-> IF SC!Cached(s.cache, f) THEN s.reads ELSE s.reads \cup {f}]
    BY <1>3 DEF SC!Visit
  <2>3. t \in ScanStates
    BY <1>1, VisitTypes
  <2>4. g = SC!Get(s.cache, f)
    OBVIOUS
  <2>. HIDE DEF t, g
  <2>5. Stored(g) = Stored(c) /\ Recent(g, V \cup {f})
    BY <1>1, <2>4, GetFacts
  <2>6. t.cache = g /\ t.asked \subseteq V \cup {f}
    BY <1>1, <2>2
  <2>7. Known(s.cache) = Known(c)
    BY <1>1 DEF Known
  <2>8. t.reads = (V \cup {f}) \ Known(c)
    <3>1. SC!Cached(s.cache, f) <=> f \in Known(c)
      BY <2>7, KnownIs
    <3>. QED  BY <1>1, <2>2, <3>1
  <2>9. ScanOK(c, t, V \cup {f})
    BY <2>3, <2>5, <2>6, <2>8 DEF ScanOK
  <2>. QED  BY <2>1, <2>9 DEF t
<1>. QED  BY <1>2, <1>3

\* The frames of an exception.
LEMMA VisitedFacts ==
  ASSUME NEW c, NEW s, NEW V, ScanOK(c, s, V), NEW trace \in Seq(FrameFiles)
  PROVE  ScanOK(c, SC!Visited(s, trace), V \cup ({trace[i] : i \in DOMAIN trace} \ {NoFile}))
<1>. DEFINE N == Len(trace)
            P(b) == b = [n \in 0..N |->
                           IF n = 0 THEN s ELSE SC!Visit(b[n - 1], trace[N + 1 - n])]
            visited == CHOOSE b : P(b)
            step == [p \in Nat \X ScanStates |->
                       IF p[1] + 1 \in 1..N THEN SC!Visit(p[2], trace[N - p[1]]) ELSE p[2]]
            Before(n) == {trace[i] : i \in {j \in DOMAIN trace : j > N - n}}
<1>1. N \in Nat /\ DOMAIN trace = 1..N /\ \A i \in 1..N : trace[i] \in FrameFiles
  OBVIOUS
<1>2. SC!Visited(s, trace) = visited[N]
  BY DEF SC!Visited
<1>. HIDE DEF N
<1>3. P(visited)
  <2>1. step \in [Nat \X ScanStates -> ScanStates]
    <3>1. ASSUME NEW m \in Nat, NEW t \in ScanStates, m + 1 \in 1..N
          PROVE  SC!Visit(t, trace[N - m]) \in ScanStates
      <4>1. N - m \in 1..N
        BY <1>1, <3>1
      <4>. QED  BY <1>1, <4>1, VisitTypes
    <3>. QED  BY <3>1
  <2>2. \A n \in 1..N, t \in ScanStates : step[<<n - 1, t>>] = SC!Visit(t, trace[N + 1 - n])
    <3>1. \A n \in 1..N : n - 1 \in Nat /\ (n - 1) + 1 \in 1..N /\ N - (n - 1) = N + 1 - n
      BY <1>1
    <3>. QED  BY <3>1
  <2>. HIDE DEF step
  <2>3. s \in ScanStates
    BY DEF ScanOK
  <2>4. PICK g \in [0..N -> ScanStates] :
          g = [n \in 0..N |-> IF n = 0 THEN s ELSE step[<<n - 1, g[n - 1]>>]]
    <3>1. Looping(N, ScanStates, s, step) # {}
      BY <1>1, <2>1, <2>3, Loop
    <3>. QED  BY <3>1 DEF Looping
  <2>5. ASSUME NEW n \in 0..N, n # 0
        PROVE  step[<<n - 1, g[n - 1]>>] = SC!Visit(g[n - 1], trace[N + 1 - n])
    <3>1. n \in 1..N /\ n - 1 \in 0..N
      BY <1>1, <2>5
    <3>2. g[n - 1] \in ScanStates
      BY <2>4, <3>1
    <3>. QED  BY <2>2, <3>1, <3>2
  <2>6. P(g)
    BY <2>4, <2>5
  <2>. QED  BY <2>6
<1>. HIDE DEF visited
<1>. DEFINE U == {n \in Nat : n <= N => ScanOK(c, visited[n], V \cup (Before(n) \ {NoFile}))}
<1>4. 0 \in U
  <2>1. visited[0] = s
    BY <1>1, <1>3
  <2>2. Before(0) = {}
    BY <1>1
  <2>. HIDE DEF Before
  <2>. QED  BY <2>1, <2>2
<1>5. ASSUME NEW n \in Nat, n \in U PROVE n + 1 \in U
  <2>. SUFFICES ASSUME n + 1 <= N
                PROVE  ScanOK(c, visited[n + 1], V \cup (Before(n + 1) \ {NoFile}))
    OBVIOUS
  <2>1. /\ n + 1 \in 0..N /\ n + 1 # 0 /\ (n + 1) - 1 = n /\ N + 1 - (n + 1) = N - n
        /\ N - n \in 1..N /\ n <= N
    BY <1>1
  <2>2. visited[n + 1] = SC!Visit(visited[n], trace[N - n])
    BY <1>3, <2>1
  <2>3. ScanOK(c, visited[n], V \cup (Before(n) \ {NoFile}))
    BY <1>5, <2>1
  <2>4. trace[N - n] \in FrameFiles
    BY <1>1, <2>1
  <2>5. Before(n + 1) = Before(n) \cup {trace[N - n]}
    <3>1. {j \in 1..N : j > N - (n + 1)} = {j \in 1..N : j > N - n} \cup {N - n}
      BY <1>1, <2>1
    <3>. QED  BY <1>1, <3>1
  <2>. HIDE DEF Before
  <2>6. ScanOK(c, visited[n + 1],
               (V \cup (Before(n) \ {NoFile})) \cup ({trace[N - n]} \ {NoFile}))
    BY <2>2, <2>3, <2>4, VisitFacts
  <2>7. (V \cup (Before(n) \ {NoFile})) \cup ({trace[N - n]} \ {NoFile})
          = V \cup (Before(n + 1) \ {NoFile})
    BY <2>5
  <2>. QED  BY <2>6, <2>7
<1>6. \A n \in Nat : n \in U
  <2>. HIDE DEF U
  <2>. QED  BY <1>4, <1>5, Induction
<1>7. ScanOK(c, visited[N], V \cup (Before(N) \ {NoFile}))
  <2>. HIDE DEF Before
  <2>1. N \in U
    <3>. HIDE DEF U
    <3>. QED  BY <1>1, <1>6
  <2>2. N <= N
    BY <1>1
  <2>. QED  BY <2>1, <2>2
<1>8. Before(N) = {trace[i] : i \in DOMAIN trace}
  <2>1. {j \in DOMAIN trace : j > N - N} = DOMAIN trace
    BY <1>1
  <2>. QED  BY <2>1
<1>. QED  BY <1>2, <1>7, <1>8

\* The files of a stack.
FilesIn(stack) == (UNION {SC!Range(stack[i]) : i \in DOMAIN stack}) \ {NoFile}

\* All of the first loop.
LEMMA ScannedFacts ==
  ASSUME contents \in Caches, NEW stack \in Seq(Seq(FrameFiles))
  PROVE  ScanOK(contents, SC!Scanned(stack), FilesIn(stack))
<1>. DEFINE N == Len(stack)
            start == [cache |-> contents, asked |-> {}, reads |-> {}]
            P(b) == b = [n \in 0..N |->
                           IF n = 0 THEN start ELSE SC!Visited(b[n - 1], stack[n])]
            scanned == CHOOSE b : P(b)
            S == {s \in ScanStates : \E V : ScanOK(contents, s, V)}
            step == [p \in Nat \X S |->
                       IF p[1] + 1 \in 1..N THEN SC!Visited(p[2], stack[p[1] + 1]) ELSE p[2]]
            Before(n) == (UNION {SC!Range(stack[i]) : i \in 1..n}) \ {NoFile}
<1>1. N \in Nat /\ DOMAIN stack = 1..N /\ \A i \in 1..N : stack[i] \in Seq(FrameFiles)
  OBVIOUS
<1>2. SC!Scanned(stack) = scanned[N]
  BY DEF SC!Scanned
<1>. HIDE DEF N
<1>3. ScanOK(contents, start, {})
  <2>1. start \in ScanStates
    BY DEF ScanStates
  <2>. QED  BY <2>1 DEF ScanOK, Recent
<1>. HIDE DEF start
<1>4. \A s, V : \A n \in 1..N : ScanOK(contents, s, V) =>
        ScanOK(contents, SC!Visited(s, stack[n]), V \cup (SC!Range(stack[n]) \ {NoFile}))
  <2>1. \A n \in 1..N : SC!Range(stack[n]) = {stack[n][i] : i \in DOMAIN stack[n]}
    BY DEF SC!Range
  <2>. QED  BY <1>1, <2>1, VisitedFacts
<1>5. P(scanned)
  <2>1. step \in [Nat \X S -> S]
    <3>1. \A s : s \in S => \E V : ScanOK(contents, s, V)
      OBVIOUS
    <3>2. \A s, V : ScanOK(contents, s, V) => s \in S
      BY DEF ScanOK
    <3>. HIDE DEF S
    <3>3. \A m \in Nat, t \in S : m + 1 \in 1..N => SC!Visited(t, stack[m + 1]) \in S
      BY <1>4, <3>1, <3>2
    <3>. QED  BY <3>3
  <2>2. start \in S
    BY <1>3 DEF ScanOK
  <2>3. \A n \in 1..N, t \in S : step[<<n - 1, t>>] = SC!Visited(t, stack[n])
    <3>1. \A n \in 1..N : n - 1 \in Nat /\ (n - 1) + 1 \in 1..N /\ (n - 1) + 1 = n
      BY <1>1
    <3>. HIDE DEF S
    <3>. QED  BY <3>1
  <2>. HIDE DEF step, S
  <2>4. PICK g \in [0..N -> S] :
          g = [n \in 0..N |-> IF n = 0 THEN start ELSE step[<<n - 1, g[n - 1]>>]]
    <3>1. Looping(N, S, start, step) # {}
      BY <1>1, <2>1, <2>2, Loop
    <3>. QED  BY <3>1 DEF Looping
  <2>5. ASSUME NEW n \in 0..N, n # 0
        PROVE  step[<<n - 1, g[n - 1]>>] = SC!Visited(g[n - 1], stack[n])
    <3>1. n \in 1..N /\ n - 1 \in 0..N
      BY <1>1, <2>5
    <3>2. g[n - 1] \in S
      BY <2>4, <3>1
    <3>. QED  BY <2>3, <3>1, <3>2
  <2>6. P(g)
    BY <2>4, <2>5
  <2>. QED  BY <2>6
<1>. HIDE DEF scanned
<1>. DEFINE U == {n \in Nat : n <= N => ScanOK(contents, scanned[n], Before(n))}
<1>6. 0 \in U
  <2>1. scanned[0] = start
    BY <1>1, <1>5
  <2>2. Before(0) = {}
    OBVIOUS
  <2>. HIDE DEF Before
  <2>. QED  BY <1>3, <2>1, <2>2
<1>7. ASSUME NEW n \in Nat, n \in U PROVE n + 1 \in U
  <2>. SUFFICES ASSUME n + 1 <= N PROVE ScanOK(contents, scanned[n + 1], Before(n + 1))
    OBVIOUS
  <2>1. n + 1 \in 0..N /\ n + 1 \in 1..N /\ n + 1 # 0 /\ (n + 1) - 1 = n /\ n <= N
    BY <1>1
  <2>2. scanned[n + 1] = SC!Visited(scanned[n], stack[n + 1])
    BY <1>5, <2>1
  <2>3. ScanOK(contents, scanned[n], Before(n))
    BY <1>7, <2>1
  <2>4. Before(n + 1) = Before(n) \cup (SC!Range(stack[n + 1]) \ {NoFile})
    <3>1. 1..(n + 1) = (1..n) \cup {n + 1}
      OBVIOUS
    <3>2. UNION {SC!Range(stack[i]) : i \in (1..n) \cup {n + 1}}
            = (UNION {SC!Range(stack[i]) : i \in 1..n}) \cup SC!Range(stack[n + 1])
      OBVIOUS
    <3>. QED  BY <3>1, <3>2
  <2>. HIDE DEF Before
  <2>5. ScanOK(contents, SC!Visited(scanned[n], stack[n + 1]),
               Before(n) \cup (SC!Range(stack[n + 1]) \ {NoFile}))
    <3>. HIDE DEF U
    <3>. QED  BY <1>4, <2>1, <2>3
  <2>. QED  BY <2>2, <2>4, <2>5
<1>8. \A n \in Nat : n \in U
  <2>. HIDE DEF U
  <2>. QED  BY <1>6, <1>7, Induction
<1>9. ScanOK(contents, scanned[N], Before(N))
  <2>. HIDE DEF Before
  <2>1. N \in U
    <3>. HIDE DEF U
    <3>. QED  BY <1>1, <1>8
  <2>2. N <= N
    BY <1>1
  <2>. QED  BY <2>1, <2>2
<1>10. Before(N) = FilesIn(stack)
  BY <1>1 DEF FilesIn
<1>. QED  BY <1>2, <1>9, <1>10

\* The lookups of the second loop change nothing but the order.
LEMMA LookedUpFacts ==
  ASSUME NEW c \in Caches, NEW trace \in Seq(FrameFiles)
  PROVE  SC!LookedUp(c, trace) \in Caches /\ Stored(SC!LookedUp(c, trace)) = Stored(c)
<1>. DEFINE N == Len(trace)
            S == {d \in Caches : Stored(d) = Stored(c)}
            P(b) == b = [n \in 0..N |->
                           IF n = 0 THEN c
                           ELSE IF trace[n] = NoFile THEN b[n - 1]
                           ELSE SC!Get(b[n - 1], trace[n])]
            seen == CHOOSE b : P(b)
            step == [p \in Nat \X S |->
                       IF trace[p[1] + 1] = NoFile THEN p[2] ELSE SC!Get(p[2], trace[p[1] + 1])]
<1>1. N \in Nat
  OBVIOUS
<1>2. SC!LookedUp(c, trace) = seen[N]
  BY DEF SC!LookedUp
<1>. HIDE DEF N
<1>3. c \in S /\ \A f : \A d \in S : SC!Get(d, f) \in S
  <2>1. \A f : \A d \in Caches : SC!Get(d, f) \in Caches /\ Stored(SC!Get(d, f)) = Stored(d)
    BY GetFacts
  <2>. QED  BY <2>1
<1>4. S \subseteq Caches /\ \A d \in S : Stored(d) = Stored(c)
  OBVIOUS
<1>. HIDE DEF S
<1>5. step \in [Nat \X S -> S]
  BY <1>3
<1>6. \A n \in 0..N, t \in S : n # 0 =>
        step[<<n - 1, t>>] = IF trace[n] = NoFile THEN t ELSE SC!Get(t, trace[n])
  <2>1. \A n \in 0..N : n # 0 => n - 1 \in Nat /\ (n - 1) + 1 = n
    BY <1>1
  <2>. QED  BY <2>1
<1>. HIDE DEF step
<1>7. PICK g \in [0..N -> S] :
        g = [n \in 0..N |-> IF n = 0 THEN c ELSE step[<<n - 1, g[n - 1]>>]]
  <2>1. Looping(N, S, c, step) # {}
    BY <1>1, <1>3, <1>5, Loop
  <2>. QED  BY <2>1 DEF Looping
<1>8. \A n \in 0..N : n # 0 => g[n - 1] \in S
  <2>1. \A n \in 0..N : n # 0 => n - 1 \in 0..N
    BY <1>1
  <2>. QED  BY <1>7, <2>1
<1>9. P(g)
  BY <1>6, <1>7, <1>8
<1>10. P(seen)
  BY <1>9
<1>. HIDE DEF seen
<1>. DEFINE U == {n \in Nat : n <= N => seen[n] \in S}
<1>11. 0 \in U
  BY <1>1, <1>3, <1>10
<1>12. ASSUME NEW n \in Nat, n \in U PROVE n + 1 \in U
  <2>. SUFFICES ASSUME n + 1 <= N PROVE seen[n + 1] \in S
    OBVIOUS
  <2>1. n + 1 \in 0..N /\ n + 1 # 0 /\ (n + 1) - 1 = n /\ n <= N
    BY <1>1
  <2>2. seen[n] \in S
    BY <1>12, <2>1
  <2>. QED  BY <1>3, <1>10, <2>1, <2>2
<1>13. \A n \in Nat : n \in U
  <2>. HIDE DEF U
  <2>. QED  BY <1>11, <1>12, Induction
<1>. QED  BY <1>1, <1>2, <1>4, <1>13

-----------------------------------------------------------------------------
(* SourceContext: what is so at all times.                                 *)

\* The values of a list are finitely many, and so are the files of a stack.
LEMMA FinitelyMany ==
  ASSUME NEW n \in Nat, NEW g
  PROVE  IsFiniteSet({g[i] : i \in 1..n})
<1>. DEFINE T == {g[i] : i \in 1..n}
            h == [i \in 1..n |-> g[i]]
<1>1. IsFiniteSet(1..n)
  BY FS_Interval
<1>2. h \in Surjection(1..n, T)
  BY DEF Surjection
<1>. HIDE DEF h, T
<1>3. IsFiniteSet(T)
  BY <1>1, <1>2, FS_Surjection
<1>. QED  BY <1>3 DEF T

LEMMA FilesFinite ==
  ASSUME NEW stack \in Seq(Seq(FrameFiles))
  PROVE  IsFiniteSet(FilesIn(stack))
<1>. DEFINE g == [i \in 1..Len(stack) |-> SC!Range(stack[i])]
            T == {g[i] : i \in 1..Len(stack)}
<1>1. Len(stack) \in Nat /\ DOMAIN stack = 1..Len(stack)
  OBVIOUS
<1>2. \A i \in 1..Len(stack) : IsFiniteSet(g[i])
  <2>. TAKE i \in 1..Len(stack)
  <2>1. Len(stack[i]) \in Nat /\ DOMAIN stack[i] = 1..Len(stack[i])
    <3>1. stack[i] \in Seq(FrameFiles)
      BY <1>1
    <3>. QED  BY <3>1
  <2>2. IsFiniteSet({stack[i][j] : j \in 1..Len(stack[i])})
    BY <2>1, FinitelyMany
  <2>. QED  BY <2>1, <2>2 DEF SC!Range
<1>3. T = {SC!Range(stack[i]) : i \in DOMAIN stack}
  BY <1>1
<1>. HIDE DEF g
<1>4. IsFiniteSet(T)
  BY <1>1, FinitelyMany
<1>5. \A x \in T : IsFiniteSet(x)
  BY <1>2
<1>. HIDE DEF T
<1>6. IsFiniteSet(UNION T)
  BY <1>4, <1>5, FS_UNION
<1>7. FilesIn(stack) \in SUBSET (UNION T)
  BY <1>3 DEF FilesIn
<1>. QED  BY <1>6, <1>7, FS_Subset

\* A cache is no larger than the set of files it is for, and smaller if one is missing.
LEMMA CacheFits ==
  ASSUME NEW c \in Caches, NEW F, IsFiniteSet(F), Known(c) \subseteq F
  PROVE  /\ Len(c) <= Cardinality(F)
         /\ \A f \in F : f \notin Known(c) => Len(c) < Cardinality(F)
<1>. DEFINE m == [i \in 1..Len(c) |-> c[i].file]
<1>1. Len(c) \in Nat /\ DOMAIN c = 1..Len(c) /\ Distinctly(c)
  BY CacheFacts
<1>2. \A i \in 1..Len(c) : m[i] \in Known(c)
  BY <1>1, KnownIs
<1>3. IsFiniteSet(1..Len(c)) /\ Cardinality(1..Len(c)) = Len(c)
  <2>. DEFINE N == Len(c)
  <2>1. N \in Nat /\ N \in Int /\ 1 \in Int
    BY <1>1
  <2>. HIDE DEF N
  <2>2. IsFiniteSet(1..N) /\ Cardinality(1..N) = IF 1 > N THEN 0 ELSE N - 1 + 1
    BY <2>1, FS_Interval
  <2>3. Cardinality(1..N) = N
    BY <2>1, <2>2
  <2>. QED  BY <2>2, <2>3 DEF N
<1>4. \A i, j \in 1..Len(c) : m[i] = m[j] => i = j
  BY <1>1 DEF Distinctly
<1>5. m \in Injection(1..Len(c), Known(c))
  <2>1. m \in [1..Len(c) -> Known(c)]
    BY <1>2
  <2>. HIDE DEF m
  <2>. QED  BY <1>4, <2>1 DEF Injection, IsInjective
<1>. HIDE DEF m
<1>6. IsFiniteSet(Known(c))
  BY FS_Subset
<1>7. Cardinality(1..Len(c)) <= Cardinality(Known(c))
  BY <1>5, <1>6, FS_Injection
<1>8. Cardinality(Known(c)) \in Nat /\ Cardinality(F) \in Nat
  BY <1>6, FS_CardinalityType
<1>9. Cardinality(Known(c)) <= Cardinality(F)
  BY FS_Subset
<1>10. ASSUME NEW f \in F, f \notin Known(c) PROVE Cardinality(Known(c)) < Cardinality(F)
  <2>1. Cardinality(F) = Cardinality(Known(c)) => F = Known(c)
    BY FS_Subset
  <2>. QED  BY <1>8, <1>9, <1>10, <2>1
<1>. QED  BY <1>1, <1>3, <1>7, <1>8, <1>9, <1>10


EventRecord ==
  [stack : EventStacks, reading : SUBSET SC!Files, next : Nat,
   lines : SUBSET (Nat \X Nat), alone : BOOLEAN]

StackFiles(e) == FilesIn(events[e].stack)
AllFiles == UNION {StackFiles(o) : o \in DOMAIN events}

ScTypes ==
  /\ contents \in Caches /\ events \in Seq(EventRecord) /\ troubled \subseteq SC!Files
  /\ \A e \in DOMAIN events : events[e].next \in 1..(Len(events[e].stack) + 1)

\* An event reads files of its own, before it adds any line.
ReadsInv ==
  \A e \in DOMAIN events :
    /\ events[e].reading \subseteq StackFiles(e)
    /\ events[e].next # 1 => events[e].reading = {}

\* While an event is alone the others are over.
AloneInv ==
  \A e, o \in DOMAIN events : events[e].alone /\ ~SC!Ended(e) /\ o # e => SC!Ended(o)

\* A null in the cache is of a file that could not be read.
NullInv == \A x \in Stored(contents) : x.found \/ x.file \in troubled

\* While the files of all events leave room, each is in the cache or being read.
RoomInv ==
  /\ Known(contents) \subseteq AllFiles
  /\ Cardinality(AllFiles) < Capacity =>
       \A e \in DOMAIN events : StackFiles(e) \subseteq Known(contents) \cup events[e].reading

\* So are the files of an event that is alone, if they fit; and while it reads those that
\* are in the cache are the ones that were used last, so that a read drops none of them.
AtHome(e) ==
  /\ StackFiles(e) \subseteq Known(contents) \cup events[e].reading
  /\ events[e].reading \cap Known(contents) = {}
  /\ events[e].reading # {} => Recent(contents, StackFiles(e))

MineInv ==
  \A e \in DOMAIN events :
    events[e].alone /\ ~SC!Ended(e) /\ Cardinality(StackFiles(e)) <= Capacity => AtHome(e)

\* The frames of the exceptions that are done have their lines.
Fits(e) ==
  \/ events[e].alone /\ Cardinality(StackFiles(e)) <= Capacity
  \/ Cardinality(AllFiles) < Capacity

HasLine(e, n, i) ==
  events[e].stack[n][i] \in {NoFile} \cup troubled \/ <<n, i>> \in events[e].lines

LinesInv ==
  \A e \in DOMAIN events : Fits(e) =>
    \A n \in DOMAIN events[e].stack : n < events[e].next =>
      \A i \in DOMAIN events[e].stack[n] : HasLine(e, n, i)

ScInv == ScTypes /\ ReadsInv /\ AloneInv /\ NullInv /\ RoomInv /\ MineInv /\ LinesInv

LEMMA StackTypes ==
  ASSUME ScTypes, NEW e \in DOMAIN events
  PROVE  /\ events[e] \in EventRecord
         /\ events[e].stack \in EventStacks /\ events[e].stack \in Seq(Seq(FrameFiles))
         /\ IsFiniteSet(StackFiles(e)) /\ Cardinality(StackFiles(e)) \in Nat
         /\ StackFiles(e) \subseteq AllFiles
<1>1. events[e] \in EventRecord
  BY DEF ScTypes
<1>2. events[e].stack \in EventStacks
  BY <1>1 DEF EventRecord
<1>3. events[e].stack \in Seq(Seq(FrameFiles))
  BY <1>2, SourceAssumption DEF FrameFiles
<1>4. IsFiniteSet(StackFiles(e))
  BY <1>3, FilesFinite DEF StackFiles
<1>. QED  BY <1>1, <1>2, <1>3, <1>4, FS_CardinalityType DEF AllFiles

LEMMA AllFinite ==
  ASSUME ScTypes
  PROVE  IsFiniteSet(AllFiles) /\ Cardinality(AllFiles) \in Nat
<1>. DEFINE g == [e \in 1..Len(events) |-> StackFiles(e)]
            T == {g[e] : e \in 1..Len(events)}
<1>1. Len(events) \in Nat /\ DOMAIN events = 1..Len(events)
  BY DEF ScTypes
<1>2. \A e \in 1..Len(events) : IsFiniteSet(g[e])
  BY <1>1, StackTypes
<1>3. AllFiles = UNION T
  BY <1>1 DEF AllFiles
<1>. HIDE DEF g
<1>4. IsFiniteSet(T)
  BY <1>1, FinitelyMany
<1>5. \A x \in T : IsFiniteSet(x)
  BY <1>2
<1>. HIDE DEF T
<1>6. IsFiniteSet(UNION T)
  BY <1>4, <1>5, FS_UNION
<1>. QED  BY <1>3, <1>6, FS_CardinalityType

LEMMA SourceTypesOf == ScTypes => SC!TypeOK
<1>. SUFFICES ASSUME ScTypes PROVE SC!TypeOK
  OBVIOUS
<1>1. contents \in Seq(Entries) /\ Len(contents) <= Capacity /\ Distinctly(contents)
  BY CacheFacts DEF ScTypes
<1>2. \A e \in DOMAIN events :
        /\ events[e].stack \in EventStacks /\ events[e].reading \subseteq SC!Files
        /\ events[e].alone \in BOOLEAN
  <2>. TAKE e \in DOMAIN events
  <2>1. events[e] \in EventRecord
    BY StackTypes
  <2>. QED  BY <2>1 DEF EventRecord
<1>. QED  BY <1>1, <1>2 DEF ScTypes, SC!TypeOK, Entries, Distinctly

\* An event that is over reads nothing.
LEMMA OverReads ==
  ASSUME ScTypes, ReadsInv, NEW e \in DOMAIN events, SC!Ended(e)
  PROVE  events[e].reading = {}
<1>1. events[e].stack \in Seq(Seq(FrameFiles))
  BY StackTypes
<1>2. Len(events[e].stack) \in Nat /\ DOMAIN events[e].stack = 1..Len(events[e].stack)
  BY <1>1
<1>3. events[e].next > Len(events[e].stack)
  BY DEF SC!Ended
<1>4. CASE events[e].next = 1
  <2>1. Len(events[e].stack) = 0 /\ DOMAIN events[e].stack = {}
    BY <1>2, <1>3, <1>4
  <2>2. StackFiles(e) = {}
    BY <2>1 DEF StackFiles, FilesIn
  <2>. QED  BY <2>2 DEF ReadsInv
<1>. QED  BY <1>4 DEF ReadsInv

LEMMA ScInitial == SC!Init => ScInv
<1>. SUFFICES ASSUME SC!Init PROVE ScInv
  OBVIOUS
<1>1. contents = <<>> /\ events = <<>> /\ troubled = {}
  BY DEF SC!Init
<1>2. \A S : <<>> \in Seq(S)
  BY EmptySeq
<1>3. Len(contents) = 0 /\ DOMAIN contents = {} /\ DOMAIN events = {}
  BY <1>1
<1>4. contents \in Caches
  BY <1>1, <1>2, <1>3, SourceAssumption DEF Caches, Distinctly
<1>5. Stored(contents) = {} /\ Known(contents) = {}
  BY <1>3 DEF Stored, Known
<1>. QED
  BY <1>1, <1>2, <1>3, <1>4, <1>5
     DEF ScInv, ScTypes, ReadsInv, AloneInv, NullInv, RoomInv, MineInv, LinesInv


\* An event comes: the cache has what it had, its own files last.
LEMMA ProcessKeeps ==
  ASSUME ScInv, NEW st \in EventStacks, SC!ProcessEvent(st)
  PROVE  ScInv'
<1>. SUFFICES ASSUME NEW k \in Nat, k = Len(events) + 1 PROVE ScInv'
  <2>1. Len(events) + 1 \in Nat
    BY DEF ScInv, ScTypes
  <2>. QED  BY <2>1
<1>. DEFINE s == SC!Scanned(st)
            N == Len(events)
            F == FilesIn(st)
            new == [stack |-> st, reading |-> s.reads, next |-> 1, lines |-> {},
                    alone |-> \A e \in DOMAIN events : SC!Ended(e)]
            old == [e \in DOMAIN events |->
                      [events[e] EXCEPT !.alone = events[e].alone /\ SC!Ended(e)]]
<1>1. /\ contents' = s.cache /\ troubled' = troubled
      /\ events' = Append(old, new)
  BY DEF SC!ProcessEvent
<1>0. k = N + 1
  OBVIOUS
<1>2. /\ contents \in Caches /\ events \in Seq(EventRecord) /\ N \in Nat
      /\ DOMAIN events = 1..N /\ \A e \in 1..N : events[e] \in EventRecord
  BY DEF ScInv, ScTypes
<1>3. st \in Seq(Seq(FrameFiles))
  BY SourceAssumption DEF FrameFiles
<1>4. ScanOK(contents, s, F)
  BY <1>2, <1>3, ScannedFacts
<1>5. /\ contents' \in Caches /\ Stored(contents') = Stored(contents)
      /\ Known(contents') = Known(contents) /\ Recent(contents', F)
      /\ s.reads = F \ Known(contents) /\ s.reads \subseteq SC!Files
  BY <1>1, <1>4 DEF ScanOK, ScanStates, Known
<1>. HIDE DEF s
<1>6. new \in EventRecord
  <2>1. (\A e \in DOMAIN events : SC!Ended(e)) \in BOOLEAN
    OBVIOUS
  <2>. QED  BY <1>5 DEF EventRecord
<1>7. /\ DOMAIN old = 1..N
      /\ \A e \in 1..N : /\ old[e] \in EventRecord
                         /\ old[e].stack = events[e].stack /\ old[e].reading = events[e].reading
                         /\ old[e].next = events[e].next /\ old[e].lines = events[e].lines
                         /\ old[e].alone <=> events[e].alone /\ SC!Ended(e)
  <2>. SUFFICES ASSUME NEW e \in 1..N
                PROVE  /\ old[e] \in EventRecord
                       /\ old[e].stack = events[e].stack /\ old[e].reading = events[e].reading
                       /\ old[e].next = events[e].next /\ old[e].lines = events[e].lines
                       /\ old[e].alone <=> events[e].alone /\ SC!Ended(e)
    BY <1>2
  <2>1. old[e] = [events[e] EXCEPT !.alone = events[e].alone /\ SC!Ended(e)]
    BY <1>2
  <2>2. events[e] \in EventRecord
    BY <1>2
  <2>3. (events[e].alone /\ SC!Ended(e)) \in BOOLEAN
    OBVIOUS
  <2>. HIDE DEF old
  <2>. QED  BY <2>1, <2>2, <2>3 DEF EventRecord
<1>8. old \in Seq(EventRecord) /\ Len(old) = N
  <2>. HIDE DEF old
  <2>1. old \in [1..N -> EventRecord]
    <3>1. old = [e \in 1..N |-> old[e]]
      BY <1>7 DEF old
    <3>. QED  BY <1>7, <3>1
  <2>. QED  BY <1>2, <2>1, SeqDef
<1>9. /\ new.stack = st /\ new.reading = s.reads /\ new.next = 1 /\ new.lines = {}
      /\ new.alone <=> \A e \in 1..N : SC!Ended(e)
  BY <1>2
<1>. HIDE DEF old, new
<1>10. /\ events' \in Seq(EventRecord) /\ DOMAIN events' = 1..(N + 1)
       /\ \A e \in 1..N : events'[e] = old[e]
       /\ events'[k] = new
  <2>1. /\ events' \in Seq(EventRecord) /\ Len(events') = N + 1
        /\ \A i \in 1..N + 1 : events'[i] = IF i <= N THEN old[i] ELSE new
    BY <1>1, <1>6, <1>8, AppendFacts
  <2>2. /\ DOMAIN events' = 1..(N + 1) /\ N + 1 \in 1..N + 1 /\ ~(N + 1 <= N)
        /\ \A e \in 1..N : e \in 1..N + 1 /\ e <= N
    BY <1>2, <2>1
  <2>. QED  BY <1>0, <2>1, <2>2
<1>. HIDE DEF N, F
<1>11. \A e \in DOMAIN events' : e \in 1..N \/ e = k
  BY <1>0, <1>2, <1>10
<1>12. /\ \A e \in 1..N : StackFiles(e)' = StackFiles(e) /\ (SC!Ended(e)' <=> SC!Ended(e))
       /\ StackFiles(k)' = F
  <2>1. \A e \in 1..N : /\ events'[e].stack = events[e].stack
                        /\ events'[e].next = events[e].next
    BY <1>7, <1>10
  <2>2. events'[k].stack = st
    BY <1>9, <1>10
  <2>. QED  BY <2>1, <2>2 DEF StackFiles, SC!Ended, F
<1>13. 1..N \subseteq DOMAIN events' /\ k \in DOMAIN events' /\ k \notin 1..N
  BY <1>0, <1>2, <1>10
<1>14. AllFiles' = AllFiles \cup F
  <2>1. DOMAIN events = 1..N /\ DOMAIN events' = (1..N) \cup {k}
    BY <1>2, <1>11, <1>13
  <2>2. AllFiles' = UNION {StackFiles(o)' : o \in DOMAIN events'}
    BY DEF AllFiles
  <2>3. ASSUME NEW x PROVE x \in AllFiles' <=> x \in AllFiles \cup F
    BY <1>12, <2>1, <2>2 DEF AllFiles
  <2>. QED  BY <2>3
<1>15. ScTypes'
  <2>1. \A e \in 1..N : events'[e].next \in 1..(Len(events'[e].stack) + 1)
    BY <1>2, <1>7, <1>10 DEF ScInv, ScTypes
  <2>2. events'[k].next \in 1..(Len(events'[k].stack) + 1)
    <3>1. Len(st) \in Nat
      BY <1>3
    <3>. QED  BY <1>9, <1>10, <3>1
  <2>3. troubled' \subseteq SC!Files
    BY <1>1 DEF ScInv, ScTypes
  <2>. QED  BY <1>5, <1>10, <1>11, <2>1, <2>2, <2>3 DEF ScTypes
<1>16. ReadsInv'
  <2>1. \A e \in 1..N : /\ events'[e].reading \subseteq StackFiles(e)'
                        /\ events'[e].next # 1 => events'[e].reading = {}
    BY <1>2, <1>7, <1>10, <1>12 DEF ScInv, ReadsInv
  <2>2. events'[k].reading \subseteq StackFiles(k)' /\ events'[k].next = 1
    BY <1>5, <1>9, <1>10, <1>12
  <2>. QED  BY <1>11, <2>1, <2>2 DEF ReadsInv
<1>17. AloneInv'
  <2>. SUFFICES ASSUME NEW e \in DOMAIN events', NEW o \in DOMAIN events',
                       events'[e].alone, ~SC!Ended(e)', o # e
                PROVE  SC!Ended(o)'
    BY DEF AloneInv
  <2>1. e = k
    BY <1>7, <1>10, <1>11, <1>12
  <2>2. o \in 1..N
    BY <1>11, <2>1
  <2>. QED  BY <1>9, <1>10, <1>12, <2>1, <2>2
<1>18. NullInv'
  BY <1>1, <1>5 DEF ScInv, NullInv
<1>19. IsFiniteSet(AllFiles') /\ Cardinality(AllFiles') \in Nat /\ Cardinality(AllFiles) \in Nat
       /\ Cardinality(AllFiles) <= Cardinality(AllFiles')
  <2>1. IsFiniteSet(AllFiles) /\ Cardinality(AllFiles) \in Nat /\ IsFiniteSet(F)
    BY <1>3, AllFinite, FilesFinite DEF ScInv, F
  <2>2. IsFiniteSet(AllFiles \cup F)
    BY <2>1, FS_Union
  <2>3. Cardinality(AllFiles) <= Cardinality(AllFiles \cup F)
    BY <2>2, FS_Subset
  <2>. QED  BY <1>14, <2>1, <2>2, <2>3, FS_CardinalityType
<1>20. Cardinality(AllFiles') < Capacity => Cardinality(AllFiles) < Capacity
  <2>1. Capacity \in Nat
    BY SourceAssumption
  <2>. QED  BY <1>19, <2>1
<1>21. RoomInv'
  <2>1. Known(contents)' \subseteq AllFiles'
    <3>1. Known(contents)' = Known(contents')
      BY DEF Known, Stored
    <3>. QED  BY <1>5, <1>14, <3>1 DEF ScInv, RoomInv
  <2>2. ASSUME Cardinality(AllFiles') < Capacity, NEW e \in DOMAIN events'
        PROVE  StackFiles(e)' \subseteq Known(contents') \cup events'[e].reading
    <3>1. CASE e \in 1..N
      <4>1. StackFiles(e) \subseteq Known(contents) \cup events[e].reading
        BY <1>2, <1>20, <2>2, <3>1 DEF ScInv, RoomInv
      <4>. QED  BY <1>5, <1>7, <1>10, <1>12, <3>1, <4>1
    <3>2. CASE e = k
      BY <1>5, <1>9, <1>10, <1>12, <3>2
    <3>. QED  BY <1>11, <3>1, <3>2
  <2>. QED  BY <2>1, <2>2 DEF RoomInv, Known, Stored
<1>22. MineInv'
  <2>. SUFFICES ASSUME NEW e \in DOMAIN events', events'[e].alone, ~SC!Ended(e)'
                PROVE  AtHome(e)'
    BY DEF MineInv
  <2>1. e = k
    BY <1>7, <1>10, <1>11, <1>12
  <2>2. events'[e].reading = F \ Known(contents) /\ StackFiles(e)' = F
    BY <1>5, <1>9, <1>10, <1>12, <2>1
  <2>3. /\ F \subseteq Known(contents') \cup events'[e].reading
        /\ events'[e].reading \cap Known(contents') = {}
        /\ Recent(contents', F)
    BY <1>5, <2>2
  <2>. QED  BY <2>2, <2>3 DEF AtHome, Known, Stored, Recent
<1>23. LinesInv'
  <2>. SUFFICES ASSUME NEW e \in DOMAIN events', Fits(e)',
                       NEW n \in DOMAIN events'[e].stack, n < events'[e].next,
                       NEW i \in DOMAIN events'[e].stack[n]
                PROVE  HasLine(e, n, i)'
    BY DEF LinesInv
  <2>1. CASE e \in 1..N
    <3>1. Fits(e)
      BY <1>7, <1>10, <1>12, <1>20, <2>1 DEF Fits
    <3>2. HasLine(e, n, i)
      BY <1>2, <1>7, <1>10, <2>1, <3>1 DEF ScInv, LinesInv
    <3>. QED  BY <1>1, <1>7, <1>10, <2>1, <3>2 DEF HasLine
  <2>2. CASE e = k
    <3>1. n \in Nat \ {0}
      BY <1>3, <1>9, <1>10, <2>2
    <3>. QED  BY <1>9, <1>10, <2>2, <3>1
  <2>. QED  BY <1>11, <2>1, <2>2
<1>. QED
  BY <1>15, <1>16, <1>17, <1>18, <1>21, <1>22, <1>23 DEF ScInv


\* A read ends: the event has its files, as far as they have been read.
LEMMA ReadKeeps ==
  ASSUME ScInv, NEW e \in DOMAIN events, NEW f \in events[e].reading, NEW found \in BOOLEAN,
         SC!ReadEnds(e, f, found)
  PROVE  ScInv'
<1>1. /\ contents' = SC!Set(contents, f, found)
      /\ events' = [events EXCEPT ![e].reading = @ \ {f}]
      /\ troubled' = IF found THEN troubled ELSE troubled \cup {f}
  BY DEF SC!ReadEnds
<1>2. /\ contents \in Caches /\ events \in Seq(EventRecord) /\ troubled \subseteq SC!Files
      /\ Len(events) \in Nat /\ DOMAIN events = 1..Len(events)
      /\ \A o \in DOMAIN events : events[o] \in EventRecord
  BY DEF ScInv, ScTypes
<1>3. f \in SC!Files /\ f \in StackFiles(e) /\ f \in AllFiles
  BY <1>2, StackTypes DEF EventRecord, ScInv, ReadsInv
<1>4. ~SC!Ended(e)
  BY OverReads DEF ScInv
<1>5. /\ contents' \in Caches /\ f \in Known(contents')
      /\ Known(contents') \subseteq Known(contents) \cup {f}
      /\ Stored(contents') \subseteq Stored(contents) \cup {[file |-> f, found |-> found]}
      /\ Len(contents) < Capacity => Known(contents) \subseteq Known(contents')
      /\ \A F : /\ Recent(contents, F) /\ f \in F /\ f \notin Known(contents)
                /\ Len(contents) >= Capacity => contents[1].file \notin F
                => Recent(contents', F) /\ Known(contents) \cap F \subseteq Known(contents')
  BY <1>1, <1>2, <1>3, SetFacts
<1>6. /\ DOMAIN events' = DOMAIN events
      /\ \A o \in DOMAIN events :
           /\ events'[o] \in EventRecord
           /\ events'[o].stack = events[o].stack /\ events'[o].next = events[o].next
           /\ events'[o].lines = events[o].lines /\ events'[o].alone = events[o].alone
           /\ events'[o].reading = IF o = e THEN events[o].reading \ {f} ELSE events[o].reading
  <2>1. \A o \in DOMAIN events :
          events'[o] = IF o = e THEN [events[o] EXCEPT !.reading = events[e].reading \ {f}]
                       ELSE events[o]
    BY <1>1
  <2>2. DOMAIN events' = DOMAIN events
    BY <1>1
  <2>. SUFFICES ASSUME NEW o \in DOMAIN events
                PROVE
           /\ events'[o] \in EventRecord
           /\ events'[o].stack = events[o].stack /\ events'[o].next = events[o].next
           /\ events'[o].lines = events[o].lines /\ events'[o].alone = events[o].alone
           /\ events'[o].reading = IF o = e THEN events[o].reading \ {f} ELSE events[o].reading
    BY <2>2
  <2>3. events[o] \in EventRecord
    BY <1>2
  <2>4. CASE o = e
    <3>1. events'[o] = [events[o] EXCEPT !.reading = events[o].reading \ {f}]
      BY <2>1, <2>4
    <3>. QED  BY <2>3, <2>4, <3>1 DEF EventRecord
  <2>5. CASE o # e
    <3>1. events'[o] = events[o]
      BY <2>1, <2>5
    <3>. QED  BY <2>3, <2>5, <3>1
  <2>. QED  BY <2>4, <2>5
<1>7. events' \in Seq(EventRecord)
  <2>1. events' = [o \in 1..Len(events) |-> events'[o]]
    BY <1>1, <1>2
  <2>2. events' \in [1..Len(events) -> EventRecord]
    BY <1>2, <1>6, <2>1
  <2>. QED  BY <1>2, <2>2, SeqDef
<1>8. \A o \in DOMAIN events : StackFiles(o)' = StackFiles(o) /\ (SC!Ended(o)' <=> SC!Ended(o))
  BY <1>6 DEF StackFiles, SC!Ended
<1>9. AllFiles' = AllFiles
  BY <1>6, <1>8 DEF AllFiles
<1>10. troubled \subseteq troubled' /\ troubled' \subseteq SC!Files /\ (~found => f \in troubled')
  BY <1>1, <1>2, <1>3
<1>11. ScTypes'
  BY <1>5, <1>6, <1>7, <1>10 DEF ScInv, ScTypes
<1>12. ReadsInv'
  BY <1>6, <1>8 DEF ScInv, ReadsInv
<1>13. AloneInv'
  BY <1>6, <1>8 DEF ScInv, AloneInv
<1>14. NullInv'
  BY <1>5, <1>10 DEF ScInv, NullInv
<1>15. RoomInv'
  <2>1. Known(contents') \subseteq AllFiles
    BY <1>3, <1>5 DEF ScInv, RoomInv
  <2>2. ASSUME Cardinality(AllFiles) < Capacity, NEW o \in DOMAIN events
        PROVE  StackFiles(o) \subseteq Known(contents') \cup events'[o].reading
    <3>1. IsFiniteSet(AllFiles) /\ Cardinality(AllFiles) \in Nat /\ Len(contents) \in Nat
          /\ Capacity \in Nat
      BY <1>2, AllFinite, SourceAssumption DEF ScInv, Caches
    <3>2. Len(contents) <= Cardinality(AllFiles)
      BY <1>2, <3>1, CacheFits DEF ScInv, RoomInv
    <3>3. Known(contents) \subseteq Known(contents')
      BY <1>5, <2>2, <3>1, <3>2
    <3>4. StackFiles(o) \subseteq Known(contents) \cup events[o].reading
      BY <2>2 DEF ScInv, RoomInv
    <3>. QED  BY <1>5, <1>6, <3>3, <3>4
  <2>. QED  BY <1>6, <1>8, <1>9, <2>1, <2>2 DEF RoomInv, Known, Stored
<1>16. MineInv'
  <2>. SUFFICES ASSUME NEW o \in DOMAIN events', events'[o].alone, ~SC!Ended(o)',
                       Cardinality(StackFiles(o)') <= Capacity
                PROVE  AtHome(o)'
    BY DEF MineInv
  <2>1. o = e
    BY <1>4, <1>6, <1>8 DEF ScInv, AloneInv
  <2>2. AtHome(e)
    BY <1>4, <1>6, <1>8, <2>1 DEF ScInv, MineInv
  <2>. DEFINE F == StackFiles(e)
  <2>3. /\ F \subseteq Known(contents) \cup events[e].reading
        /\ events[e].reading \cap Known(contents) = {} /\ f \notin Known(contents)
        /\ Recent(contents, F)
    BY <2>2 DEF AtHome
  <2>4. Len(contents) >= Capacity => contents[1].file \notin F
    <3>. SUFFICES ASSUME Len(contents) >= Capacity, contents[1].file \in F PROVE FALSE
      OBVIOUS
    <3>1. Len(contents) \in Nat /\ DOMAIN contents = 1..Len(contents) /\ Capacity \in Nat \ {0}
      BY <1>2, SourceAssumption DEF Caches
    <3>2. \A j \in DOMAIN contents : contents[j].file \in F
      <4>1. 1 \in DOMAIN contents /\ \A j \in DOMAIN contents : j = 1 \/ 1 < j
        BY <3>1
      <4>. QED  BY <2>3, <4>1 DEF Recent
    <3>3. Known(contents) \subseteq F
      BY <3>2, KnownIs
    <3>4. IsFiniteSet(F) /\ Cardinality(F) \in Nat /\ Cardinality(F) <= Capacity
      BY <1>8, <2>1, StackTypes DEF ScInv
    <3>5. Len(contents) < Cardinality(F)
      BY <1>2, <1>3, <2>3, <3>3, <3>4, CacheFits
    <3>. QED  BY <3>1, <3>4, <3>5
  <2>5. Recent(contents', F) /\ Known(contents) \cap F \subseteq Known(contents')
    BY <1>3, <1>5, <2>3, <2>4
  <2>6. events'[e].reading = events[e].reading \ {f} /\ StackFiles(e)' = F
    BY <1>6, <1>8
  <2>. HIDE DEF F
  <2>7. /\ F \subseteq Known(contents') \cup events'[e].reading
        /\ events'[e].reading \cap Known(contents') = {}
    BY <1>5, <2>3, <2>5, <2>6
  <2>. QED  BY <2>1, <2>5, <2>6, <2>7 DEF AtHome, Known, Stored, Recent
<1>17. LinesInv'
  <2>1. \A o \in DOMAIN events : Fits(o)' => Fits(o)
    BY <1>6, <1>8, <1>9 DEF Fits
  <2>2. \A n, i : \A o \in DOMAIN events : HasLine(o, n, i) => HasLine(o, n, i)'
    BY <1>6, <1>10 DEF HasLine
  <2>. QED  BY <1>6, <2>1, <2>2 DEF ScInv, LinesInv
<1>. QED
  BY <1>11, <1>12, <1>13, <1>14, <1>15, <1>16, <1>17 DEF ScInv

\* An exception gets its lines: its files are in the cache.
LEMMA AddKeeps ==
  ASSUME ScInv, NEW e \in DOMAIN events, SC!AddLines(e)
  PROVE  ScInv'
<1>. DEFINE n == events[e].next
            trace == events[e].stack[n]
            more == {<<n, i>> : i \in {j \in DOMAIN trace : SC!Found(contents, trace[j])}}
<1>1. /\ ~SC!Ended(e) /\ events[e].reading = {} /\ troubled' = troubled
      /\ contents' = SC!LookedUp(contents, trace)
      /\ events' = [events EXCEPT ![e].next = n + 1, ![e].lines = @ \cup more]
  BY DEF SC!AddLines, SC!Adding
<1>2. /\ contents \in Caches /\ events \in Seq(EventRecord) /\ troubled \subseteq SC!Files
      /\ Len(events) \in Nat /\ DOMAIN events = 1..Len(events)
      /\ \A o \in DOMAIN events : events[o] \in EventRecord
  BY DEF ScInv, ScTypes
<1>3. events[e].stack \in Seq(Seq(FrameFiles))
  BY StackTypes DEF ScInv
<1>4. n \in 1..Len(events[e].stack) /\ n \in Nat /\ Len(events[e].stack) \in Nat
      /\ DOMAIN events[e].stack = 1..Len(events[e].stack)
  <2>1. Len(events[e].stack) \in Nat /\ n \in 1..(Len(events[e].stack) + 1)
        /\ DOMAIN events[e].stack = 1..Len(events[e].stack)
    BY <1>3 DEF ScInv, ScTypes
  <2>2. ~(n > Len(events[e].stack))
    BY <1>1 DEF SC!Ended
  <2>. QED  BY <2>1, <2>2
<1>5. trace \in Seq(FrameFiles) /\ DOMAIN trace \subseteq Nat
  <2>1. trace \in Seq(FrameFiles)
    BY <1>3, <1>4
  <2>. QED  BY <2>1
<1>6. contents' \in Caches /\ Stored(contents') = Stored(contents)
  BY <1>1, <1>2, <1>5, LookedUpFacts
<1>7. Known(contents') = Known(contents)
  BY <1>6 DEF Known
<1>8. more \subseteq Nat \X Nat
  BY <1>4, <1>5
<1>9. /\ DOMAIN events' = DOMAIN events
      /\ \A o \in DOMAIN events :
           /\ events'[o] \in EventRecord
           /\ events'[o].stack = events[o].stack /\ events'[o].reading = events[o].reading
           /\ events'[o].alone = events[o].alone
           /\ events'[o].next = IF o = e THEN n + 1 ELSE events[o].next
           /\ events'[o].lines = IF o = e THEN events[o].lines \cup more ELSE events[o].lines
  <2>1. n + 1 \in Nat
    BY <1>4
  <2>. HIDE DEF more, n
  <2>2. \A o \in DOMAIN events :
          events'[o] = IF o = e THEN [events[o] EXCEPT !.next = n + 1,
                                                       !.lines = events[e].lines \cup more]
                       ELSE events[o]
    BY <1>1
  <2>3. DOMAIN events' = DOMAIN events
    BY <1>1
  <2>. SUFFICES ASSUME NEW o \in DOMAIN events
                PROVE
           /\ events'[o] \in EventRecord
           /\ events'[o].stack = events[o].stack /\ events'[o].reading = events[o].reading
           /\ events'[o].alone = events[o].alone
           /\ events'[o].next = IF o = e THEN n + 1 ELSE events[o].next
           /\ events'[o].lines = IF o = e THEN events[o].lines \cup more ELSE events[o].lines
    BY <2>3
  <2>4. events[o] \in EventRecord
    BY <1>2
  <2>5. CASE o = e
    <3>1. events'[o] = [events[o] EXCEPT !.next = n + 1, !.lines = events[o].lines \cup more]
      BY <2>2, <2>5
    <3>. QED  BY <1>8, <2>1, <2>4, <2>5, <3>1 DEF EventRecord
  <2>6. CASE o # e
    <3>1. events'[o] = events[o]
      BY <2>2, <2>6
    <3>. QED  BY <2>4, <2>6, <3>1
  <2>. QED  BY <2>5, <2>6
<1>10. events' \in Seq(EventRecord)
  <2>1. events' = [o \in 1..Len(events) |-> events'[o]]
    BY <1>1, <1>2
  <2>2. events' \in [1..Len(events) -> EventRecord]
    BY <1>2, <1>9, <2>1
  <2>. QED  BY <1>2, <2>2, SeqDef
<1>11. \A o \in DOMAIN events : StackFiles(o)' = StackFiles(o)
  BY <1>9 DEF StackFiles
<1>12. AllFiles' = AllFiles
  BY <1>9, <1>11 DEF AllFiles
<1>13. \A o \in DOMAIN events : SC!Ended(o) => SC!Ended(o)'
  <2>1. \A o \in DOMAIN events : o # e => (SC!Ended(o) => SC!Ended(o)')
    BY <1>9 DEF SC!Ended
  <2>. QED  BY <1>1, <2>1
<1>14. ScTypes'
  <2>1. \A o \in DOMAIN events : events'[o].next \in 1..(Len(events'[o].stack) + 1)
    <3>1. n + 1 \in 1..(Len(events[e].stack) + 1)
      BY <1>4
    <3>. QED  BY <1>9, <3>1 DEF ScInv, ScTypes
  <2>. QED  BY <1>1, <1>2, <1>6, <1>9, <1>10, <2>1 DEF ScTypes
<1>15. ReadsInv'
  <2>1. ASSUME NEW o \in DOMAIN events
        PROVE  /\ events'[o].reading \subseteq StackFiles(o)'
               /\ events'[o].next # 1 => events'[o].reading = {}
    <3>1. events[o].reading \subseteq StackFiles(o) /\ (events[o].next # 1 => events[o].reading = {})
      <4>1. ReadsInv
        BY DEF ScInv
      <4>. QED  BY ONLY <4>1, <2>1 DEF ReadsInv
    <3>2. CASE o = e
      BY <1>1, <1>9, <3>2
    <3>3. CASE o # e
      BY <1>9, <1>11, <3>1, <3>3
    <3>. QED  BY <3>2, <3>3
  <2>. QED  BY <1>9, <2>1 DEF ReadsInv
<1>16. AloneInv'
  BY <1>9, <1>13 DEF ScInv, AloneInv
<1>17. NullInv'
  BY <1>1, <1>6 DEF ScInv, NullInv
<1>18. RoomInv'
  BY <1>7, <1>9, <1>11, <1>12 DEF ScInv, RoomInv, Known, Stored
<1>19. MineInv'
  <2>. SUFFICES ASSUME NEW o \in DOMAIN events', events'[o].alone, ~SC!Ended(o)',
                       Cardinality(StackFiles(o)') <= Capacity
                PROVE  AtHome(o)'
    BY DEF MineInv
  <2>1. AtHome(o) /\ o \in DOMAIN events /\ events[o].alone /\ ~SC!Ended(o)
    BY <1>9, <1>11, <1>13 DEF ScInv, MineInv
  <2>2. events[o].reading = {}
    BY <1>1, <2>1 DEF ScInv, AloneInv
  <2>3. /\ StackFiles(o)' \subseteq Known(contents') \cup events'[o].reading
        /\ events'[o].reading = {}
    BY <1>7, <1>9, <1>11, <2>1, <2>2 DEF AtHome
  <2>. QED  BY <2>3 DEF AtHome, Known, Stored
<1>20. LinesInv'
  <2>. SUFFICES ASSUME NEW o \in DOMAIN events', Fits(o)',
                       NEW m \in DOMAIN events'[o].stack, m < events'[o].next,
                       NEW i \in DOMAIN events'[o].stack[m]
                PROVE  HasLine(o, m, i)'
    BY DEF LinesInv
  <2>1. Fits(o) /\ o \in DOMAIN events
    BY <1>9, <1>11, <1>12 DEF Fits
  <2>2. CASE m < events[o].next
    <3>1. HasLine(o, m, i)
      BY <1>9, <2>1, <2>2 DEF ScInv, LinesInv
    <3>2. events[o].lines \subseteq events'[o].lines
      BY <1>9, <2>1
    <3>. QED  BY <1>1, <1>9, <2>1, <3>1, <3>2 DEF HasLine
  <2>3. CASE ~(m < events[o].next)
    <3>1. o = e
      BY <1>9, <2>1, <2>3
    <3>2. m = n
      <4>1. events'[e].stack = events[e].stack /\ events'[e].next = n + 1
        BY <1>9
      <4>2. m \in DOMAIN events[e].stack /\ m < n + 1 /\ ~(m < n)
        BY <2>3, <3>1, <4>1
      <4>3. m \in Nat
        BY <1>4, <4>2
      <4>4. n \in Nat
        BY <1>4
      <4>. HIDE DEF n
      <4>. QED  BY <4>2, <4>3, <4>4
    <3>3. StackFiles(e) \subseteq Known(contents)
      <4>0. RoomInv /\ MineInv /\ ~SC!Ended(e) /\ events[e].reading = {}
        BY <1>1 DEF ScInv
      <4>1. CASE Cardinality(AllFiles) < Capacity
        BY ONLY <4>0, <4>1, e \in DOMAIN events DEF RoomInv
      <4>2. CASE events[e].alone /\ Cardinality(StackFiles(e)) <= Capacity
        BY ONLY <4>0, <4>2, e \in DOMAIN events DEF MineInv, AtHome
      <4>. QED  BY <2>1, <3>1, <4>1, <4>2 DEF Fits
    <3>. DEFINE g == trace[i]
    <3>4. i \in DOMAIN trace /\ g = events'[e].stack[m][i]
      BY <1>9, <3>1, <3>2
    <3>5. CASE g = NoFile
      BY <3>1, <3>4, <3>5 DEF HasLine
    <3>6. CASE g # NoFile
      <4>1. g \in SC!Range(trace)
        BY <3>4 DEF SC!Range
      <4>2. g \in StackFiles(e)
        BY <1>4, <3>6, <4>1 DEF StackFiles, FilesIn
      <4>3. PICK k \in DOMAIN contents : contents[k].file = g
        BY <3>3, <4>2, KnownIs
      <4>4. contents[k] \in Entries
        BY <1>2, CacheFacts
      <4>5. CASE contents[k].found
        <5>1. contents[k] = [file |-> g, found |-> TRUE]
          <6>. HIDE DEF g
          <6>. QED  BY <4>3, <4>4, <4>5 DEF Entries
        <5>2. SC!Found(contents, g)
          BY <5>1 DEF SC!Found
        <5>3. <<n, i>> \in more
          BY <3>4, <5>2
        <5>. QED  BY <1>9, <3>1, <3>2, <5>3 DEF HasLine
      <4>6. CASE ~contents[k].found
        <5>1. g \in troubled
          BY <4>3, <4>6 DEF ScInv, NullInv, Stored
        <5>2. events'[e].stack[m][i] \in troubled'
          <6>1. troubled' = troubled
            BY <1>1
          <6>. HIDE DEF g
          <6>. QED  BY <3>4, <5>1, <6>1
        <5>. QED  BY <3>1, <5>2 DEF HasLine
      <4>. QED  BY <4>5, <4>6
    <3>. QED  BY <3>5, <3>6
  <2>. QED  BY <2>2, <2>3
<1>. QED
  BY <1>14, <1>15, <1>16, <1>17, <1>18, <1>19, <1>20 DEF ScInv

LEMMA ScStep == ScInv /\ [SC!Next]_SC!vars => ScInv'
<1>. SUFFICES ASSUME ScInv, [SC!Next]_SC!vars PROVE ScInv'
  OBVIOUS
<1>1. CASE UNCHANGED SC!vars
  <2>1. contents' = contents /\ events' = events /\ troubled' = troubled
    BY <1>1 DEF SC!vars
  <2>2. /\ \A e : StackFiles(e)' = StackFiles(e) /\ (SC!Ended(e)' <=> SC!Ended(e))
        /\ Known(contents)' = Known(contents) /\ Stored(contents)' = Stored(contents)
    BY <2>1 DEF StackFiles, SC!Ended, Known, Stored
  <2>3. AllFiles' = AllFiles
    BY <2>1, <2>2 DEF AllFiles
  <2>4. ScTypes' /\ ReadsInv' /\ AloneInv' /\ NullInv' /\ RoomInv'
    <3>1. ScTypes'
      BY <2>1 DEF ScInv, ScTypes
    <3>2. ReadsInv'
      BY <2>1, <2>2 DEF ScInv, ReadsInv
    <3>3. AloneInv'
      BY <2>1, <2>2 DEF ScInv, AloneInv
    <3>4. NullInv'
      BY <2>1, <2>2 DEF ScInv, NullInv
    <3>5. RoomInv'
      BY <2>1, <2>2, <2>3 DEF ScInv, RoomInv
    <3>. QED  BY <3>1, <3>2, <3>3, <3>4, <3>5
  <2>5. MineInv'
    <3>1. \A e : AtHome(e) => AtHome(e)'
      BY <2>1, <2>2 DEF AtHome, Recent
    <3>. QED  BY <2>1, <2>2, <3>1 DEF ScInv, MineInv
  <2>6. LinesInv'
    <3>1. \A e : Fits(e)' => Fits(e)
      BY <2>1, <2>2, <2>3 DEF Fits
    <3>. QED  BY <2>1, <3>1 DEF ScInv, LinesInv, HasLine
  <2>. QED  BY <2>4, <2>5, <2>6 DEF ScInv
<1>2. ASSUME NEW st \in EventStacks, SC!ProcessEvent(st) PROVE ScInv'
  BY <1>2, ProcessKeeps
<1>3. ASSUME NEW e \in DOMAIN events, SC!AddLines(e) PROVE ScInv'
  BY <1>3, AddKeeps
<1>4. ASSUME NEW e \in DOMAIN events, NEW f \in events[e].reading, NEW found \in BOOLEAN,
             SC!ReadEnds(e, f, found)
      PROVE  ScInv'
  BY <1>4, ReadKeeps
<1>. QED  BY <1>1, <1>2, <1>3, <1>4 DEF SC!Next

\* What the cache and the events are at all times (contextlines.ts:51-131).
THEOREM SourceInvariant == SC!Spec => []ScInv
<1>. QED  BY ScInitial, ScStep, PTL DEF SC!Spec

\* What is in the cache of the source files, in the events and in their reads are values
\* of their kinds, no file is in the cache twice, and the cache is never over its size.
THEOREM SourceTypes == SC!Spec => []SC!TypeOK
<1>1. ScInv => ScTypes
  BY DEF ScInv
<1>. QED  BY <1>1, SourceInvariant, SourceTypesOf, PTL

LEMMA LinesOf == ScInv => LinesOfEveryFrame
<1>. SUFFICES ASSUME ScInv PROVE SC!LinesOfEveryFrame
  BY DEF LinesOfEveryFrame
<1>1. \A T : SC!Cardinality(T) = Cardinality(T)
  BY DEF SC!Cardinality, Cardinality
<1>2. \A e \in DOMAIN events : SC!FilesOf(e) = StackFiles(e)
  BY DEF SC!FilesOf, StackFiles, FilesIn
<1>3. UNION {SC!FilesOf(o) : o \in DOMAIN events} = AllFiles
  BY <1>2 DEF AllFiles
<1>. SUFFICES ASSUME NEW e \in DOMAIN events, SC!Ended(e), Fits(e),
                     NEW n \in DOMAIN events[e].stack, NEW i \in DOMAIN events[e].stack[n]
              PROVE  HasLine(e, n, i)
  BY <1>1, <1>2, <1>3 DEF SC!LinesOfEveryFrame, Fits, HasLine
<1>4. events[e].stack \in Seq(Seq(FrameFiles))
  BY StackTypes DEF ScInv
<1>5. n < events[e].next
  <2>1. Len(events[e].stack) \in Nat /\ n \in 1..Len(events[e].stack)
        /\ events[e].next \in 1..(Len(events[e].stack) + 1)
    BY <1>4 DEF ScInv, ScTypes
  <2>. QED  BY <2>1 DEF SC!Ended
<1>. QED  BY <1>5 DEF ScInv, LinesInv

\* However the reads of the events interleave and whatever the cache held: when the files of
\* an event that had the cache to itself fit into it, and when the files of all events leave
\* room in it, every frame gets its lines unless its file could not be read.
THEOREM FramesGetTheirLines == SC!Spec => []LinesOfEveryFrame
<1>. QED  BY SourceInvariant, LinesOf, PTL

-----------------------------------------------------------------------------
(* The composition.                                                        *)

LEMMA PartsStart ==
  PartsInit => LV!Init /\ TA!Init /\ NS!Init /\ HC!Init /\ LT!LtInit /\ SC!Init
<1>. SUFFICES ASSUME PartsInit
              PROVE  LV!Init /\ TA!Init /\ NS!Init /\ HC!Init /\ LT!LtInit /\ SC!Init
  OBVIOUS
<1>1. LV!Init
  <2>1. LV!InitWith([where |-> "sync", all |-> FALSE]) => LV!Init
    <3>1. [where |-> "sync", all |-> FALSE] \in [where : {"sync", "worker"}, all : BOOLEAN]
      OBVIOUS
    <3>. QED  BY <3>1 DEF LV!Init
  <2>. QED  BY <2>1 DEF PartsInit
<1>2. TA!Init
  BY DEF PartsInit, TA!Init
<1>3. HC!Init
  <2>1. HC!InitWith("clientRequest", "identity") => HC!Init
    BY DEF HC!Init, HC!Messages
  <2>. QED  BY <2>1 DEF PartsInit
<1>4. LT!LtInit
  <2>. DEFINE t == [lib |-> "pino", pkg |-> "otel", disabled |-> FALSE, mixin |-> FALSE]
  <2>1. t \in LT!Transports
    BY DEF LT!Transports
  <2>. HIDE DEF t
  <2>2. LT!InitWith(t) => LT!LtInit
    BY <2>1 DEF LT!LtInit
  <2>. QED  BY <2>2 DEF PartsInit, t
<1>. QED  BY <1>1, <1>2, <1>3, <1>4 DEF PartsInit

\* A step of the composition is a step of one part, and the others stutter.
LEMMA PartsMove ==
  [PartsNext]_partsVars =>
    /\ [LV!Next]_LV!lvVars /\ [TA!Next]_TA!taVars /\ [NS!Next]_NS!sdkVars
    /\ [HC!Next]_HC!hcVars /\ [LT!LtNext]_LT!ltVars /\ [SC!Next]_SC!vars
BY DEF PartsNext, partsVars, lvVars, taVars, sdkVars, hcVars, ltVars, scVars, LV!lvVars,
       TA!taVars, NS!sdkVars, HC!hcVars, LT!ltVars, SC!vars

\* The composition implements each of its parts.
THEOREM PartsImplementEach ==
  PartsSpec => LV!Spec /\ TA!Spec /\ NS!Spec /\ HC!Spec /\ LT!LtSpec /\ SC!Spec
BY PartsStart, PartsMove, PTL
   DEF PartsSpec, LV!Spec, TA!Spec, NS!Spec, HC!Spec, LT!LtSpec, SC!Spec

\* Which part runs does not change.
LEMMA OnePart ==
  PartsSpec => [](part \in {"variables", "attributes", "sdk", "http", "logs", "lines"})
<1>. DEFINE P == part \in {"variables", "attributes", "sdk", "http", "logs", "lines"}
<1>1. PartsInit => P
  BY DEF PartsInit
<1>2. P /\ [PartsNext]_partsVars => P'
  BY DEF PartsNext, partsVars
<1>. QED  BY <1>1, <1>2, PTL DEF PartsSpec

\* The state of each part stays in its types (node-opentelemetry/src, otel-logger/src and
\* instrumentation-exception/src/node).
THEOREM PartsTypes == PartsSpec => []TypesOK
<1>1. /\ part \in {"variables", "attributes", "sdk", "http", "logs", "lines"}
      /\ LV!TypeOK /\ TA!TypeOK /\ NS!TypeOK /\ HC!HcTypeOK /\ LT!LtTypeOK /\ SC!TypeOK
      => TypesOK
  <2>. SUFFICES ASSUME part \in {"variables", "attributes", "sdk", "http", "logs", "lines"},
                       LV!TypeOK, TA!TypeOK, NS!TypeOK, HC!HcTypeOK, LT!LtTypeOK, SC!TypeOK
                PROVE  TypesOK
    OBVIOUS
  <2>. QED  BY DEF TypesOK
<1>. QED
  BY <1>1, OnePart, PartsImplementEach, CaptureTypes, AttributeTypes, SdkTypes, HttpTypes,
     TransportTypes, SourceTypes, PTL

\* What holds of the parts holds of their composition.
THEOREM PartsAreSafe ==
  PartsSpec => [](/\ CapturesServeTheirThrow /\ AttributesOfTheTrace /\ ExitAfterFlush
                  /\ NothingDeniedRecorded /\ ClosedWithNothingLeft /\ LinesOfEveryFrame)
BY PartsImplementEach, CapturesServe, TraceKeepsItsAttributes,
   SignalsWaitForTheFlush, DeniedStaysOff, ClosedTransportsAreEmpty, FramesGetTheirLines, PTL

=============================================================================
