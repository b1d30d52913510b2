---------------------- MODULE MutationRateLimiterProofs ----------------------
(* Theorems about MutationRateLimiter, for any nodes, size and rate. *)
EXTENDS MutationRateLimiter, TLAPS

\* A node is reported when its bucket runs empty for the first time, and only
\* then; nothing is left out of a bucket that has not run empty.
ReportInv ==
  /\ \A n \in Nodes : reports[n] = IF n \in loggedTracker THEN 1 ELSE 0
  /\ \A n \in Nodes : mutationBuckets[n] = 0 => n \in loggedTracker
  /\ blocked \subseteq loggedTracker

IInv == LimiterTypeOK /\ ReportInv

\* No more passes than there are tokens.
LEMMA PassingLemma ==
  ASSUME LimiterTypeOK, NEW n \in Nodes, NEW c \in Nat
  PROVE  /\ Tokens(n) \in 0..BucketSize
         /\ Passing(n, c) \in 0..Tokens(n)
         /\ Passing(n, c) <= c
         /\ Passing(n, c) < c => Passing(n, c) = Tokens(n)
BY LimiterAssumption DEF LimiterTypeOK, Tokens, Passing, Absent

LEMMA ThrottleLemma ==
  ASSUME IInv, NEW changes \in [Nodes -> 0..MaxChanges], ThrottleMutations(changes)
  PROVE  IInv'
<1>. USE LimiterAssumption DEF IInv, ThrottleMutations
<1>. DEFINE emptied == {n \in Nodes : changes[n] > 0 /\ Tokens(n) > 0
                                      /\ Passing(n, changes[n]) = Tokens(n)}
<1>1. mutationBuckets' \in [Nodes -> {Absent} \cup 0..BucketSize - 1]
  <2>. SUFFICES ASSUME NEW n \in Nodes
                PROVE  mutationBuckets'[n] \in {Absent} \cup 0..BucketSize - 1
    OBVIOUS
  <2>1. CASE changes[n] = 0 \/ mutationBuckets[n] = 0
    BY <2>1 DEF LimiterTypeOK
  <2>2. CASE ~(changes[n] = 0 \/ mutationBuckets[n] = 0)
    BY <2>2 DEF LimiterTypeOK, Tokens, Passing, Absent
  <2>. QED  BY <2>1, <2>2
<1>2. kept' \in [Nodes -> 0..BucketSize]
  BY PassingLemma
<1>3. loggedTracker' = loggedTracker \cup emptied
  OBVIOUS
<1>4. \A n \in Nodes : reports'[n] = IF n \in loggedTracker' THEN 1 ELSE 0
  BY <1>3 DEF LimiterTypeOK, ReportInv, Reported
<1>5. reports' \in [Nodes -> 0..1]
  BY <1>4
<1>6. LimiterTypeOK'
  BY <1>1, <1>2, <1>3, <1>5 DEF LimiterTypeOK
<1>7. \A n \in Nodes : mutationBuckets'[n] = 0 => n \in loggedTracker'
  BY <1>3 DEF LimiterTypeOK, ReportInv, Tokens, Passing, Absent
<1>8. \A n \in Nodes : kept'[n] < changes[n] => n \in loggedTracker'
  <2>. SUFFICES ASSUME NEW n \in Nodes, Passing(n, changes[n]) < changes[n]
                PROVE  n \in loggedTracker'
    OBVIOUS
  <2>1. changes[n] > 0 /\ Passing(n, changes[n]) = Tokens(n)
    BY PassingLemma
  <2>2. CASE Tokens(n) > 0
    BY <1>3, <2>1, <2>2
  <2>3. CASE Tokens(n) = 0
    BY <1>3, <2>3 DEF ReportInv, Tokens
  <2>. QED  BY <2>2, <2>3, PassingLemma
<1>9. blocked' \subseteq loggedTracker'
  BY <1>3, <1>8 DEF ReportInv
<1>. QED  BY <1>4, <1>6, <1>7, <1>9 DEF ReportInv

LEMMA RefillLemma ==
  ASSUME IInv, RefillBuckets
  PROVE  IInv'
<1>. USE LimiterAssumption DEF IInv, RefillBuckets
<1>1. \A n \in Nodes : Refilled(n) \in {Absent} \cup 1..BucketSize - 1
  BY DEF LimiterTypeOK, Refilled, Absent
<1>2. mutationBuckets' \in [Nodes -> {Absent} \cup 0..BucketSize - 1]
  BY <1>1
<1>3. LimiterTypeOK'
  BY <1>2 DEF LimiterTypeOK
<1>4. ReportInv'
  BY <1>1 DEF ReportInv, Absent
<1>. QED  BY <1>3, <1>4

LEMMA Invariance == LimiterSpec => []IInv
<1>1. LimiterInit => IInv
  BY LimiterAssumption DEF LimiterInit, IInv, LimiterTypeOK, ReportInv, Absent
<1>2. IInv /\ [LimiterNext]_limiterVars => IInv'
  <2>. SUFFICES ASSUME IInv, [LimiterNext]_limiterVars PROVE IInv'
    OBVIOUS
  <2>1. CASE UNCHANGED limiterVars
    BY <2>1 DEF limiterVars, IInv, LimiterTypeOK, ReportInv
  <2>. QED  BY <2>1, ThrottleLemma, RefillLemma DEF LimiterNext
<1>. QED  BY <1>1, <1>2, PTL DEF LimiterSpec

-----------------------------------------------------------------------------
\* Every variable keeps its type; in particular no bucket exists that is full.
THEOREM TypeCorrect == LimiterSpec => []LimiterTypeOK
BY Invariance, PTL DEF IInv

\* A node with changes left out was reported, and no node is reported twice
\* (sessionrecording-utils.ts:208-213).
THEOREM ReportedOnce == LimiterSpec => []BlockedReportedOnce
<1>1. IInv => BlockedReportedOnce
  BY DEF IInv, LimiterTypeOK, ReportInv, BlockedReportedOnce
<1>. QED  BY <1>1, Invariance, PTL

\* The limiter implements a leaky bucket per node: whatever the events, what
\* passes never exceeds the size of the bucket plus what leaked, and nothing that
\* fits is left out (sessionrecording-utils.ts:143-151, 194-216).
THEOREM LeakyBucketImplemented == LimiterSpec => ImplementsLeakyBucket
<1>. USE LimiterAssumption
<1>1. LimiterInit => Limit!Init
  BY DEF LimiterInit, Limit!Init, Tokens
<1>2. ASSUME IInv, NEW changes \in [Nodes -> 0..MaxChanges],
             ThrottleMutations(changes)
      PROVE  Limit!Burst
  <2>. USE <1>2 DEF ThrottleMutations
  <2>1. asked' \in [Nodes -> Nat]
    OBVIOUS
  <2>2. ASSUME NEW n \in Nodes
        PROVE  kept'[n] = Limit!AtMost(asked'[n], BucketSize - (BucketSize - Tokens(n)))
    <3>1. Tokens(n) \in 0..BucketSize
      BY PassingLemma DEF IInv
    <3>. QED  BY <3>1 DEF Limit!AtMost, Passing
  <2>3. ASSUME NEW n \in Nodes
        PROVE  BucketSize - Tokens(n)' = (BucketSize - Tokens(n)) + kept'[n]
    BY DEF IInv, LimiterTypeOK, Tokens, Passing, Absent
  <2>. QED  BY <2>1, <2>2, <2>3 DEF Limit!Burst
<1>3. ASSUME IInv, RefillBuckets
      PROVE  Limit!Leak
  <2>1. ASSUME NEW n \in Nodes
        PROVE  BucketSize - Tokens(n)' =
                 IF BucketSize - Tokens(n) > RefillRate
                 THEN (BucketSize - Tokens(n)) - RefillRate ELSE 0
    BY <1>3 DEF IInv, LimiterTypeOK, RefillBuckets, Refilled, Tokens, Absent
  <2>. QED  BY <1>3, <2>1 DEF RefillBuckets, Limit!Leak
<1>4. UNCHANGED limiterVars => UNCHANGED Limit!vars
  BY DEF limiterVars, Limit!vars, Tokens
<1>5. IInv /\ [LimiterNext]_limiterVars => [Limit!Next]_(Limit!vars)
  BY <1>2, <1>3, <1>4 DEF LimiterNext, Limit!Next
<1>. QED  BY <1>1, <1>5, Invariance, PTL DEF LimiterSpec, ImplementsLeakyBucket, Limit!Spec

=============================================================================
