------------------------- MODULE MutationRateLimiter -------------------------
(***************************************************************************)
(* The limiter that protects the session recorder from attributes that     *)
(* change all the time (packages/session-recorder/src/                     *)
(* sessionrecording-utils.ts): each node, or the svg around it, has a      *)
(* bucket of tokens that exists only while it is not full.  An attribute   *)
(* change of a node whose bucket is empty is left out of the recording;    *)
(* the first time a bucket runs empty the recorder is told, once per node. *)
(*                                                                         *)
(* The changes of one rr-web event are counted per bucket: which ones of   *)
(* them pass is settled by their order, how many by their number.          *)
(***************************************************************************)
EXTENDS Integers

CONSTANTS
  Nodes,       \* what getNodeOrRelevantParent can return
  BucketSize,
  RefillRate,
  MaxChanges   \* bound: attribute changes of one node in one event

ASSUME LimiterAssumption ==
  /\ BucketSize \in Nat \ {0}
  /\ RefillRate \in Nat \ {0}
  /\ MaxChanges \in Nat

VARIABLES
  mutationBuckets,
  loggedTracker,
  asked,      \* the attribute changes in the latest event, per node
  kept,       \* the attribute changes left in it
  blocked,    \* history: nodes that had changes left out
  reports     \* history: calls of onBlockedNode per node

limiterVars == <<mutationBuckets, loggedTracker, asked, kept, blocked, reports>>

Absent == -1   \* mutationBuckets[node] is undefined

LimiterTypeOK ==
  /\ mutationBuckets \in [Nodes -> {Absent} \cup 0..BucketSize - 1]
  /\ loggedTracker \subseteq Nodes
  /\ asked \in [Nodes -> 0..MaxChanges]
  /\ kept \in [Nodes -> 0..BucketSize]
  /\ blocked \subseteq Nodes
  /\ reports \in [Nodes -> 0..1]

LimiterInit ==
  /\ mutationBuckets = [n \in Nodes |-> Absent]
  /\ loggedTracker = {}
  /\ asked = [n \in Nodes |-> 0]
  /\ kept = [n \in Nodes |-> 0]
  /\ blocked = {}
  /\ reports = [n \in Nodes |-> 0]

-----------------------------------------------------------------------------
Tokens(n) == IF mutationBuckets[n] = Absent THEN BucketSize ELSE mutationBuckets[n]

\* mutant: the change that empties the bucket is left out as well
Passing_OneLess(n, c) == IF c < Tokens(n) THEN c ELSE Tokens(n) - 1

\* how many of c changes pass
Passing(n, c) == IF c < Tokens(n) THEN c ELSE Tokens(n)

\* mutant: an empty bucket is mistaken for an absent one
Refilled_SkipEmpty(n) ==
  IF \/ mutationBuckets[n] \in {Absent, 0}
     \/ mutationBuckets[n] + RefillRate >= BucketSize
  THEN IF mutationBuckets[n] = 0 THEN 0 ELSE Absent
  ELSE mutationBuckets[n] + RefillRate

\* the bucket of n after refillBuckets
Refilled(n) ==
  IF mutationBuckets[n] = Absent \/ mutationBuckets[n] + RefillRate >= BucketSize
  THEN Absent
  ELSE mutationBuckets[n] + RefillRate

\* the nodes reported through onBlockedNode, among those that ran empty
Reported(emptied) == emptied \ loggedTracker

\* throttleMutations of a mutation event with changes[n] attribute changes of n
ThrottleMutations(changes) ==
  LET emptied == {n \in Nodes : changes[n] > 0 /\ Tokens(n) > 0
                                /\ Passing(n, changes[n]) = Tokens(n)} IN
  /\ asked' = changes
  /\ kept' = [n \in Nodes |-> Passing(n, changes[n])]
  /\ mutationBuckets' =
       [n \in Nodes |-> IF changes[n] = 0 \/ mutationBuckets[n] = 0
                        THEN mutationBuckets[n]
                        ELSE Tokens(n) - Passing(n, changes[n])]
  /\ loggedTracker' = loggedTracker \cup emptied
  /\ reports' = [n \in Nodes |->
                   reports[n] + (IF n \in Reported(emptied) THEN 1 ELSE 0)]
  /\ blocked' = blocked \cup {n \in Nodes : kept'[n] < changes[n]}

\* the interval of the constructor
RefillBuckets ==
  /\ mutationBuckets' = [n \in Nodes |-> Refilled(n)]
  /\ UNCHANGED <<loggedTracker, asked, kept, blocked, reports>>

LimiterNext ==
  \/ \E changes \in [Nodes -> 0..MaxChanges] : ThrottleMutations(changes)
  \/ RefillBuckets

LimiterSpec == LimiterInit /\ [][LimiterNext]_limiterVars

LimiterFairSpec == LimiterSpec /\ WF_limiterVars(RefillBuckets)

-----------------------------------------------------------------------------
(* Properties.                                                             *)

\* Buckets that appear, fill up and are deleted implement a leaky bucket per
\* node: in any period no more than its size and what leaked passes, and nothing
\* is left out that would have fit (sessionrecording-utils.ts:143-151, 194-216).
Limit == INSTANCE LeakyBucket WITH
  Size <- BucketSize,
  Rate <- RefillRate,
  level <- [n \in Nodes |-> BucketSize - Tokens(n)],
  burst <- asked,
  passed <- kept

ImplementsLeakyBucket == Limit!Spec

\* A node whose changes were left out has been reported, so that a snapshot makes
\* up for them, and no node is reported twice
\* (sessionrecording-utils.ts:208-213).
BlockedReportedOnce ==
  /\ \A n \in blocked : reports[n] = 1
  /\ \A n \in Nodes : reports[n] <= 1

\* A node that is blocked is let through again (sessionrecording-utils.ts:138-151).
BlockedNodesRecover == \A n \in Nodes : mutationBuckets[n] = 0 ~> Tokens(n) > 0

=============================================================================
