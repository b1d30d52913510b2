----------------------------- MODULE LeakyBucket -----------------------------
(***************************************************************************)
(* What a rate limiter promises: every node has a bucket of a fixed size   *)
(* that leaks at a fixed rate.  What passes the limiter is poured into the *)
(* bucket of its node; what no longer fits is held back, and nothing else. *)
(***************************************************************************)
EXTENDS Integers

CONSTANTS Nodes, Size, Rate

VARIABLES
  level,    \* how full the bucket of each node is
  burst,    \* the latest burst, per node
  passed    \* how much of it passed

vars == <<level, burst, passed>>

AtMost(a, b) == IF a < b THEN a ELSE b

Init ==
  /\ level = [n \in Nodes |-> 0]
  /\ burst = [n \in Nodes |-> 0]
  /\ passed = [n \in Nodes |-> 0]

Burst ==
  /\ burst' \in [Nodes -> Nat]
  /\ passed' = [n \in Nodes |-> AtMost(burst'[n], Size - level[n])]
  /\ level' = [n \in Nodes |-> level[n] + passed'[n]]

Leak ==
  /\ level' = [n \in Nodes |-> IF level[n] > Rate THEN level[n] - Rate ELSE 0]
  /\ UNCHANGED <<burst, passed>>

Next == Burst \/ Leak

Spec == Init /\ [][Next]_vars

=============================================================================
