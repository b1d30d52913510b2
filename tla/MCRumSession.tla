---------------------------- MODULE MCRumSession ----------------------------
(* Instances of RumSession for model checking. *)
EXTENDS RumSession, TLC

\* Tabs run the same code and ids are only compared for equality.
Symmetry == Permutations(Tabs) \cup Permutations(Ids)
=============================================================================
