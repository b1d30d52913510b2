--------------------------- MODULE MCContextManager ---------------------------
(* Instances of ContextManager for model checking. *)
EXTENDS ContextManager, TLC

\* Contexts and listeners are only compared for equality.
Symmetry == Permutations(Spans) \cup Permutations(Listeners)
=============================================================================
