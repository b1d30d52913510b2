--------------------------- MODULE MCEmitterBinding ---------------------------
(* Instances of EmitterBinding for model checking. *)
EXTENDS EmitterBinding, TLC

\* Listeners and patched functions are only compared for equality.
Symmetry == Permutations(Listeners) \cup Permutations(Wrappers)
=============================================================================
