------------------------ MODULE MCFatalErrorHandler ------------------------
(* Instances of FatalErrorHandler for model checking. *)
EXTENDS FatalErrorHandler, TLC

\* Every configuration, and the defaults of the Node SDK.
Every == [exitEvenIfOthers : BOOLEAN, mode : {"none", "warn", "strict"},
          stopOnSignals : BOOLEAN, flusher : {"shutdown", "own"}]
Default == {[exitEvenIfOthers |-> FALSE, mode |-> "warn", stopOnSignals |-> FALSE,
             flusher |-> "shutdown"]}

\* The errors, and the rejections, are only compared for equality.
Symmetry == Permutations(Errors) \cup Permutations(Rejections)
=============================================================================
