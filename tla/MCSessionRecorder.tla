-------------------------- MODULE MCSessionRecorder --------------------------
(* Instances of SessionRecorder for model checking; the bounds are in the cfg. *)
EXTENDS SessionRecorder
=============================================================================
