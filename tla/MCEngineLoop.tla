---------------------------- MODULE MCEngineLoop ----------------------------
(* Instances of EngineLoop for TLC. *)
EXTENDS EngineLoop
=============================================================================
