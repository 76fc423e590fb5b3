-------------------------- MODULE MCStreamingTools --------------------------
(* Instances of StreamingTools for TLC. *)
EXTENDS StreamingTools
=============================================================================
