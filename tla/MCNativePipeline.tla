-------------------------- MODULE MCNativePipeline --------------------------
(* The pipeline through two reconnects. *)
EXTENDS NativePipeline

=============================================================================
