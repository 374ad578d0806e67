----------------------------- MODULE MCExecution -----------------------------
(* Runs and slots are given in the configuration. *)
EXTENDS Execution_refines
=============================================================================
