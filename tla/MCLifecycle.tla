----------------------------- MODULE MCLifecycle -----------------------------
(* Handlers, sessions and settings are given in the configuration. *)
EXTENDS Lifecycle
=============================================================================
