----------------------------- MODULE MCLifecycle -----------------------------
(* Lifecycle with few objects and connections. *)
EXTENDS Lifecycle
=============================================================================
