---------------------------- MODULE MCLifecycle -----------------------------
(* Lifecycle with two runspaces and a thread that has none. *)
EXTENDS Lifecycle
=============================================================================
