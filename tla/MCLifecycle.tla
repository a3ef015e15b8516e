----------------------------- MODULE MCLifecycle -----------------------------
(* A user's command and the guardian's check over two setups of the entry. *)
EXTENDS Lifecycle
=============================================================================
