----------------------------- MODULE MCGuardian -----------------------------
(* One user besides the guardian's two tasks: a second user command would  *)
(* be indistinguishable from one that takes longer.                        *)
EXTENDS Guardian
=============================================================================
