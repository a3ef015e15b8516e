----------------------------- MODULE MCPreview -----------------------------
(* One user's task gives one command after the other: commands run one at  *)
(* a time (CommandLock), so a second user would only add waiting.          *)
EXTENDS Preview
=============================================================================
