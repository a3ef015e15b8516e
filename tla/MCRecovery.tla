------------------------------ MODULE MCRecovery ------------------------------
(* A proxy that frees handles and one that does not, two setups.           *)
EXTENDS Recovery

MCRetry == <<1, 2>>
=============================================================================
