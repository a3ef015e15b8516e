-------------------------- MODULE MCGuardianRunner --------------------------
(* Three of the runner's tasks: one that checks, one that queued up while  *)
(* the lock was being handed on, one more trigger.                         *)
EXTENDS GuardianRunner
=============================================================================
