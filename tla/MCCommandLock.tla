--------------------------- MODULE MCCommandLock ---------------------------
(* Three user tasks (service calls, dashboard presses) and two background  *)
(* ones (a guardian check, a schedule readback): the smallest numbers for  *)
(* which a user waits behind a user while a third arrives, and a           *)
(* background task is overtaken while another one holds the lock.          *)
EXTENDS CommandLock, TLC

CONSTANTS u1, u2, u3, b1, b2

MCTasks == {u1, u2, u3, b1, b2}
MCPriority == {u1, u2, u3}
=============================================================================
