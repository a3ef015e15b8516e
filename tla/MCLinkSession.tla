--------------------------- MODULE MCLinkSession ---------------------------
(* The operations of the Device, one at a time, on a fixture that may drop *)
(* its link at any moment.  MCLinkSession.cfg has a FACEBD fixture and all *)
(* operations, MCLinkSessionLive.cfg a classic one and what is peculiar to *)
(* it: the written query of an initialization, the read after a command.   *)
(* The Plant Pro's profile (spp) takes its state reads from the classic    *)
(* fixtures and its verified writes from the FACEBD ones.                  *)
EXTENDS LinkSession
=============================================================================
