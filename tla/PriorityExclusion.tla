------------------------- MODULE PriorityExclusion -------------------------
(***************************************************************************)
(* What the Device promises about whole public commands, independent of    *)
(* how it queues them: at most one command runs at a time, and background  *)
(* work (the guardian, internal readbacks) never begins while a user's     *)
(* command wants the device or is running.  CommandLock is shown to        *)
(* implement this specification.                                           *)
(***************************************************************************)
CONSTANTS Tasks,      \* the asyncio tasks that issue commands
          Priority    \* the ones that issue user-initiated commands

VARIABLES wants,      \* tasks that asked for the device and wait for it
          inside      \* tasks whose command is running

avars == <<wants, inside>>

AInit == wants = {} /\ inside = {}

(* A task asks for the device.                                             *)
Want(t) ==
  /\ t \notin wants \cup inside
  /\ wants' = wants \cup {t}
  /\ UNCHANGED inside

(* No user command may be wanted or running when background work begins.   *)
MayBegin(t) == inside = {} /\ (t \in Priority \/ wants \cap Priority = {})

(* The command of a waiting task, or of one that never had to wait, begins.*)
Begin(t) ==
  /\ MayBegin(t)
  /\ t \notin inside
  /\ wants' = wants \ {t}
  /\ inside' = {t}

(* The command ends: normally, by an error, by its deadline or cancelled.  *)
End(t) ==
  /\ t \in inside
  /\ inside' = inside \ {t}
  /\ UNCHANGED wants

(* A waiting caller is cancelled.                                          *)
GiveUp(t) ==
  /\ t \in wants
  /\ wants' = wants \ {t}
  /\ UNCHANGED inside

ANext == \E t \in Tasks : Want(t) \/ Begin(t) \/ End(t) \/ GiveUp(t)

ASpec == AInit /\ [][ANext]_avars

-----------------------------------------------------------------------------
(* Two commands never run together.                                        *)
AtMostOne == \A s, t \in inside : s = t
=============================================================================
