--------------------------- MODULE GhostRelease ----------------------------
(***************************************************************************)
(* GhostLinkWatch (core/ghost.py) and the places of Client._ping_loop that *)
(* drive it: how long a fixture without a session has been heard by        *)
(* nobody, and the pass that asks the proxy that held it last to           *)
(* disconnect its handles, one at a time.                                  *)
(*                                                                         *)
(* A pass is over well within one tick, so no tick goes by during it.  A   *)
(* call that was given up on (deadline, cancelled pass) is still with the  *)
(* proxy.                                                                  *)
(***************************************************************************)
EXTENDS Naturals, Sequences

CONSTANTS Nobody,    \* no call, no proxy, no time
          Handles,   \* how many GHOST_HANDLES there are, from 0
          Silence,   \* GHOST_SILENCE in ticks
          Retry      \* GHOST_RETRY: ticks, one entry for each later pass

ASSUME GhostAssumption ==
  /\ Handles \in Nat \ {0}
  /\ Silence \in Nat \ {0}
  /\ Retry \in Seq(Nat \ {0}) /\ Retry # <<>>

VARIABLES
  silent,    \* _silent_since is set
  heard,     \* an advertisement was heard since it was set
  quiet,     \* ticks since it was set, up to Silence
  next,      \* _next_try: ticks left, Nobody before the first look
  tries,     \* _tries, up to the last entry of Retry
  pass,      \* the pass of the supervisor: "none", "call", "listen"
  sweep,     \* its proxy and the handle it is at
  woken,     \* an advertisement was heard since the pass began
  pending    \* the call that a proxy has not carried out

clock == <<silent, heard, quiet, next, tries>>
sweeping == <<pass, sweep, woken, pending>>
ghost == <<clock, sweeping>>

GhostInit ==
  /\ silent = TRUE /\ heard = FALSE /\ quiet = 0 /\ next = Nobody /\ tries = 0
  /\ pass = "none" /\ sweep = Nobody /\ woken = FALSE /\ pending = Nobody

(* GhostLinkWatch.__init__: the silence begins with the watch.             *)
FreshClock ==
  silent' = TRUE /\ heard' = FALSE /\ quiet' = 0 /\ next' = Nobody /\ tries' = 0

(* session_started *)
SessionStarted ==
  /\ silent' = FALSE /\ next' = Nobody /\ tries' = 0
  /\ UNCHANGED <<heard, quiet, sweeping>>

(* mutant: the end of a session starts no silence                          *)
SessionEndedUnnoticed == UNCHANGED ghost

(* session_ended: a fresh silence, unless one is running.                  *)
SessionEnded ==
  /\ IF silent THEN UNCHANGED clock ELSE FreshClock
  /\ UNCHANGED sweeping

(* Home Assistant hears the fixture.                                       *)
Hear ==
  /\ heard' = TRUE /\ woken' = TRUE
  /\ UNCHANGED <<silent, quiet, next, tries, pass, sweep, pending>>

-----------------------------------------------------------------------------
Due == next = 0 \/ (next = Nobody /\ quiet = Silence)

Asks(proxy, handle) ==
  pass' = "call" /\ sweep' = <<proxy, handle>> /\ pending' = <<proxy, handle>>

(* free_silent_ghost at the top of the supervisor's cycle: an              *)
(* advertisement ended the silence, or it is time and a pass begins, if    *)
(* there is a proxy that takes the action.                                 *)
PassBegins(mustStop, proxy) ==
  /\ pass = "none" /\ silent /\ ~mustStop
  /\ \/ /\ heard /\ silent' = FALSE
        /\ UNCHANGED <<heard, quiet, next, tries, sweeping>>
     \/ /\ ~heard /\ Due
        /\ next' = Retry[tries + 1]
        /\ tries' = IF tries + 1 < Len(Retry) THEN tries + 1 ELSE tries
        /\ IF proxy = Nobody THEN UNCHANGED sweeping
           ELSE Asks(proxy, 0) /\ woken' = FALSE
        /\ UNCHANGED <<silent, heard, quiet>>

(* The proxy has carried out the call: listen for the light.               *)
CallAnswered ==
  /\ pass = "call" /\ pass' = "listen" /\ pending' = Nobody
  /\ UNCHANGED <<clock, sweep, woken>>

(* It refuses, or GHOST_CALL_DEADLINE passes: the pass is over.            *)
CallFails ==
  /\ pass = "call" /\ pass' = "none"
  /\ pending' \in {pending, Nobody}
  /\ UNCHANGED <<clock, sweep, woken>>

(* _listen_for_light heard it: a ghost was freed.                          *)
LightIsBack(mustStop) ==
  /\ pass = "listen" /\ woken /\ ~mustStop
  /\ silent' = FALSE /\ pass' = "none"
  /\ UNCHANGED <<heard, quiet, next, tries, sweep, woken, pending>>

(* mutant: whatever ended the listening, the next handle is called         *)
ListenEndsHeedless(mustStop) ==
  /\ pass = "listen" /\ (mustStop \/ ~woken)
  /\ IF sweep[2] + 1 = Handles
     THEN pass' = "none" /\ UNCHANGED <<sweep, pending>>
     ELSE Asks(sweep[1], sweep[2] + 1)
  /\ UNCHANGED <<clock, woken>>

(* A stop, the latch or our own link ends the listening and the pass;      *)
(* GHOST_LISTEN ends it with the next handle, if there is one.             *)
ListenEnds(mustStop) ==
  /\ pass = "listen" /\ (mustStop \/ ~woken)
  /\ IF mustStop \/ sweep[2] + 1 = Handles
     THEN pass' = "none" /\ UNCHANGED <<sweep, pending>>
     ELSE Asks(sweep[1], sweep[2] + 1)
  /\ UNCHANGED <<clock, woken>>

(* A proxy carries out a call that nobody waits for any more.              *)
LateCall ==
  /\ pending # Nobody /\ pass # "call" /\ pending' = Nobody
  /\ UNCHANGED <<clock, pass, sweep, woken>>

(* No tick goes by in a pass: its pause counts from its end.               *)
GhostTicks ==
  /\ pass = "none"
  /\ quiet' = IF silent /\ quiet < Silence THEN quiet + 1 ELSE quiet
  /\ next' = IF next \in Nat \ {0} THEN next - 1 ELSE next
  /\ UNCHANGED <<silent, heard, tries, sweeping>>

GhostTypeOK ==
  /\ silent \in BOOLEAN
  /\ heard \in BOOLEAN
  /\ woken \in BOOLEAN
  /\ quiet \in 0 .. Silence /\ next \in Nat \cup {Nobody} /\ tries \in 0 .. Len(Retry) - 1
  /\ pass \in {"none", "call", "listen"}
=============================================================================
