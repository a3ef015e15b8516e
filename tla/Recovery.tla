------------------------------ MODULE Recovery ------------------------------
(***************************************************************************)
(* The link watcher and the ghost release of one config entry, with what   *)
(* they watch: the Device's word for its link (Device.connected), the link *)
(* the Client really has, the fixture, the radio, and the entry's setups,  *)
(* unloads and shutdown.  What the Client does on the way to a link and    *)
(* from it is the module LinkSession; here it is up or it is not, and the  *)
(* status callback has said so or has not.                                 *)
(***************************************************************************)
EXTENDS LinkWatcher, GhostRelease

CONSTANTS Local,      \* the local adapter as a route
          Able,       \* the proxies that offer force_disconnect_handle
          Remembered, \* ticks Home Assistant keeps an advertisement
          Reachable,  \* REACHABLE_SECONDS in ticks
          Setups      \* bound: setups of the entry

ASSUME RecoveryAssumption ==
  /\ Local \notin Proxies \cup {None} /\ Able \subseteq Proxies
  /\ Remembered \in Nat /\ Reachable \in Nat /\ Setups \in Nat
  /\ Nobody \notin Nat \cup Proxies

VARIABLES
  hold,       \* Device.hold_active
  stage,      \* of the entry: "out", "up", or "leaving" in its unload
  setups,     \* setups so far
  device,     \* the runtime has a Device
  closing,    \* shutdown
  link, via,  \* the Client has a link, and its route
  connected,  \* Device.connected
  inSession,  \* the supervisor is in a session
  fixture,    \* "free", "off", held by a "ghost", or "mute" for another reason
  ghostAt,    \* the ghost's proxy and handle
  radio,      \* ticks since the last advertisement Home Assistant remembers
  seen,       \* ticks since conn_info["last_seen"], up to Reachable + 1
  expiry,     \* _reachability_unsub is set
  away        \* history: ticks that connected has been false, up to Window;
              \* None before the entry's first setup

env == <<hold, stage, setups, closing>>
session == <<link, via, connected, inSession>>
senses == <<radio, seen, expiry>>
vars == <<watcher, ghost, env, device, session, fixture, ghostAt, senses, away>>

Init ==
  /\ WatcherInit /\ GhostInit
  /\ hold \in BOOLEAN /\ stage = "out" /\ setups = 0 /\ closing = FALSE
  /\ device = FALSE /\ link = FALSE /\ via = None /\ connected = FALSE /\ inSession = FALSE
  /\ fixture \in {"free", "off"} /\ ghostAt = Nobody
  /\ radio = None /\ seen = Reachable + 1 /\ expiry = FALSE /\ away = None

(* link_healthy                                                            *)
Healthy(dev, conn, age) == dev /\ (conn \/ (~hold /\ age <= Reachable))

(* The Client's supervisor runs.  With a finite active_time it runs for    *)
(* that long after a command; its looks at the ghost then are left out.    *)
Supervised == hold /\ stage = "up" /\ device /\ ~closing
MustStop == closing \/ link

(* set_connected: the new word, the reachability timer, the watcher.       *)
Says(conn, route) ==
  /\ connected' = conn
  /\ away' = IF conn THEN 0 ELSE away
  /\ seen' = IF conn THEN 0 ELSE seen
  /\ expiry' = (~conn /\ seen <= Reachable)
  /\ Notified(Healthy(device, conn, seen), route, radio)
  /\ UNCHANGED radio

-----------------------------------------------------------------------------
(* async_setup_entry: the watcher first, then, from Home Assistant's cache,*)
(* the Device, which is attached to it.  A cached advertisement counts as  *)
(* seen now.                                                               *)
Setup ==
  /\ stage = "out" /\ ~closing /\ setups < Setups
  /\ stage' = "up" /\ setups' = setups + 1
  /\ device' = (radio # None)
  /\ WatcherStarts(device' /\ ~hold, radio)
  /\ IF device' THEN seen' = 0 /\ expiry' = TRUE /\ FreshClock
     ELSE UNCHANGED <<seen, expiry, clock>>
  /\ away' = IF away = None THEN 0 ELSE away
  /\ UNCHANGED <<sweeping, hold, closing, session, fixture, ghostAt, radio>>

(* async_unload_entry stops the Client, which ends the pass and tells the  *)
(* watcher, if there was one ...                                           *)
Leaves ==
  /\ stage = "up" /\ ~closing /\ stage' = "leaving"
  /\ link' = FALSE /\ via' = None /\ inSession' = FALSE
  /\ pass' = "none" /\ UNCHANGED <<clock, sweep, woken, pending>>
  /\ \/ Says(FALSE, None)
     \/ ~connected /\ UNCHANGED <<watcher, connected, senses, away>>
  /\ UNCHANGED <<hold, setups, closing, device, fixture, ghostAt>>

(* ... and then Home Assistant runs the watcher's stop.                    *)
Unloaded ==
  /\ stage = "leaving" /\ stage' = "out"
  /\ WatcherStops
  /\ device' = FALSE /\ expiry' = FALSE
  /\ UNCHANGED <<ghost, hold, setups, closing, session, fixture, ghostAt, radio, seen, away>>

(* async_remove_entry.                                                     *)
Removed ==
  /\ stage = "out" /\ (issue \/ down # None)
  /\ Forgotten /\ away' = None
  /\ UNCHANGED <<ghost, env, device, session, fixture, ghostAt, senses>>

(* The Stage-1 release; the entry stays loaded.                            *)
Shutdown ==
  /\ ~closing /\ closing' = TRUE
  /\ WatcherStops
  /\ link' = FALSE /\ via' = None /\ connected' = FALSE /\ expiry' = FALSE
  /\ UNCHANGED <<ghost, hold, stage, setups, device, inSession, fixture, ghostAt, radio, seen, away>>

-----------------------------------------------------------------------------
(* An advertisement of the free fixture.  It may make the Device, which is *)
(* attached to the watcher; a Device notifies at most now and then.        *)
Advertisement ==
  /\ fixture = "free" /\ ~link
  /\ radio' = 0
  /\ IF stage = "out" \/ closing
     THEN Hear /\ UNCHANGED <<watcher, device, seen, expiry>>
     ELSE /\ seen' = 0 /\ expiry' = ~connected
          /\ device' = TRUE
          /\ IF device THEN Hear ELSE FreshClock /\ UNCHANGED sweeping
          /\ \/ Notified(Healthy(TRUE, connected, 0), via, 0)
             \/ device /\ UNCHANGED watcher
  /\ UNCHANGED <<env, session, fixture, ghostAt, away>>

(* mutant: a link is reported before it is known which proxy carries it    *)
LinkUpUnrouted ==
  /\ stage = "up" /\ device /\ ~closing /\ ~link /\ fixture = "free"
  /\ link' = TRUE
  /\ \E route \in Proxies \cup {Local} : via' = route /\ Says(TRUE, via)
  /\ UNCHANGED <<ghost, env, device, inSession, fixture, ghostAt>>

(* _ensure_client has a link and says so.                                  *)
LinkUp ==
  /\ stage = "up" /\ device /\ ~closing /\ ~link /\ fixture = "free"
  /\ link' = TRUE
  /\ \E route \in Proxies \cup {Local} : via' = route /\ Says(TRUE, route)
  /\ UNCHANGED <<ghost, env, device, inSession, fixture, ghostAt>>

(* _connect or ensure_connected failed, before it had a link or after: it  *)
(* says "not connected" either way.                                        *)
ConnectFails ==
  /\ stage = "up" /\ device /\ ~closing
  /\ Says(FALSE, None)
  /\ UNCHANGED <<ghost, env, device, link, via, inSession, fixture, ghostAt>>

(* The link is lost or taken down.  The fixture may be left to a ghost on  *)
(* the proxy that carried it, go silent in another way, or be switched off.*)
Drop ==
  /\ link /\ link' = FALSE /\ via' = None
  /\ Says(FALSE, None)
  /\ \/ fixture' \in {"free", "mute", "off"} /\ UNCHANGED ghostAt
     \/ /\ fixture' = "ghost" /\ via \in Proxies /\ inSession
        /\ \E h \in 0 .. Handles - 1 : ghostAt' = <<via, h>>
  /\ UNCHANGED <<ghost, env, device, inSession>>

(* _ensure_client replaces a link that timed out, and fails: nobody says   *)
(* that there is none.                                                     *)
Replaced ==
  /\ link /\ ~closing /\ link' = FALSE /\ via' = None
  /\ fixture' \in {"free", "off"}
  /\ UNCHANGED <<watcher, ghost, env, device, connected, inSession, ghostAt, senses, away>>

(* The supervisor's session begins ...                                     *)
SessionBegins ==
  /\ Supervised /\ link /\ ~inSession /\ pass = "none"
  /\ inSession' = TRUE /\ SessionStarted
  /\ UNCHANGED <<watcher, env, device, link, via, connected, fixture, ghostAt, senses, away>>

(* ... and is over once its link is gone.                                  *)
SessionOver ==
  /\ inSession /\ ~link
  /\ inSession' = FALSE /\ SessionEnded
  /\ UNCHANGED <<watcher, env, device, link, via, connected, fixture, ghostAt, senses, away>>

-----------------------------------------------------------------------------
still == <<watcher, env, device, session, ghostAt, senses, away>>

(* The proxy that may be asked: the remembered one, if it can.             *)
Asked == IF holder \in Able THEN holder ELSE Nobody

Look == Supervised /\ ~inSession /\ PassBegins(MustStop, Asked) /\ UNCHANGED <<still, fixture>>

(* The proxy disconnects the handle: the ghost, if it is that.             *)
Freed == fixture' = IF fixture = "ghost" /\ ghostAt = pending THEN "free" ELSE fixture

Answer(h) == pass = "call" /\ sweep[2] = h /\ CallAnswered /\ Freed /\ UNCHANGED still
Refusal == CallFails /\ UNCHANGED <<still, fixture>>
Late == LateCall /\ Freed /\ UNCHANGED still
Back == LightIsBack(MustStop) /\ UNCHANGED <<still, fixture>>
Listened == ListenEnds(MustStop) /\ UNCHANGED <<still, fixture>>

-----------------------------------------------------------------------------
TimerFires ==
  /\ Elapsed(Healthy(device, connected, seen), via, radio)
  /\ UNCHANGED <<ghost, env, device, session, fixture, ghostAt, senses, away>>

(* _on_reachability_expired *)
ReachabilityExpires ==
  /\ expiry /\ seen > Reachable /\ expiry' = FALSE
  /\ Notified(Healthy(device, connected, seen), via, radio)
  /\ UNCHANGED <<ghost, env, device, session, fixture, ghostAt, radio, seen, away>>

(* Power, and whatever kept a mute fixture silent, come and go.            *)
Power ==
  /\ ~link /\ fixture' \in {"free", "off"} \ {fixture}
  /\ UNCHANGED <<watcher, ghost, env, device, session, ghostAt, senses, away>>

(* A tick; what is due comes before it.                                    *)
Tick ==
  /\ ~closing /\ (expiry => seen <= Reachable)
  /\ WatcherTicks /\ GhostTicks
  /\ radio' = IF radio \in 0 .. Remembered - 1 THEN radio + 1 ELSE None
  /\ seen' = IF seen <= Reachable THEN seen + 1 ELSE seen
  /\ away' = IF ~connected /\ away \in 0 .. Window - 1 THEN away + 1 ELSE away
  /\ UNCHANGED <<expiry, env, device, session, fixture, ghostAt>>

Next ==
  \/ Setup \/ Leaves \/ Unloaded \/ Removed \/ Shutdown
  \/ Advertisement \/ LinkUp \/ ConnectFails \/ Drop \/ Replaced
  \/ SessionBegins \/ SessionOver
  \/ Look \/ Refusal \/ Late \/ Back \/ Listened
  \/ \E h \in 0 .. Handles - 1 : Answer(h)
  \/ TimerFires \/ ReachabilityExpires \/ Power \/ Tick

Spec == Init /\ [][Next]_vars

(* Timers fire, the supervisor goes round, deadlines end its calls, and a  *)
(* proxy that is asked for a handle again and again carries it out at last.*)
FairSpec ==
  /\ Spec
  /\ WF_vars(Tick) /\ WF_vars(TimerFires) /\ WF_vars(ReachabilityExpires)
  /\ WF_vars(SessionOver) /\ WF_vars(Look) /\ WF_vars(Back) /\ WF_vars(Listened)
  /\ WF_vars(Refusal)
  /\ \A h \in 0 .. Handles - 1 : SF_vars(Answer(h))

-----------------------------------------------------------------------------
(* Type correctness of the state.                                          *)
TypeOK ==
  /\ WatcherTypeOK /\ GhostTypeOK
  /\ hold \in BOOLEAN /\ closing \in BOOLEAN /\ device \in BOOLEAN
  /\ link \in BOOLEAN /\ connected \in BOOLEAN /\ inSession \in BOOLEAN
  /\ expiry \in BOOLEAN
  /\ stage \in {"out", "up", "leaving"} /\ setups \in 0 .. Setups
  /\ fixture \in {"free", "off", "ghost", "mute"}
  /\ via \in Proxies \cup {Local, None}
  /\ radio \in 0 .. Remembered \cup {None} /\ seen \in 0 .. Reachable + 1
  /\ away \in 0 .. Window \cup {None}

(* While the watcher runs, a Device that says it is connected leaves no    *)
(* repair and no clock of an outage behind, and the options name the proxy *)
(* that carries the link, whatever was reloaded, timed or notified in      *)
(* between (recovery.py 300-330, 420-440).                                 *)
ReturnTracked ==
  watching /\ connected =>
    ~issue /\ down = None /\ (via \in Proxies => holder = via)

(* With a held link the repair is there exactly when the Device has said   *)
(* "not connected" for the whole window, counted through every unload and  *)
(* setup: no reload starts it anew, no stale timer raises it early         *)
(* (recovery.py 26-46).                                                    *)
RaisedExactly ==
  hold /\ watching /\ timer # 0 => (issue <=> away = Window)

(* A sweep never begins another disconnect while our own link is up, in    *)
(* shutdown or after the unload (ghost.py 121-126), though links come and  *)
(* go between its steps.                                                   *)
SweepSparesOwnLink ==
  [][pending' # pending /\ pending' # Nobody => ~link /\ Supervised]_vars

(* A ghost that an ended session left on the remembered proxy is freed, if *)
(* that proxy can, unless the supervisor ends (ghost.py 9-19).             *)
GhostFreed ==
  (fixture = "ghost" /\ ghostAt[1] = holder /\ holder \in Able) ~>
    (fixture # "ghost" \/ ~Supervised)
=============================================================================
