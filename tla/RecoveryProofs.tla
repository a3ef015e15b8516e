--------------------------- MODULE RecoveryProofs ---------------------------
(***************************************************************************)
(* Theorems about Recovery, for any windows, proxies and numbers of        *)
(* setups: the watcher follows the Device's link through every unload,     *)
(* setup, timer and notification, and no sweep of a silent ghost outlives  *)
(* the moment from which it could hit a link of our own.                   *)
(***************************************************************************)
EXTENDS Recovery, SequenceTheorems, TLAPS

USE WatcherAssumption, GhostAssumption, RecoveryAssumption
  DEF WatcherAssumption, GhostAssumption, RecoveryAssumption

(* The watcher runs while the entry is set up and Home Assistant is; only  *)
(* then has a Client a link, or does a Device say that it is connected.    *)
Standing ==
  /\ watching <=> (stage # "out" /\ ~closing)
  /\ link => device /\ stage = "up" /\ ~closing
  /\ connected => device /\ stage = "up" /\ ~closing

(* Only the supervisor of an entry that is set up is in a pass.            *)
PassInv == pass # "none" => hold /\ stage = "up" /\ device

(* What is left of the window when the watcher waits: the repair is there  *)
(* and nothing else can happen, or a timer will fire before it is due.     *)
Waits ==
  \/ timer = None /\ issue /\ down = Window
  \/ down \in 0 .. Window /\ timer \in 0 .. (Window - down) /\ ~issue

(* With a held link, the clock of the outage runs with the outage, over    *)
(* every unload and setup.                                                 *)
UpInv == connected => down = None /\ away = 0 /\ ~issue /\ timer = None
DownInv == ~connected => down = away /\ (issue => down = Window)
TimerInv == IF watching THEN ~connected => Waits ELSE timer = None
OutageInv == hold /\ ~closing => UpInv /\ DownInv /\ TimerInv

(* What is proved to be inductive; OutageInv needs a bound on what Home    *)
(* Assistant remembers, and stands apart.                                  *)
IInv == TypeOK /\ Standing /\ PassInv /\ ReturnTracked

-----------------------------------------------------------------------------
(* Types.                                                                  *)
LEMMA ReconcileTypes ==
  ASSUME WatcherTypeOK, NEW healthy \in BOOLEAN, NEW route,
         NEW silence \in 0 .. Remembered \cup {None},
         NEW pending0 \in 0 .. Window \cup {None},
         Reconcile(healthy, route, silence, pending0), watching' \in BOOLEAN
  PROVE  WatcherTypeOK'
<1>1. CASE Returned(route)
  BY <1>1 DEF Returned, WatcherTypeOK
<1>2. CASE Missed(silence, pending0)
  <2>1. down' \in 0 .. Window
    BY <1>2 DEF Missed, WatcherTypeOK
  <2> DEFINE outage == Outage(down', silence)
  <2>2. outage \in Nat
    BY <2>1 DEF Outage
  <2>3. /\ holder' = holder
        /\ \/ timer' = None /\ issue' = TRUE
           \/ /\ ~(outage >= Window) /\ issue' = issue
              /\ timer' = IF pending0 = None THEN Window - outage ELSE pending0
    BY <1>2 DEF Missed
  <2> HIDE DEF outage
  <2>4. timer' \in 0 .. Window \cup {None}
    BY <2>2, <2>3
  <2> QED BY <2>1, <2>3, <2>4 DEF WatcherTypeOK
<1> QED BY <1>1, <1>2 DEF Reconcile

LEMMA NotifiedTypes ==
  ASSUME WatcherTypeOK, NEW healthy \in BOOLEAN, NEW route,
         NEW silence \in 0 .. Remembered \cup {None},
         Notified(healthy, route, silence)
  PROVE  WatcherTypeOK'
<1>1. CASE watching
  <2>1. Reconcile(healthy, route, silence, timer) /\ watching' \in BOOLEAN
    BY <1>1 DEF Notified, WatcherTypeOK
  <2>2. timer \in 0 .. Window \cup {None}
    BY DEF WatcherTypeOK
  <2> QED BY <2>1, <2>2, ReconcileTypes
<1>2. CASE ~watching
  BY <1>2 DEF Notified, WatcherTypeOK
<1> QED BY <1>1, <1>2

LEMMA HealthyBoolean ==
  ASSUME NEW dev \in BOOLEAN, NEW conn \in BOOLEAN, hold \in BOOLEAN, NEW age \in Nat
  PROVE  Healthy(dev, conn, age) \in BOOLEAN
BY DEF Healthy

LEMMA SaysTypes ==
  ASSUME TypeOK, NEW conn \in BOOLEAN, NEW route, Says(conn, route)
  PROVE  /\ WatcherTypeOK'
         /\ connected' \in BOOLEAN /\ expiry' \in BOOLEAN
         /\ radio' = radio /\ seen' \in 0 .. Reachable + 1
         /\ away' \in 0 .. Window \cup {None}
<1>1. Healthy(device, conn, seen) \in BOOLEAN
  <2>1. seen \in Nat
    BY DEF TypeOK
  <2> QED BY <2>1, HealthyBoolean DEF TypeOK
<1>2. WatcherTypeOK /\ radio \in 0 .. Remembered \cup {None}
  BY DEF TypeOK
<1>3. WatcherTypeOK'
  BY <1>1, <1>2, NotifiedTypes DEF Says
<1>4. expiry' \in BOOLEAN
  BY DEF Says
<1> QED BY <1>3, <1>4 DEF Says, TypeOK

LEMMA RetryLen ==
  Len(Retry) \in Nat \ {0} /\ \A i \in 1 .. Len(Retry) : Retry[i] \in Nat
<1>1. Retry \in Seq(Nat \ {0}) /\ Retry # <<>>
  OBVIOUS
<1>2. Len(Retry) \in Nat \ {0}
  BY <1>1, EmptySeq
<1>3. Retry \in [1 .. Len(Retry) -> Nat \ {0}]
  BY <1>1, LenProperties
<1> QED BY <1>2, <1>3

LEMMA GhostTypes ==
  ASSUME GhostTypeOK,
         \/ UNCHANGED ghost \/ (FreshClock /\ UNCHANGED sweeping) \/ SessionStarted
         \/ SessionEnded \/ Hear \/ CallAnswered \/ CallFails \/ LateCall \/ GhostTicks
         \/ \E m \in BOOLEAN : LightIsBack(m) \/ ListenEnds(m) \/ \E p : PassBegins(m, p)
  PROVE  GhostTypeOK'
<1> USE DEF GhostTypeOK, ghost, clock, sweeping
<1>1. CASE UNCHANGED ghost
  BY <1>1
<1>2. CASE FreshClock /\ UNCHANGED sweeping
  <2>1. 0 \in 0 .. Len(Retry) - 1
    BY RetryLen
  <2>2. quiet' \in 0 .. Silence /\ next' \in Nat \cup {Nobody} /\ tries' \in 0 .. Len(Retry) - 1
    BY <1>2, <2>1 DEF FreshClock
  <2> QED BY <1>2, <2>2, Zenon DEF FreshClock
<1>3. CASE SessionStarted
  <2>1. 0 \in 0 .. Len(Retry) - 1
    BY RetryLen
  <2>2. next' \in Nat \cup {Nobody} /\ tries' \in 0 .. Len(Retry) - 1
    BY <1>3, <2>1 DEF SessionStarted
  <2> QED BY <1>3, <2>2, Zenon DEF SessionStarted
<1>4. CASE SessionEnded
  <2>1. 0 \in 0 .. Len(Retry) - 1
    BY RetryLen
  <2>2. CASE silent
    BY <1>4, <2>2 DEF SessionEnded
  <2>3. CASE ~silent
    BY <1>2, <1>4, <2>3, Zenon DEF SessionEnded
  <2> QED BY <2>2, <2>3
<1>5. CASE Hear
  BY <1>5, Zenon DEF Hear
<1>6. CASE CallAnswered
  BY <1>6 DEF CallAnswered
<1>7. CASE CallFails
  BY <1>7 DEF CallFails
<1>8. CASE LateCall
  BY <1>8 DEF LateCall
<1>9. CASE GhostTicks
  BY <1>9 DEF GhostTicks
<1>10. ASSUME NEW m \in BOOLEAN, LightIsBack(m) PROVE GhostTypeOK'
  BY <1>10 DEF LightIsBack
<1>11. ASSUME NEW m \in BOOLEAN, ListenEnds(m) PROVE GhostTypeOK'
  BY <1>11 DEF ListenEnds, Asks
<1>12. ASSUME NEW m \in BOOLEAN, NEW p, PassBegins(m, p) PROVE GhostTypeOK'
  <2>1. Retry[tries + 1] \in Nat
    <3>1. tries + 1 \in 1 .. Len(Retry)
      BY RetryLen
    <3> QED BY <3>1, RetryLen
  <2>2. CASE silent' = FALSE /\ UNCHANGED <<heard, quiet, next, tries, sweeping>>
    BY <2>2, Zenon
  <2>3. CASE /\ next' = Retry[tries + 1]
             /\ tries' = IF tries + 1 < Len(Retry) THEN tries + 1 ELSE tries
             /\ pass' = pass \/ pass' = "call"
             /\ woken' = woken \/ woken' = FALSE
             /\ UNCHANGED <<silent, heard, quiet>>
    <3>1. tries' \in 0 .. Len(Retry) - 1
      BY <2>3, RetryLen
    <3>2. woken' \in BOOLEAN /\ pass' \in {"none", "call", "listen"}
      BY <2>3, Zenon
    <3>3. silent' \in BOOLEAN /\ heard' \in BOOLEAN
      BY <2>3, Zenon
    <3>4. quiet' \in 0 .. Silence /\ next' \in Nat \cup {Nobody}
      BY <2>1, <2>3
    <3> QED BY <3>1, <3>2, <3>3, <3>4
  <2> QED BY <1>12, <2>2, <2>3, Zenon DEF PassBegins, Asks
<1> QED BY <1>1, <1>2, <1>3, <1>4, <1>5, <1>6, <1>7, <1>8, <1>9, <1>10, <1>11, <1>12

LEMMA WatcherSame == ASSUME WatcherTypeOK, UNCHANGED watcher PROVE WatcherTypeOK'
BY DEF watcher, WatcherTypeOK

LEMMA StopTypes == ASSUME WatcherTypeOK, WatcherStops \/ Forgotten PROVE WatcherTypeOK'
BY DEF WatcherTypeOK, WatcherStops, Forgotten

(* The types of the entry, the Device, the link and the radio.             *)
RestTypes ==
  /\ hold \in BOOLEAN /\ closing \in BOOLEAN /\ device \in BOOLEAN
  /\ link \in BOOLEAN /\ connected \in BOOLEAN /\ inSession \in BOOLEAN
  /\ expiry \in BOOLEAN
  /\ stage \in {"out", "up", "leaving"} /\ setups \in 0 .. Setups
  /\ fixture \in {"free", "off", "ghost", "mute"}
  /\ via \in Proxies \cup {Local, None}
  /\ radio \in 0 .. Remembered \cup {None} /\ seen \in 0 .. Reachable + 1
  /\ away \in 0 .. Window \cup {None}

LEMMA EntryTypes ==
  ASSUME TypeOK, Setup \/ Leaves \/ Unloaded \/ Removed \/ Shutdown PROVE TypeOK'
<1> USE DEF env, session, senses
<1>0. WatcherTypeOK /\ GhostTypeOK /\ RestTypes
  BY DEF TypeOK, RestTypes
<1> SUFFICES WatcherTypeOK' /\ GhostTypeOK' /\ RestTypes'
  BY DEF TypeOK, RestTypes
<1>1. CASE Setup
  <2>1. device' \in BOOLEAN
    BY <1>1 DEF Setup
  <2>2. WatcherTypeOK'
    <3>1. Reconcile(device' /\ ~hold, None, radio, None) /\ watching' \in BOOLEAN
      BY <1>1, Zenon DEF Setup, WatcherStarts
    <3>2. (device' /\ ~hold) \in BOOLEAN
      OBVIOUS
    <3>3. radio \in 0 .. Remembered \cup {None}
      BY <1>0 DEF RestTypes
    <3> QED BY <3>1, <3>2, <3>3, <1>0, ReconcileTypes
  <2>3. GhostTypeOK'
    <3>1. UNCHANGED ghost \/ (FreshClock /\ UNCHANGED sweeping)
      BY <1>1 DEF Setup, ghost
    <3> QED BY <3>1, <1>0, GhostTypes
  <2>4. seen' \in 0 .. Reachable + 1 /\ away' \in 0 .. Window \cup {None} /\ setups' \in 0 .. Setups
    BY <1>1, <1>0 DEF Setup, RestTypes
  <2>5. expiry' \in BOOLEAN
    BY <1>1, <1>0, Zenon DEF Setup, RestTypes
  <2> QED BY <1>1, <1>0, <2>1, <2>2, <2>3, <2>4, <2>5 DEF Setup, RestTypes
<1>2. CASE Leaves
  <2>1. GhostTypeOK'
    BY <1>2, <1>0 DEF Leaves, GhostTypeOK, clock
  <2>2. CASE Says(FALSE, None)
    BY <1>2, <1>0, <2>1, <2>2, SaysTypes DEF Leaves, RestTypes
  <2>3. CASE UNCHANGED <<watcher, connected, senses, away>>
    BY <1>2, <1>0, <2>1, <2>3, WatcherSame DEF Leaves, RestTypes
  <2> QED BY <1>2, <2>2, <2>3 DEF Leaves
<1>3. CASE Unloaded
  BY <1>3, <1>0, StopTypes, GhostTypes DEF Unloaded, RestTypes
<1>4. CASE Removed
  BY <1>4, <1>0, StopTypes, GhostTypes DEF Removed, RestTypes
<1>5. CASE Shutdown
  BY <1>5, <1>0, StopTypes, GhostTypes DEF Shutdown, RestTypes
<1> QED BY <1>1, <1>2, <1>3, <1>4, <1>5

LEMMA LinkTypes ==
  ASSUME TypeOK,
         Advertisement \/ LinkUp \/ ConnectFails \/ Drop \/ Replaced \/ SessionBegins \/ SessionOver
  PROVE TypeOK'
<1> USE DEF env, session, senses
<1>0. WatcherTypeOK /\ GhostTypeOK /\ RestTypes
  BY DEF TypeOK, RestTypes
<1> SUFFICES WatcherTypeOK' /\ GhostTypeOK' /\ RestTypes'
  BY DEF TypeOK, RestTypes
<1>1. CASE Advertisement
  <2>1. WatcherTypeOK'
    <3>1. UNCHANGED watcher \/ Notified(Healthy(TRUE, connected, 0), via, 0)
      BY <1>1 DEF Advertisement
    <3>2. 0 \in 0 .. Remembered \cup {None} /\ 0 \in Nat
      OBVIOUS
    <3>3. Healthy(TRUE, connected, 0) \in BOOLEAN
      BY <1>0, <3>2, HealthyBoolean, Zenon DEF RestTypes
    <3> QED BY <3>1, <3>2, <3>3, <1>0, NotifiedTypes, WatcherSame
  <2>2. GhostTypeOK'
    <3>1. Hear \/ (FreshClock /\ UNCHANGED sweeping)
      BY <1>1 DEF Advertisement
    <3> QED BY <3>1, <1>0, GhostTypes
  <2>3. seen' \in 0 .. Reachable + 1 /\ radio' \in 0 .. Remembered \cup {None}
    <3>1. radio' = 0 /\ (seen' = seen \/ seen' = 0)
      BY <1>1, Zenon DEF Advertisement
    <3> QED BY <3>1, <1>0 DEF RestTypes
  <2>4. expiry' \in BOOLEAN /\ device' \in BOOLEAN
    <3>1. expiry' = expiry \/ expiry' = ~connected
      BY <1>1, Zenon DEF Advertisement
    <3>2. device' = device \/ device' = TRUE
      BY <1>1, Zenon DEF Advertisement
    <3> QED BY <3>1, <3>2, <1>0, Zenon DEF RestTypes
  <2> QED BY <1>1, <1>0, <2>1, <2>2, <2>3, <2>4 DEF Advertisement, RestTypes
<1>2. CASE LinkUp
  <2>1. PICK route \in Proxies \cup {Local} : via' = route /\ Says(TRUE, route)
    BY <1>2 DEF LinkUp
  <2> QED BY <1>2, <1>0, <2>1, SaysTypes, GhostTypes DEF LinkUp, RestTypes
<1>3. CASE ConnectFails
  BY <1>3, <1>0, SaysTypes, GhostTypes DEF ConnectFails, RestTypes
<1>4. CASE Drop
  BY <1>4, <1>0, SaysTypes, GhostTypes DEF Drop, RestTypes
<1>5. CASE Replaced
  BY <1>5, <1>0, WatcherSame, GhostTypes DEF Replaced, RestTypes
<1>6. CASE SessionBegins
  BY <1>6, <1>0, WatcherSame, GhostTypes DEF SessionBegins, RestTypes
<1>7. CASE SessionOver
  BY <1>7, <1>0, WatcherSame, GhostTypes DEF SessionOver, RestTypes
<1> QED BY <1>1, <1>2, <1>3, <1>4, <1>5, <1>6, <1>7

(* The steps of a pass move nothing but the ghost release and the fixture. *)
PassStep ==
  \/ Look \/ Refusal \/ Late \/ Back \/ Listened
  \/ \E h \in 0 .. Handles - 1 : Answer(h)

LEMMA PassKeeps ==
  ASSUME TypeOK, PassStep
  PROVE  still' = still /\ fixture' \in {fixture, "free"} /\ GhostTypeOK'
<1>0. GhostTypeOK
  BY DEF TypeOK
<1>1. MustStop \in BOOLEAN
  BY DEF MustStop
<1>2. CASE Look
  BY <1>0, <1>1, <1>2, GhostTypes DEF Look
<1>3. CASE Refusal
  BY <1>0, <1>3, GhostTypes DEF Refusal
<1>4. CASE Late
  BY <1>0, <1>4, GhostTypes DEF Late, Freed
<1>5. CASE Back
  BY <1>0, <1>1, <1>5, GhostTypes DEF Back
<1>6. CASE Listened
  BY <1>0, <1>1, <1>6, GhostTypes DEF Listened
<1>7. ASSUME NEW h \in 0 .. Handles - 1, Answer(h)
      PROVE  still' = still /\ fixture' \in {fixture, "free"} /\ GhostTypeOK'
  BY <1>0, <1>7, GhostTypes DEF Answer, Freed
<1> QED BY <1>2, <1>3, <1>4, <1>5, <1>6, <1>7 DEF PassStep

LEMMA TimeTypes ==
  ASSUME TypeOK, PassStep \/ TimerFires \/ ReachabilityExpires \/ Power \/ Tick \/ UNCHANGED vars
  PROVE  TypeOK'
<1> USE DEF env, session, senses
<1>0. WatcherTypeOK /\ GhostTypeOK /\ RestTypes
  BY DEF TypeOK, RestTypes
<1>00. Healthy(device, connected, seen) \in BOOLEAN
  <2>1. seen \in Nat
    BY <1>0 DEF RestTypes
  <2> QED BY <2>1, <1>0, HealthyBoolean DEF RestTypes
<1> SUFFICES WatcherTypeOK' /\ GhostTypeOK' /\ RestTypes'
  BY DEF TypeOK, RestTypes
<1>1. CASE PassStep
  BY <1>0, <1>1, PassKeeps, WatcherSame DEF RestTypes, still
<1>2. CASE TimerFires
  <2>1. WatcherTypeOK'
    <3>1. Reconcile(Healthy(device, connected, seen), via, radio, None) /\ watching' = watching
      BY <1>2 DEF TimerFires, Elapsed
    <3> QED BY <3>1, <1>0, <1>00, ReconcileTypes DEF RestTypes, WatcherTypeOK
  <2> QED BY <1>0, <1>2, <2>1, GhostTypes DEF TimerFires, RestTypes
<1>3. CASE ReachabilityExpires
  <2>1. WatcherTypeOK'
    <3>1. Notified(Healthy(device, connected, seen), via, radio)
      BY <1>3 DEF ReachabilityExpires
    <3>2. radio \in 0 .. Remembered \cup {None}
      BY <1>0 DEF RestTypes
    <3> QED BY <3>1, <3>2, <1>0, <1>00, NotifiedTypes
  <2>2. expiry' \in BOOLEAN
    BY <1>3, Zenon DEF ReachabilityExpires
  <2> QED BY <1>0, <1>3, <2>1, <2>2, GhostTypes DEF ReachabilityExpires, RestTypes
<1>4. CASE Power
  BY <1>0, <1>4, WatcherSame, GhostTypes DEF Power, RestTypes
<1>5. CASE Tick
  <2>1. WatcherTypeOK'
    <3>1. watching' = watching /\ issue' = issue /\ holder' = holder
      BY <1>5 DEF Tick, WatcherTicks
    <3>2. timer' \in 0 .. Window \cup {None} /\ down' \in 0 .. Window \cup {None}
      BY <1>0, <1>5 DEF Tick, WatcherTicks, WatcherTypeOK
    <3> QED BY <1>0, <3>1, <3>2 DEF WatcherTypeOK
  <2>2. /\ radio' \in 0 .. Remembered \cup {None} /\ seen' \in 0 .. Reachable + 1
        /\ away' \in 0 .. Window \cup {None}
    <3>1. radio' \in 0 .. Remembered \cup {None}
      BY <1>0, <1>5 DEF Tick, RestTypes
    <3>2. seen' \in 0 .. Reachable + 1
      BY <1>0, <1>5 DEF Tick, RestTypes
    <3>3. away' \in 0 .. Window \cup {None}
      BY <1>0, <1>5 DEF Tick, RestTypes
    <3> QED BY <3>1, <3>2, <3>3
  <2>3. GhostTypeOK'
    BY <1>0, <1>5, GhostTypes DEF Tick
  <2> QED BY <1>0, <1>5, <2>1, <2>2, <2>3 DEF Tick, RestTypes
<1>6. CASE UNCHANGED vars
  BY <1>0, <1>6, WatcherSame, GhostTypes DEF vars, RestTypes
<1> QED BY <1>1, <1>2, <1>3, <1>4, <1>5, <1>6

LEMMA Steps ==
  ASSUME [Next]_vars
  PROVE  \/ Setup \/ Leaves \/ Unloaded \/ Removed \/ Shutdown
         \/ Advertisement \/ LinkUp \/ ConnectFails \/ Drop \/ Replaced
         \/ SessionBegins \/ SessionOver
         \/ PassStep \/ TimerFires \/ ReachabilityExpires \/ Power \/ Tick \/ UNCHANGED vars
BY DEF Next, PassStep

LEMMA InitTypes == Init => TypeOK
<1> SUFFICES ASSUME Init PROVE WatcherTypeOK /\ GhostTypeOK /\ RestTypes
  BY DEF TypeOK, RestTypes
<1>1. WatcherTypeOK
  BY DEF Init, WatcherInit, WatcherTypeOK
<1>2. GhostTypeOK
  <2>1. 0 \in 0 .. Len(Retry) - 1 /\ 0 \in 0 .. Silence
    BY RetryLen
  <2> QED BY <2>1, Zenon DEF Init, GhostInit, GhostTypeOK
<1>3. RestTypes
  <2>1. 0 \in 0 .. Setups /\ Reachable + 1 \in 0 .. Reachable + 1
    OBVIOUS
  <2> QED BY <2>1, Zenon DEF Init, RestTypes
<1> QED BY <1>1, <1>2, <1>3

-----------------------------------------------------------------------------
(* The entry, its watcher and its Device.                                  *)
LEMMA SaysSays ==
  ASSUME NEW conn, NEW route, Says(conn, route)
  PROVE  connected' = conn /\ watching' = watching
BY DEF Says, Notified

LEMMA StandingStep ==
  ASSUME Standing, [Next]_vars PROVE Standing'
<1> USE DEF Standing, env, session, senses, watcher
<1>1. CASE Setup
  BY <1>1, Zenon DEF Setup, WatcherStarts
<1>2. CASE Leaves
  <2>1. (connected' = FALSE \/ (~connected /\ connected' = connected)) /\ watching' = watching
    <3>1. CASE Says(FALSE, None)
      BY <3>1 DEF Says, Notified
    <3>2. CASE ~connected /\ UNCHANGED <<watcher, connected, senses, away>>
      BY <3>2
    <3> QED BY <1>2, <3>1, <3>2, Zenon DEF Leaves
  <2>2. stage = "up" /\ ~closing /\ stage' = "leaving" /\ closing' = closing /\ link' = FALSE
    BY <1>2 DEF Leaves
  <2> QED BY <2>1, <2>2
<1>3. CASE Unloaded \/ Removed \/ Shutdown
  BY <1>3 DEF Unloaded, Removed, Shutdown, WatcherStops, Forgotten
<1>4. CASE Advertisement
  BY <1>4, Zenon DEF Advertisement, Notified
<1>5. CASE LinkUp \/ ConnectFails \/ Drop
  <2>1. PICK conn \in BOOLEAN :
          /\ \E route : Says(conn, route)
          /\ env' = env /\ device' = device
          /\ conn => device /\ stage = "up" /\ ~closing
    BY <1>5, Zenon DEF LinkUp, ConnectFails, Drop
  <2>2. connected' = conn /\ watching' = watching
    BY <2>1, SaysSays
  <2>3. (device /\ stage = "up" /\ ~closing) \/ link' = FALSE
    BY <1>5, Zenon DEF LinkUp, ConnectFails, Drop
  <2> QED BY <2>1, <2>2, <2>3
<1>6. CASE Replaced \/ SessionBegins \/ SessionOver
  <2>1. /\ watching' = watching /\ env' = env /\ device' = device /\ connected' = connected
        /\ link' = link \/ link' = FALSE
    BY <1>6 DEF Replaced, SessionBegins, SessionOver
  <2> QED BY <2>1
<1>7. CASE TimerFires \/ ReachabilityExpires \/ Power \/ Tick
  <2>1. /\ watching' = watching /\ env' = env /\ device' = device /\ connected' = connected
        /\ link' = link
    BY <1>7, Zenon DEF TimerFires, Elapsed, ReachabilityExpires, Notified, Power, Tick, WatcherTicks
  <2> QED BY <2>1
<1>8. CASE UNCHANGED vars
  BY <1>8 DEF vars
<1>9. CASE PassStep
  BY <1>9 DEF PassStep, Look, Refusal, Late, Back, Listened, Answer, still
<1> QED BY <1>1, <1>2, <1>3, <1>4, <1>5, <1>6, <1>7, <1>8, <1>9, Steps

LEMMA PassStays ==
  ASSUME PassInv, Standing, [Next]_vars PROVE PassInv'
<1> USE DEF PassInv, Standing, env, session, senses, ghost, sweeping
<1>1. CASE Setup
  BY <1>1, Zenon DEF Setup
<1>2. CASE Leaves \/ Unloaded \/ Removed \/ Shutdown
  BY <1>2 DEF Leaves, Unloaded, Removed, Shutdown
<1>3. CASE Advertisement
  BY <1>3, Zenon DEF Advertisement, Hear
<1>4. CASE LinkUp \/ ConnectFails \/ Drop \/ Replaced
  BY <1>4 DEF LinkUp, ConnectFails, Drop, Replaced
<1>5. CASE SessionBegins \/ SessionOver
  BY <1>5 DEF SessionBegins, SessionOver, SessionStarted, SessionEnded
<1>6. CASE TimerFires \/ ReachabilityExpires \/ Power \/ Tick
  BY <1>6 DEF TimerFires, ReachabilityExpires, Power, Tick, GhostTicks
<1>7. CASE UNCHANGED vars
  BY <1>7 DEF vars
<1>8. CASE PassStep
  BY <1>8 DEF PassStep, Look, Refusal, Late, Back, Listened, Answer, still, Supervised,
       PassBegins, CallFails, LateCall, LightIsBack, ListenEnds, CallAnswered, Asks
<1> QED BY <1>1, <1>2, <1>3, <1>4, <1>5, <1>6, <1>7, <1>8, Steps

(* A sweep goes on only while the supervisor that began it may go on.      *)
LEMMA SweepStep ==
  ASSUME PassInv, Standing, [Next]_vars, pending' # pending, pending' # Nobody
  PROVE  ~link /\ Supervised
<1> USE DEF PassInv, Standing, env, session, senses, ghost, clock, sweeping
<1>1. CASE Look
  BY <1>1, Zenon DEF Look, PassBegins, MustStop
<1>2. CASE Listened
  BY <1>2, Zenon DEF Listened, ListenEnds, MustStop, Supervised
<1>3. CASE PassStep
  BY <1>1, <1>2, <1>3 DEF PassStep, Refusal, Late, Back, Answer,
       CallFails, LateCall, LightIsBack, CallAnswered
<1>4. CASE Setup \/ Leaves \/ Unloaded \/ Removed \/ Shutdown
  BY <1>4 DEF Setup, Leaves, Unloaded, Removed, Shutdown, FreshClock
<1>5. CASE Advertisement
  BY <1>5, Zenon DEF Advertisement, Hear
<1>6. CASE LinkUp \/ ConnectFails \/ Drop \/ Replaced
  BY <1>6 DEF LinkUp, ConnectFails, Drop, Replaced
<1>7. CASE SessionBegins \/ SessionOver
  BY <1>7 DEF SessionBegins, SessionOver, SessionStarted, SessionEnded
<1>8. CASE TimerFires \/ ReachabilityExpires \/ Power \/ Tick \/ UNCHANGED vars
  BY <1>8 DEF TimerFires, ReachabilityExpires, Power, Tick, GhostTicks, vars
<1> QED BY <1>3, <1>4, <1>5, <1>6, <1>7, <1>8, Steps

-----------------------------------------------------------------------------
(* The watcher's conclusions.                                              *)
Tracked == ~issue /\ down = None /\ (via \in Proxies => holder = via)

(* A link that works and is looked at leaves nothing of an outage.         *)
LEMMA ReturnedTracks ==
  ASSUME NEW route, Returned(route)
  PROVE  /\ ~issue' /\ down' = None /\ timer' = None
         /\ route \in Proxies => holder' = route
BY DEF Returned

LEMMA UpTracked ==
  ASSUME Standing, LinkUp PROVE watching' /\ connected' => Tracked'
<1> SUFFICES ASSUME watching' PROVE Tracked'
  OBVIOUS
<1>1. PICK route \in Proxies \cup {Local} : via' = route /\ Says(TRUE, route)
  BY DEF LinkUp
<1>2. watching /\ Healthy(device, TRUE, seen)
  BY <1>1, SaysSays DEF LinkUp, Healthy
<1>3. Returned(route)
  BY <1>1, <1>2 DEF Says, Notified, Reconcile
<1> QED BY <1>1, <1>3, ReturnedTracks DEF Tracked

(* A look that the watcher takes at a Device that says it is connected.    *)
LEMMA LookTracks ==
  ASSUME connected, device, watching, NEW age, NEW silence,
         \/ Notified(Healthy(device, connected, age), via, silence)
         \/ Notified(Healthy(TRUE, connected, age), via, silence)
         \/ Elapsed(Healthy(device, connected, age), via, silence),
         via' = via
  PROVE  Tracked'
<1>1. Healthy(device, connected, age) /\ Healthy(TRUE, connected, age)
  BY DEF Healthy
<1>2. Returned(via)
  BY <1>1 DEF Notified, Elapsed, Reconcile
<1> QED BY <1>2, ReturnedTracks DEF Tracked

LEMMA TrackedStep ==
  ASSUME TypeOK, Standing, watching /\ connected => Tracked, [Next]_vars
  PROVE  watching' /\ connected' => Tracked'
<1> SUFFICES ASSUME watching', connected' PROVE Tracked'
  OBVIOUS
<1> USE DEF env, session, senses, watcher
<1>1. Standing'
  BY StandingStep
<1>2. CASE LinkUp
  BY <1>2, UpTracked
<1>3. CASE Setup \/ Removed
  <2>1. stage = "out" /\ connected' = connected
    BY <1>3 DEF Setup, Removed
  <2> QED BY <2>1 DEF Standing
<1>4. CASE Leaves \/ Unloaded \/ Shutdown
  <2>1. stage' # "up" \/ closing'
    BY <1>4 DEF Leaves, Unloaded, Shutdown
  <2> QED BY <2>1, <1>1 DEF Standing
<1>5. CASE ConnectFails \/ Drop
  <2>1. connected' = FALSE
    BY <1>5, SaysSays DEF ConnectFails, Drop
  <2> QED BY <2>1
<1>6. CASE /\ watcher' = watcher /\ connected' = connected
           /\ via' = via \/ via' = None
  BY <1>6 DEF Tracked
<1>7. CASE Replaced \/ SessionBegins \/ SessionOver \/ PassStep \/ Power \/ UNCHANGED vars
  <2>1. CASE PassStep
    BY <2>1, <1>6, PassKeeps DEF still
  <2>2. CASE Replaced \/ SessionBegins \/ SessionOver \/ Power \/ UNCHANGED vars
    BY <2>2, <1>6 DEF Replaced, SessionBegins, SessionOver, Power, vars
  <2> QED BY <1>7, <2>1, <2>2
<1>8. CASE Advertisement
  <2>1. connected' = connected /\ via' = via
    BY <1>8 DEF Advertisement
  <2>2. connected /\ device /\ stage # "out" /\ ~closing
    BY <2>1 DEF Standing
  <2>3. CASE UNCHANGED watcher
    BY <2>1, <2>3, <1>6
  <2>4. CASE Notified(Healthy(TRUE, connected, 0), via, 0)
    <3>1. watching
      BY <2>4 DEF Notified
    <3> QED BY <2>1, <2>2, <2>4, <3>1, LookTracks
  <2> QED BY <1>8, <2>2, <2>3, <2>4, Zenon DEF Advertisement
<1>9. CASE TimerFires \/ ReachabilityExpires
  <2>1. /\ connected' = connected /\ via' = via /\ watching' = watching
        /\ \/ Notified(Healthy(device, connected, seen), via, radio)
           \/ Elapsed(Healthy(device, connected, seen), via, radio)
    BY <1>9 DEF TimerFires, ReachabilityExpires, Elapsed, Notified
  <2> QED BY <2>1, LookTracks DEF Standing
<1>10. CASE Tick
  <2>1. /\ connected' = connected /\ via' = via /\ watching' = watching
        /\ issue' = issue /\ holder' = holder
    BY <1>10 DEF Tick, WatcherTicks
  <2>2. down = None => down' = None
    BY <1>10 DEF Tick, WatcherTicks
  <2> QED BY <2>1, <2>2 DEF Tracked
<1> QED BY <1>2, <1>3, <1>4, <1>5, <1>7, <1>8, <1>9, <1>10, Steps

-----------------------------------------------------------------------------
(* The clock of an outage.  The radio's silence counts as an outage, so    *)
(* this holds as long as Home Assistant forgets an advertisement within    *)
(* the window.                                                             *)
LEMMA MissedWaits ==
  ASSUME Remembered < Window, WatcherTypeOK, issue => down = Window,
         NEW silence \in 0 .. Remembered \cup {None},
         NEW pending0,
         \/ pending0 = None
         \/ down \in 0 .. Window /\ pending0 \in 0 .. (Window - down) /\ ~issue,
         Missed(silence, pending0)
  PROVE  /\ down' = (IF down = None THEN 0 ELSE down)
         /\ issue' => down' = Window
         /\ Waits'
<1> DEFINE outage == Outage(down', silence)
<1>1. /\ down' = (IF down = None THEN 0 ELSE down)
      /\ \/ outage >= Window /\ timer' = None /\ issue' = TRUE
         \/ /\ ~(outage >= Window) /\ issue' = issue
            /\ timer' = IF pending0 = None THEN Window - outage ELSE pending0
  BY DEF Missed
<1>2. down' \in 0 .. Window
  BY <1>1 DEF WatcherTypeOK
<1>3. outage \in Nat /\ outage >= down' /\ (outage >= Window => down' = Window)
  BY <1>2 DEF Outage
<1> HIDE DEF outage
<1>4. CASE outage >= Window /\ timer' = None /\ issue' = TRUE
  BY <1>1, <1>3, <1>4 DEF Waits
<1>5. CASE /\ ~(outage >= Window) /\ issue' = issue
           /\ timer' = IF pending0 = None THEN Window - outage ELSE pending0
  <2>1. ~issue
    BY <1>1, <1>3, <1>5
  <2>2. timer' \in 0 .. (Window - down')
    BY <1>1, <1>2, <1>3, <1>5
  <2> QED BY <1>1, <1>2, <1>5, <2>1, <2>2 DEF Waits
<1> QED BY <1>1, <1>4, <1>5

(* A look at a Device that says it is not connected.                       *)
LEMMA LookMisses ==
  ASSUME Remembered < Window, WatcherTypeOK, hold, DownInv, TimerInv, UpInv, watching,
         NEW silence \in 0 .. Remembered \cup {None}, NEW dev, NEW age, NEW route,
         \/ Notified(Healthy(dev, FALSE, age), route, silence)
         \/ ~connected /\ Elapsed(Healthy(dev, FALSE, age), route, silence)
  PROVE  /\ down' = (IF connected THEN 0 ELSE down)
         /\ issue' => down' = Window
         /\ Waits'
<1>1. ~Healthy(dev, FALSE, age)
  BY DEF Healthy
<1>2. issue => down = Window
  BY DEF UpInv, DownInv
<1>3. ~connected => down # None
  BY DEF TimerInv, Waits
<1>4. \/ timer = None
      \/ down \in 0 .. Window /\ timer \in 0 .. (Window - down) /\ ~issue
  BY DEF UpInv, TimerInv, Waits
<1>5. Missed(silence, timer) \/ (~connected /\ Missed(silence, None))
  BY <1>1 DEF Notified, Elapsed, Reconcile
<1>6. /\ down' = (IF down = None THEN 0 ELSE down)
      /\ issue' => down' = Window
      /\ Waits'
  BY <1>2, <1>4, <1>5, MissedWaits
<1>7. connected => down = None
  BY DEF UpInv
<1> QED BY <1>3, <1>6, <1>7

(* A look at one that says it is.                                          *)
LEMMA LookReturns ==
  ASSUME watching, connected, device, UpInv, NEW silence, NEW age,
         \/ Notified(Healthy(device, connected, age), via, silence)
         \/ Notified(Healthy(TRUE, connected, age), via, silence)
         \/ Elapsed(Healthy(device, connected, age), via, silence),
         connected' = connected, away' = away
  PROVE  UpInv'
<1>1. Healthy(device, connected, age) /\ Healthy(TRUE, connected, age)
  BY DEF Healthy
<1>2. Returned(via)
  BY <1>1 DEF Notified, Elapsed, Reconcile
<1> QED BY <1>2, ReturnedTracks DEF UpInv

LEMMA SaysFalse ==
  ASSUME Remembered < Window, TypeOK, hold, watching, UpInv, DownInv, TimerInv,
         NEW route, Says(FALSE, route)
  PROVE  UpInv' /\ DownInv' /\ TimerInv'
<1>1. /\ Notified(Healthy(device, FALSE, seen), route, radio)
      /\ ~connected' /\ away' = away /\ watching'
  BY DEF Says, Notified
<1>2. WatcherTypeOK /\ radio \in 0 .. Remembered \cup {None}
  BY DEF TypeOK
<1>3. /\ down' = (IF connected THEN 0 ELSE down)
      /\ issue' => down' = Window
      /\ Waits'
  BY <1>1, <1>2, LookMisses
<1>4. away = (IF connected THEN 0 ELSE down)
  BY DEF UpInv, DownInv
<1> QED BY <1>1, <1>3, <1>4 DEF UpInv, DownInv, TimerInv

LEMMA OutageTick ==
  ASSUME TypeOK, UpInv, DownInv, TimerInv, Tick
  PROVE  UpInv' /\ DownInv' /\ TimerInv'
<1>1. /\ connected' = connected /\ watching' = watching /\ issue' = issue
      /\ timer # 0 /\ timer' = IF timer = None THEN None ELSE timer - 1
      /\ down' = IF down \in 0 .. Window - 1 THEN down + 1 ELSE down
      /\ away' = IF ~connected /\ away \in 0 .. Window - 1 THEN away + 1 ELSE away
  BY DEF Tick, WatcherTicks, session
<1>2. UpInv'
  BY <1>1 DEF UpInv
<1>3. DownInv'
  BY <1>1 DEF DownInv
<1>4. ASSUME Waits PROVE Waits'
  BY <1>1, <1>4 DEF Waits
<1>5. TimerInv'
  BY <1>1, <1>4 DEF TimerInv
<1> QED BY <1>2, <1>3, <1>5

LEMMA OutageSame ==
  ASSUME UpInv, DownInv, TimerInv, watcher' = watcher, connected' = connected, away' = away
  PROVE  UpInv' /\ DownInv' /\ TimerInv'
BY DEF UpInv, DownInv, TimerInv, Waits, watcher

(* The watcher looks at the Device.                                        *)
LEMMA OutageLook ==
  ASSUME Remembered < Window, TypeOK, Standing, hold, UpInv, DownInv, TimerInv, watching,
         NEW silence \in 0 .. Remembered \cup {None}, NEW age,
         \/ Notified(Healthy(device, connected, age), via, silence)
         \/ Notified(Healthy(TRUE, connected, age), via, silence)
         \/ Elapsed(Healthy(device, connected, age), via, silence),
         connected' = connected, away' = away, watching' = watching
  PROVE  UpInv' /\ DownInv' /\ TimerInv'
<1>1. CASE connected
  <2>1. UpInv'
    BY <1>1, LookReturns DEF Standing
  <2> QED BY <1>1, <2>1 DEF DownInv, TimerInv
<1>2. CASE ~connected
  <2>1. connected = FALSE /\ WatcherTypeOK
    BY <1>2 DEF TypeOK
  <2>2. /\ down' = (IF connected THEN 0 ELSE down)
        /\ issue' => down' = Window
        /\ Waits'
    BY <2>1, LookMisses
  <2> QED BY <1>2, <2>2 DEF UpInv, DownInv, TimerInv
<1> QED BY <1>1, <1>2

LEMMA OutageStep ==
  ASSUME Remembered < Window, TypeOK, Standing, OutageInv, [Next]_vars
  PROVE  OutageInv'
<1> SUFFICES ASSUME hold', ~closing' PROVE UpInv' /\ DownInv' /\ TimerInv'
  BY DEF OutageInv
<1> USE DEF env, session, senses
<1>0. hold' = hold /\ (closing => closing')
  <2>1. CASE PassStep
    BY <2>1, PassKeeps DEF still
  <2>2. CASE Setup \/ Leaves \/ Unloaded
    <3>1. hold' = hold /\ closing' = closing
      BY <2>2 DEF Setup, Leaves, Unloaded
    <3> QED BY <3>1
  <2>3. CASE Shutdown
    BY <2>3 DEF Shutdown
  <2>4. CASE Removed \/ Advertisement \/ LinkUp \/ ConnectFails \/ Drop \/ Replaced
    <3>1. env' = env
      BY <2>4 DEF Removed, Advertisement, LinkUp, ConnectFails, Drop, Replaced
    <3>2. hold' = hold /\ closing' = closing
      BY <3>1
    <3> QED BY <3>2, Zenon
  <2>5. CASE SessionBegins \/ SessionOver \/ TimerFires \/ ReachabilityExpires
    <3>1. env' = env
      BY <2>5 DEF SessionBegins, SessionOver, TimerFires, ReachabilityExpires
    <3>2. hold' = hold /\ closing' = closing
      BY <3>1
    <3> QED BY <3>2, Zenon
  <2>6. CASE Power \/ Tick \/ UNCHANGED vars
    <3>1. env' = env
      BY <2>6 DEF Power, Tick, vars
    <3>2. hold' = hold /\ closing' = closing
      BY <3>1
    <3> QED BY <3>2, Zenon
  <2> QED BY <2>1, <2>2, <2>3, <2>4, <2>5, <2>6, Steps
<1>00. hold /\ ~closing /\ UpInv /\ DownInv /\ TimerInv
  BY <1>0 DEF OutageInv
<1>000. WatcherTypeOK /\ radio \in 0 .. Remembered \cup {None}
  BY DEF TypeOK
<1>1. CASE Setup
  <2>1. ~watching /\ ~connected /\ ~connected' /\ watching'
    BY <1>1 DEF Setup, Standing, WatcherStarts
  <2>2. Missed(radio, None)
    BY <1>00, <1>1, Zenon DEF Setup, WatcherStarts, Reconcile
  <2>3. /\ down' = (IF down = None THEN 0 ELSE down)
        /\ issue' => down' = Window
        /\ Waits'
    BY <1>00, <1>000, <2>1, <2>2, MissedWaits DEF DownInv
  <2>4. away' = (IF away = None THEN 0 ELSE away)
    BY <1>1 DEF Setup
  <2> QED BY <1>00, <2>1, <2>3, <2>4 DEF UpInv, DownInv, TimerInv
<1>2. CASE Leaves
  <2>1. watching
    BY <1>2 DEF Leaves, Standing
  <2>2. CASE Says(FALSE, None)
    BY <1>00, <2>1, <2>2, SaysFalse
  <2>3. CASE UNCHANGED <<watcher, connected, senses, away>>
    BY <1>00, <2>3, OutageSame
  <2> QED BY <1>2, <2>2, <2>3 DEF Leaves
<1>3. CASE Unloaded
  <2>1. /\ ~connected /\ connected' = connected /\ away' = away
        /\ ~watching' /\ timer' = None /\ down' = down /\ issue' = issue
    BY <1>3 DEF Unloaded, Standing, WatcherStops
  <2> QED BY <1>00, <2>1 DEF UpInv, DownInv, TimerInv
<1>4. CASE Removed
  <2>1. /\ ~connected /\ ~watching /\ connected' = connected /\ watching' = watching
        /\ away' = None /\ timer' = timer /\ down' = None /\ ~issue'
    BY <1>4 DEF Removed, Standing, Forgotten
  <2> QED BY <1>00, <2>1 DEF UpInv, DownInv, TimerInv
<1>5. CASE Shutdown
  BY <1>5 DEF Shutdown
<1>6. CASE Advertisement
  <2>1. connected' = connected /\ away' = away /\ watching' = watching
    BY <1>6 DEF Advertisement, Notified, watcher
  <2>2. CASE UNCHANGED watcher
    BY <1>00, <2>1, <2>2, OutageSame
  <2>3. CASE Notified(Healthy(TRUE, connected, 0), via, 0)
    <3>1. CASE watching
      <4>1. 0 \in 0 .. Remembered \cup {None}
        OBVIOUS
      <4> QED BY <1>00, <2>1, <2>3, <3>1, <4>1, OutageLook
    <3>2. CASE ~watching
      BY <1>00, <2>1, <2>3, <3>2, OutageSame DEF Notified, watcher
    <3> QED BY <3>1, <3>2
  <2> QED BY <1>6, <2>2, <2>3, Zenon DEF Advertisement
<1>7. CASE LinkUp
  <2>1. PICK route \in Proxies \cup {Local} : via' = route /\ Says(TRUE, route)
    BY <1>7 DEF LinkUp
  <2>2. watching /\ Healthy(device, TRUE, seen)
    BY <1>7 DEF LinkUp, Healthy, Standing
  <2>3. Returned(route) /\ connected' /\ away' = 0 /\ watching'
    BY <2>1, <2>2 DEF Says, Notified, Reconcile
  <2>4. ~issue' /\ down' = None /\ timer' = None
    BY <2>3, ReturnedTracks
  <2> QED BY <2>3, <2>4 DEF UpInv, DownInv, TimerInv
<1>8. CASE ConnectFails \/ Drop
  <2>1. watching
    BY <1>8, <1>00 DEF ConnectFails, Drop, Standing
  <2> QED BY <1>00, <1>8, <2>1, SaysFalse DEF ConnectFails, Drop
<1>9. CASE Replaced \/ SessionBegins \/ SessionOver \/ PassStep \/ Power \/ UNCHANGED vars
  <2>1. watcher' = watcher /\ connected' = connected /\ away' = away
    <3>1. CASE PassStep
      BY <3>1, PassKeeps DEF still
    <3>2. CASE Replaced \/ SessionBegins \/ SessionOver \/ Power \/ UNCHANGED vars
      BY <3>2 DEF Replaced, SessionBegins, SessionOver, Power, vars
    <3> QED BY <1>9, <3>1, <3>2
  <2> QED BY <1>00, <2>1, OutageSame
<1>10. CASE TimerFires
  <2>1. /\ connected' = connected /\ away' = away /\ watching' = watching /\ timer = 0
        /\ Elapsed(Healthy(device, connected, seen), via, radio)
    BY <1>10 DEF TimerFires, Elapsed
  <2>2. watching
    BY <1>00, <2>1 DEF TimerInv
  <2> QED BY <1>00, <1>000, <2>1, <2>2, OutageLook
<1>11. CASE ReachabilityExpires
  <2>1. /\ connected' = connected /\ away' = away /\ watching' = watching
        /\ Notified(Healthy(device, connected, seen), via, radio)
    BY <1>11 DEF ReachabilityExpires, Notified
  <2>2. CASE watching
    BY <1>00, <1>000, <2>1, <2>2, OutageLook
  <2>3. CASE ~watching
    BY <1>00, <2>1, <2>3, OutageSame DEF Notified, watcher
  <2> QED BY <2>2, <2>3
<1>12. CASE Tick
  BY <1>00, <1>12, OutageTick
<1> QED BY <1>1, <1>2, <1>3, <1>4, <1>5, <1>6, <1>7, <1>8, <1>9, <1>10, <1>11, <1>12, Steps

-----------------------------------------------------------------------------
LEMMA Inductive == IInv /\ [Next]_vars => IInv'
<1> SUFFICES ASSUME IInv, [Next]_vars PROVE IInv'
  OBVIOUS
<1>1. TypeOK'
  BY EntryTypes, LinkTypes, TimeTypes, Steps DEF IInv
<1>2. Standing'
  BY StandingStep DEF IInv
<1>3. PassInv'
  BY PassStays DEF IInv
<1>4. ReturnTracked'
  BY TrackedStep DEF IInv, ReturnTracked, Tracked
<1> QED BY <1>1, <1>2, <1>3, <1>4 DEF IInv

(* The strengthening of ReturnTracked (LinkWatcher, Device.set_connected   *)
(* and the entry's setup and unload) holds for any windows and proxies.    *)
THEOREM RecoveryInvariance == Spec => []IInv
<1>1. Init => IInv
  <2> SUFFICES ASSUME Init PROVE IInv
    OBVIOUS
  <2>1. Standing /\ PassInv /\ ReturnTracked
    BY DEF Init, WatcherInit, GhostInit, Standing, PassInv, ReturnTracked
  <2> QED BY <2>1, InitTypes DEF IInv
<1> QED BY <1>1, Inductive, PTL DEF Spec

(* The variables of watcher, ghost release, entry and Device keep their    *)
(* types, whatever the times and the list of pauses are.                   *)
THEOREM TypeCorrect == Spec => []TypeOK
<1>1. IInv => TypeOK
  BY DEF IInv
<1> QED BY <1>1, RecoveryInvariance, PTL

(* While the watcher runs, a Device that says it is connected leaves no    *)
(* repair and no clock behind, and the options name the proxy that carries *)
(* the link (LinkWatcher.reconcile).                                       *)
THEOREM ReturnsAreTracked == Spec => []ReturnTracked
<1>1. IInv => ReturnTracked
  BY DEF IInv
<1> QED BY <1>1, RecoveryInvariance, PTL

(* With a held link the repair is raised at the end of the window and not  *)
(* before, whatever was reloaded meanwhile (LinkWatcher.reconcile), if     *)
(* Home Assistant forgets an advertisement within the window.              *)
THEOREM RepairIsExact ==
  ASSUME Remembered < Window
  PROVE  Spec => []RaisedExactly
<1>1. Init => OutageInv
  BY DEF Init, WatcherInit, OutageInv, UpInv, DownInv, TimerInv
<1>2. IInv /\ OutageInv /\ [Next]_vars => OutageInv'
  BY OutageStep DEF IInv
<1>3. IInv /\ OutageInv => RaisedExactly
  <2> SUFFICES ASSUME IInv, OutageInv, hold, watching, timer # 0 PROVE issue <=> away = Window
    BY DEF RaisedExactly
  <2>1. ~closing /\ UpInv /\ DownInv /\ TimerInv
    BY DEF IInv, Standing, OutageInv
  <2>2. CASE connected
    BY <2>1, <2>2 DEF UpInv
  <2>3. CASE ~connected
    BY <2>1, <2>3 DEF DownInv, TimerInv, Waits
  <2> QED BY <2>2, <2>3
<1> QED BY <1>1, <1>2, <1>3, RecoveryInvariance, PTL DEF Spec

(* A sweep of a silent ghost begins no disconnect while a link of our own  *)
(* is up, in shutdown or after the unload (free_silent_ghost).             *)
THEOREM SweepsSpareOwnLink == Spec => SweepSparesOwnLink
<1>1. IInv /\ [Next]_vars => [pending' # pending /\ pending' # Nobody => ~link /\ Supervised]_vars
  BY SweepStep DEF IInv
<1> QED BY <1>1, RecoveryInvariance, PTL DEF Spec, SweepSparesOwnLink
=============================================================================
