---------------------------- MODULE LinkWatcher ----------------------------
(***************************************************************************)
(* LinkWatcher and reconcile_issue (core/recovery.py): the countdown to    *)
(* the "unreachable" repair of one fixture, the repair itself, and the     *)
(* remembered proxy.  The module holds the watcher's state and its         *)
(* operations; who calls them, and the Device it reads, is the module      *)
(* Recovery's.                                                             *)
(*                                                                         *)
(* Time goes by in ticks.  A time that was written down is kept as the     *)
(* number of ticks since, up to Window, beyond which none is told apart.   *)
(***************************************************************************)
EXTENDS Naturals

CONSTANTS None,      \* no clock, no timer, no proxy
          Proxies,   \* proxies that may carry the link
          Window     \* UNREACHABLE_AFTER_SECONDS in ticks

ASSUME WatcherAssumption ==
  /\ Window \in Nat \ {0}
  /\ None \notin Nat \cup Proxies

VARIABLES
  watching,  \* the entry's watcher exists and is not stopped
  down,      \* LINK_DOWN_SINCE of the process: ticks since the first drop
  timer,     \* _countdown_unsub: ticks until it fires
  issue,     \* the issue registry has the repair
  holder     \* CONF_LAST_HOLDING_PROXY in the entry's options

watcher == <<watching, down, timer, issue, holder>>

WatcherInit ==
  watching = FALSE /\ down = None /\ timer = None /\ issue = FALSE /\ holder = None

(* _outage_seconds: the clock or the silence of the radio, the longer one; *)
(* an advertisement nobody remembers counts for nothing.                   *)
Outage(since, silence) == IF silence = None \/ silence < since THEN since ELSE silence

(* reconcile with a working link: forget the outage, delete the repair,    *)
(* remember the proxy that carries it, if it is one.                       *)
Returned(route) ==
  /\ timer' = None /\ down' = None /\ issue' = FALSE
  /\ holder' = IF route \in Proxies THEN route ELSE holder

(* mutant: every notification restamps the first drop                      *)
MissedRestamped(silence, pending) ==
  LET outage == Outage(0, silence)
  IN /\ down' = 0
     /\ IF outage >= Window
        THEN timer' = None /\ issue' = TRUE
        ELSE timer' = (IF pending = None THEN Window - outage ELSE pending) /\ UNCHANGED issue
     /\ UNCHANGED holder

(* reconcile without: the first drop is recorded only if none is; what is  *)
(* left of the window decides between the repair and a timer for the rest, *)
(* unless one is pending.                                                  *)
Missed(silence, pending) ==
  LET since == IF down = None THEN 0 ELSE down
      outage == Outage(since, silence)
  IN /\ down' = since
     /\ IF outage >= Window
        THEN timer' = None /\ issue' = TRUE
        ELSE timer' = (IF pending = None THEN Window - outage ELSE pending) /\ UNCHANGED issue
     /\ UNCHANGED holder

(* reconcile: nothing is told apart by who calls it.                       *)
Reconcile(healthy, route, silence, pending) ==
  IF healthy THEN Returned(route) ELSE Missed(silence, pending)

(* A notification of the Device; a stopped watcher ignores it.             *)
Notified(healthy, route, silence) ==
  /\ UNCHANGED watching
  /\ IF watching THEN Reconcile(healthy, route, silence, timer)
     ELSE UNCHANGED <<down, timer, issue, holder>>

(* _on_countdown_elapsed concludes nothing from having fired.              *)
Elapsed(healthy, route, silence) ==
  /\ timer = 0 /\ UNCHANGED watching
  /\ Reconcile(healthy, route, silence, None)

(* async_setup_link_watcher, and the Device that is attached to it before  *)
(* anything else can happen, if there is one.                              *)
WatcherStarts(healthy, silence) ==
  /\ watching' = TRUE
  /\ Reconcile(healthy, None, silence, None)

(* stop: the repair and the clock stay.                                    *)
WatcherStops ==
  /\ watching' = FALSE /\ timer' = None
  /\ UNCHANGED <<down, issue, holder>>

(* async_remove_entry.                                                     *)
Forgotten ==
  /\ issue' = FALSE /\ down' = None
  /\ UNCHANGED <<watching, timer, holder>>

(* mutant: a timer that is due is let run on                               *)
WatcherTicksOn ==
  /\ timer' = IF timer = None THEN None ELSE timer - 1
  /\ down' = IF down \in 0 .. Window - 1 THEN down + 1 ELSE down
  /\ UNCHANGED <<watching, issue, holder>>

(* One tick of the clock and of the timer; what is due comes first.        *)
WatcherTicks ==
  /\ timer # 0
  /\ timer' = IF timer = None THEN None ELSE timer - 1
  /\ down' = IF down \in 0 .. Window - 1 THEN down + 1 ELSE down
  /\ UNCHANGED <<watching, issue, holder>>

WatcherTypeOK ==
  /\ watching \in BOOLEAN
  /\ issue \in BOOLEAN
  /\ down \in 0 .. Window \cup {None}
  /\ timer \in 0 .. Window \cup {None}
  /\ holder \in Proxies \cup {None}
=============================================================================
