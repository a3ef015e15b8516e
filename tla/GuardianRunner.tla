--------------------------- MODULE GuardianRunner ---------------------------
(***************************************************************************)
(* start_runner (core/guardian.py): what starts the schedule guardian's    *)
(* checks, for how long, and which of them are dropped.  An interval, the  *)
(* fixture's connects and a one-shot retry timer trigger a check; the      *)
(* check itself is the module Guardian's, here only the time it holds      *)
(* _check_lock and whether it deferred to a user's command.  A trigger     *)
(* that finds the lock taken starts nothing.  Services and the button call *)
(* async_check and async_end_override past the runner and take the same    *)
(* lock.                                                                   *)
(*                                                                         *)
(* Whose turn it is among those who wait for the lock is left open; the    *)
(* lock is free for a moment before the next of them takes it.             *)
(***************************************************************************)
EXTENDS Naturals

CONSTANTS Nobody,    \* nobody holds the lock
          Runners,   \* bound: the runner's tasks that exist at a time
          Services   \* the callers of async_check and async_end_override

ASSUME CallersDistinct == Runners \cap Services = {} /\ Nobody \notin Runners \cup Services

Callers == Runners \cup Services

VARIABLES
  phase,              \* of each task: its first call of async_check, one "again"
  holder,             \* who holds _check_lock
  rerun,              \* rerun["pending"]
  retry, timers,      \* retry["unsub"] is set; the one-shot timers outstanding
  shutdown, unloaded, \* Device.closing; the entry has been unloaded
  owed,               \* history: a connect came during a runner's first check
  deferred            \* history: a runner's check deferred; no one had the lock since

oneshot == <<retry, timers>>
entry == <<shutdown, unloaded>>
runnerVars == <<phase, holder, rerun, oneshot, entry, owed, deferred>>

Waiting == {t \in Callers : phase[t] # "idle" /\ holder # t}

(* A link that is still connecting gets a timer, any other one a check.    *)
RunnerInit ==
  /\ \/ /\ phase = [t \in Callers |-> "idle"] /\ holder = Nobody
        /\ retry = TRUE /\ timers = 1
     \/ \E r \in Runners :
          /\ phase = [t \in Callers |-> IF t = r THEN "first" ELSE "idle"] /\ holder = r
          /\ retry = FALSE /\ timers = 0
  /\ rerun = FALSE /\ shutdown = FALSE /\ unloaded = FALSE
  /\ owed = FALSE /\ deferred = FALSE

-----------------------------------------------------------------------------
(* async_check or async_end_override asks for the lock: it takes a free    *)
(* one at once unless somebody waits already.                              *)
AsksForLock(t, call) ==
  /\ phase' = [phase EXCEPT ![t] = call]
  /\ IF holder = Nobody /\ Waiting = {}
     THEN holder' = t /\ deferred' = FALSE
     ELSE UNCHANGED <<holder, deferred>>

LockGranted(t) ==
  /\ t \in Waiting /\ holder = Nobody
  /\ t \in Runners => ~unloaded
  /\ holder' = t /\ deferred' = FALSE
  /\ UNCHANGED <<phase, rerun, oneshot, entry, owed>>

(* mutant: no check is started while a rerun is pending                    *)
RunCheckSoonAwaitsRerun(afterConnect) ==
  \/ (shutdown \/ rerun) /\ UNCHANGED <<phase, holder, rerun, owed, deferred>>
  \/ /\ ~shutdown /\ ~rerun /\ holder # Nobody
     /\ rerun' = afterConnect
     /\ owed' = (owed \/ (afterConnect /\ holder \in Runners /\ phase[holder] = "first"))
     /\ UNCHANGED <<phase, holder, deferred>>
  \/ /\ ~shutdown /\ ~rerun /\ holder = Nobody
     /\ \E r \in Runners : phase[r] = "idle" /\ AsksForLock(r, "first")
     /\ UNCHANGED <<rerun, owed>>

(* _run_check_soon: a new task starts a check, unless one is running; a    *)
(* connect then asks for one more.                                         *)
RunCheckSoon(afterConnect) ==
  \/ shutdown /\ UNCHANGED <<phase, holder, rerun, owed, deferred>>
  \/ /\ ~shutdown /\ holder # Nobody
     /\ rerun' = (rerun \/ afterConnect)
     /\ owed' = (owed \/ (afterConnect /\ holder \in Runners /\ phase[holder] = "first"))
     /\ UNCHANGED <<phase, holder, deferred>>
  \/ /\ ~shutdown /\ holder = Nobody
     /\ \E r \in Runners : phase[r] = "idle" /\ AsksForLock(r, "first")
     /\ UNCHANGED <<rerun, owed>>

Interval ==
  /\ ~unloaded
  /\ RunCheckSoon(FALSE)
  /\ UNCHANGED <<oneshot, entry>>

ConnectionChanged ==
  /\ ~unloaded
  /\ RunCheckSoon(TRUE)
  /\ UNCHANGED <<oneshot, entry>>

RetryNow ==
  /\ timers > 0
  /\ timers' = timers - 1 /\ retry' = FALSE
  /\ RunCheckSoon(FALSE)
  /\ UNCHANGED entry

-----------------------------------------------------------------------------
(* What outlives _cancel_retry.                                            *)
OtherTimers == IF retry THEN timers - 1 ELSE timers

(* mutant: the timer of an earlier deferral is not cancelled               *)
RearmStacks(defers) ==
  IF defers
  THEN retry' = TRUE /\ timers' = timers + 1
  ELSE retry' = FALSE /\ timers' = OtherTimers

(* mutant: the timer is cancelled after the new one was armed              *)
RearmSwapped(defers) ==
  retry' = FALSE /\ timers' = IF defers THEN timers ELSE OtherTimers

(* The end of _async_check_and_rearm.                                      *)
Rearm(defers) ==
  IF defers
  THEN retry' = TRUE /\ timers' = OtherTimers + 1
  ELSE retry' = FALSE /\ timers' = OtherTimers

(* async_check returns; which verdicts it gives is the guardian's matter,  *)
(* and a closing one repeats its last.  A pending rerun starts a second    *)
(* call, behind those who wait for the lock; with a closing Device the     *)
(* call returns at once.                                                   *)
RunnerEnds(r, defers) ==
  /\ holder = r /\ ~unloaded
  /\ LET again == phase[r] = "first" /\ rerun IN
     /\ rerun' = (rerun /\ ~again)
     /\ owed' = (owed /\ ~again)
     /\ \/ /\ again /\ ~shutdown
           /\ phase' = [phase EXCEPT ![r] = "again"]
           /\ holder' = IF Waiting = {} THEN r ELSE Nobody
           /\ deferred' = FALSE /\ UNCHANGED oneshot
        \/ /\ ~again \/ shutdown
           /\ phase' = [phase EXCEPT ![r] = "idle"] /\ holder' = Nobody
           /\ deferred' = defers /\ Rearm(defers)
  /\ UNCHANGED entry

(* guardian_check_now, end_override and their buttons.                     *)
ServiceCalls(s) ==
  /\ phase[s] = "idle" /\ ~shutdown /\ ~unloaded
  /\ AsksForLock(s, "first")
  /\ UNCHANGED <<rerun, oneshot, entry, owed>>

(* A call returns, or its caller gives up, also while it waits.            *)
ServiceEnds(s) ==
  /\ phase[s] # "idle"
  /\ phase' = [phase EXCEPT ![s] = "idle"]
  /\ holder' = IF holder = s THEN Nobody ELSE holder
  /\ UNCHANGED <<rerun, oneshot, entry, owed, deferred>>

-----------------------------------------------------------------------------
(* mutant: the retry timer is left to itself                               *)
UnloadKeepsTimer ==
  /\ ~unloaded /\ unloaded' = TRUE
  /\ UNCHANGED <<phase, holder, rerun, oneshot, shutdown, owed, deferred>>

(* The entry is unloaded: _unsub, after which Home Assistant cancels the   *)
(* entry's background tasks.                                               *)
Unload ==
  /\ ~unloaded /\ unloaded' = TRUE
  /\ retry' = FALSE /\ timers' = OtherTimers
  /\ UNCHANGED <<phase, holder, rerun, shutdown, owed, deferred>>

RunnerCancelled(r) ==
  /\ unloaded /\ phase[r] # "idle"
  /\ phase' = [phase EXCEPT ![r] = "idle"]
  /\ holder' = IF holder = r THEN Nobody ELSE holder
  /\ UNCHANGED <<rerun, oneshot, entry, owed, deferred>>

DeviceCloses ==
  /\ ~shutdown /\ shutdown' = TRUE
  /\ UNCHANGED <<phase, holder, rerun, oneshot, unloaded, owed, deferred>>

RunnerNext ==
  \/ Interval \/ ConnectionChanged \/ RetryNow
  \/ \E t \in Callers : LockGranted(t)
  \/ \E r \in Runners : (\E defers \in BOOLEAN : RunnerEnds(r, defers)) \/ RunnerCancelled(r)
  \/ \E s \in Services : ServiceCalls(s) \/ ServiceEnds(s)
  \/ Unload \/ DeviceCloses

RunnerSpec == RunnerInit /\ [][RunnerNext]_runnerVars

(* A check ends, by its overall deadline at the latest; the lock is handed *)
(* on; the interval does not always fall into a call of a service.         *)
RunnerFairness ==
  /\ SF_runnerVars(Interval /\ holder = Nobody)
  /\ \A t \in Callers : SF_runnerVars(LockGranted(t))
  /\ \A r \in Runners : WF_runnerVars(\E defers \in BOOLEAN : RunnerEnds(r, defers))
  /\ \A s \in Services : WF_runnerVars(holder = s /\ ServiceEnds(s))
RunnerFairSpec == RunnerSpec /\ RunnerFairness

-----------------------------------------------------------------------------
RunnerTypeOK ==
  /\ phase \in [Callers -> {"idle", "first", "again"}]
  /\ holder \in Callers \cup {Nobody}
  /\ holder # Nobody => phase[holder] # "idle"
  /\ timers \in Nat
  /\ rerun \in BOOLEAN /\ retry \in BOOLEAN /\ shutdown \in BOOLEAN /\ unloaded \in BOOLEAN
  /\ owed \in BOOLEAN /\ deferred \in BOOLEAN

(* "a single one-shot timer, replaced rather than stacked" (start_runner): *)
(* whatever order checks end, timers fire and the entry is unloaded in,    *)
(* the only timer outstanding is the one that _cancel_retry can reach.     *)
OneTimer == timers = IF retry THEN 1 ELSE 0

(* "A check that deferred to a user command is re-armed here": its timer   *)
(* is outstanding until somebody else has had the lock, or the check it    *)
(* started is waiting for the lock.                                        *)
DeferralRearmed ==
  deferred /\ ~shutdown /\ ~unloaded => retry \/ Waiting \cap Runners # {}

(* "The link came up while a check that began before it was still running: *)
(* ... run one more as soon as it finishes": a runner that was checking    *)
(* when the link came up checks again, unless the Device closes.           *)
RerunFollows ==
  owed /\ ~shutdown /\ ~unloaded => holder \in Runners /\ phase[holder] = "first"

(* From the unload on no timer is outstanding and no task of the runner    *)
(* gets to check the fixture (_unsub).                                     *)
SilentAfterUnload ==
  [][unloaded' => timers' = 0 /\ \A r \in Runners : holder' = r => holder = r]_runnerVars

(* A rerun that no running task will look at, because a service's call was *)
(* under way, or a second check, is not forgotten: the check of a later    *)
(* interval is followed by one more.                                       *)
RerunServed == rerun ~> ~rerun \/ shutdown \/ unloaded
=============================================================================
