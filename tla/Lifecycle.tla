----------------------------- MODULE Lifecycle -----------------------------
(***************************************************************************)
(* The life of a config entry (__init__.py), of the Devices its setups     *)
(* make, and of the Clients those Devices make and throw away              *)
(* (core/device.py): setup, unload, release_link with its resume timer,    *)
(* the Stage-1 shutdown jobs, advertisements that make a Device or re-arm  *)
(* its hold, commands that make a Client on demand, and resets.            *)
(*                                                                         *)
(* Every setup makes a runtime; a runtime gets at most one Device, so the  *)
(* two share a number.  A Client is live from its construction, which      *)
(* starts connecting, until somebody calls its stop(): what a live Client  *)
(* does is the module LinkSession, and that a stopped one stays without a  *)
(* link its StoppedForGood.  Home Assistant serialises the setup and       *)
(* unload of one entry.  An await of stop() may be cut short; the          *)
(* disconnect goes on by itself (_run_to_completion).                      *)
(***************************************************************************)
EXTENDS Naturals, FiniteSets

CONSTANTS None,      \* no runtime, no Client
          Hold,      \* active_time = 0: the Device keeps its link
          Setups,    \* bound: runtimes the entry's setups make
          Built,     \* bound: Clients that are ever made
          Users,     \* tasks of user commands
          Guard      \* the task of the guardian's check

ASSUME LifecycleAssumption ==
  /\ Hold \in BOOLEAN
  /\ Setups \in Nat
  /\ Built \in Nat
  /\ None \notin Nat
  /\ Guard \notin Users

Runtimes == 1 .. Setups
Clients == 1 .. Built
Tasks == Users \cup {Guard}

VARIABLES
  stage,     \* where setup or unload of the entry stands
  cur,       \* the runtime stored for the entry; its job is registered
  runtimes,  \* runtimes made so far
  made,      \* the runtimes whose Device exists
  refusing,  \* the runtimes with runtime.closing
  closing,   \* the runtimes whose Device.closing is set
  resetting, \* the runtimes whose Device._resetting is set
  client,    \* Device.client of each runtime
  owner,     \* the Device a Client was made for
  live,      \* Clients nobody has told to stop
  ending,    \* Clients whose stop() is under way
  awaited,   \* the Client whose stop() the unload or the release of a runtime awaits
  at, on,    \* of a task: where it is in its command, and on which Device
  stopping,  \* of a task: the Client whose stop() its reset awaits
  shutting,  \* hass.data[DOMAIN][SHUTTING_DOWN]
  jobs,      \* the runtimes whose Stage-1 job was enumerated and has not begun
  stage1,    \* Stage 1 has begun
  resume     \* release_link: "no", "asked" while it unloads, "armed" timer

entry == <<stage, cur, runtimes, resume>>
links == <<client, owner, live, ending>>
tasks == <<at, on, stopping>>
latches == <<refusing, closing, shutting, jobs, stage1>>
vars == <<entry, made, resetting, links, awaited, tasks, latches>>

Init ==
  /\ stage = "out" /\ cur = None /\ runtimes = 0 /\ resume = "no"
  /\ made = {} /\ resetting = {}
  /\ client = [r \in Runtimes |-> None]
  /\ owner = [c \in Clients |-> None] /\ live = {} /\ ending = {}
  /\ awaited = [r \in Runtimes |-> None]
  /\ at = [t \in Tasks |-> "idle"] /\ on = [t \in Tasks |-> None]
  /\ stopping = [t \in Tasks |-> None]
  /\ refusing = {} /\ closing = {} /\ shutting = FALSE /\ jobs = {} /\ stage1 = FALSE

-----------------------------------------------------------------------------
(* _new_client: constructing a Client starts its connect and supervisor.   *)
NewClient(r) ==
  \E c \in Clients :
     /\ owner[c] = None /\ \A d \in Clients : d < c => owner[d] # None
     /\ client' = [client EXCEPT ![r] = c]
     /\ owner' = [owner EXCEPT ![c] = r]
     /\ live' = live \cup {c}
     /\ UNCHANGED ending

(* Detach a Device's Client and begin its stop().                          *)
Detach(r) ==
  /\ client' = [client EXCEPT ![r] = None]
  /\ live' = live \ {client[r]}
  /\ ending' = ending \cup ({client[r]} \ {None})
  /\ UNCHANGED owner

(* mutant: any advertisement that finds no reset under way builds a Client *)
RearmAlways(r) ==
  IF Hold /\ r \notin resetting /\ r \notin closing THEN NewClient(r) ELSE UNCHANGED links

(* Device.update_ble: a Client gets the fresh route; a held Device without *)
(* one gets a new Client, unless a reset is just taking the old one down.  *)
Rearm(r) ==
  IF client[r] = None /\ Hold /\ r \notin resetting /\ r \notin closing
  THEN NewClient(r) ELSE UNCHANGED links

(* _create_device: the new Device feeds itself the advertisement.          *)
CreateDevice(r) ==
  /\ made' = made \cup {r}
  /\ IF Hold THEN NewClient(r) ELSE UNCHANGED links

-----------------------------------------------------------------------------
(* async_setup_entry up to its first await.  A retry or reload begins the  *)
(* same way; the latch refuses it.                                         *)
SetupBegins ==
  /\ stage = "out" /\ ~shutting /\ runtimes + 1 \in Runtimes
  /\ stage' = "static"
  /\ UNCHANGED <<cur, runtimes, resume, made, resetting, links, awaited, tasks, latches>>

(* mutant: the latch is not looked at again after the first await          *)
SetupGoesOnUnchecked ==
  /\ stage = "static" /\ stage' = "forward"
  /\ runtimes' = runtimes + 1 /\ cur' = runtimes + 1
  /\ CreateDevice(runtimes + 1) \/ UNCHANGED <<made, links>>
  /\ UNCHANGED <<resume, resetting, awaited, tasks, latches>>

(* After the static paths: refuse, or make the runtime, register its job,  *)
(* and make a Device if the fixture is in the Bluetooth cache.             *)
SetupGoesOn ==
  /\ stage = "static"
  /\ \/ /\ shutting /\ stage' = "out"
        /\ UNCHANGED <<cur, runtimes, made, links>>
     \/ /\ ~shutting /\ stage' = "forward"
        /\ runtimes' = runtimes + 1 /\ cur' = runtimes + 1
        /\ CreateDevice(runtimes + 1) \/ UNCHANGED <<made, links>>
  /\ UNCHANGED <<resume, resetting, awaited, tasks, latches>>

(* _async_release_link_at_shutdown up to its await: latch, then release.   *)
Release(r) ==
  /\ refusing' = refusing \cup {r} /\ shutting' = TRUE
  /\ IF r \in made
     THEN /\ closing' = closing \cup {r}
          /\ Detach(r)
          /\ awaited' = [awaited EXCEPT ![r] = client[r]]
          /\ resetting' = IF client[r] = None THEN resetting \ {r} ELSE resetting \cup {r}
     ELSE UNCHANGED <<closing, links, awaited, resetting>>

(* async_release_for_shutdown returns, or RELEASE_AT_SHUTDOWN_TIMEOUT.     *)
ReleaseEnds(r) ==
  /\ r \in closing /\ awaited[r] # None
  /\ awaited' = [awaited EXCEPT ![r] = None]
  /\ resetting' = resetting \ {r}
  /\ UNCHANGED <<entry, made, links, tasks, latches>>

(* The platforms are set up: the entry is loaded, or, when the latch was   *)
(* set meanwhile, what was built is released.                              *)
ForwardEnds ==
  /\ stage = "forward"
  /\ \/ /\ ~shutting /\ stage' = "loaded"
        /\ UNCHANGED <<refusing, shutting, closing, links, awaited, resetting>>
     \/ /\ shutting /\ stage' = "aborting"
        /\ Release(cur)
  /\ UNCHANGED <<cur, runtimes, resume, made, tasks, jobs, stage1>>

(* Home Assistant runs what the entry registered with async_on_unload and  *)
(* cancels its background tasks: the guardian's check among them.          *)
EntryGone ==
  /\ stage' = "out" /\ cur' = None
  /\ LET mine == {t \in {Guard} : on[t] = cur}
     IN /\ at' = [t \in Tasks |-> IF t \in mine THEN "idle" ELSE at[t]]
        /\ on' = [t \in Tasks |-> IF t \in mine THEN None ELSE on[t]]
        /\ stopping' = [t \in Tasks |-> IF t \in mine THEN None ELSE stopping[t]]
        /\ resetting' = resetting \ {on[t] : t \in {u \in mine : at[u] = "reset"}}

(* _async_abort_setup_for_shutdown after its release.                      *)
AbortEnds ==
  /\ stage = "aborting" /\ awaited[cur] = None
  /\ EntryGone
  /\ UNCHANGED <<runtimes, resume, made, links, awaited, latches>>

(* A reload, a removal, or release_link, which may ask for a resume.       *)
UnloadBegins ==
  /\ stage = "loaded" /\ stage' = "platforms"
  /\ resume' \in {resume, "asked"}
  /\ UNCHANGED <<cur, runtimes, made, resetting, links, awaited, tasks, latches>>

(* _async_release_links arms its timer unless the process shuts down.      *)
ArmResume ==
  resume' = IF resume # "asked" THEN resume ELSE IF shutting THEN "no" ELSE "armed"

(* The platforms are unloaded and the preview and migration tasks ended:   *)
(* async_unload_entry looks for a Client to stop, and leaves it in place.  *)
UnloadStops ==
  /\ stage = "platforms"
  /\ LET c == client[cur]
     IN IF c # None
        THEN /\ stage' = "stopping"
             /\ live' = live \ {c} /\ ending' = ending \cup {c}
             /\ awaited' = [awaited EXCEPT ![cur] = c]
             /\ UNCHANGED <<cur, resume, tasks, resetting, client, owner>>
        ELSE EntryGone /\ ArmResume /\ UNCHANGED <<links, awaited>>
  /\ UNCHANGED <<runtimes, made, latches>>

UnloadEnds ==
  /\ stage = "stopping" /\ awaited[cur] \notin ending
  /\ awaited' = [awaited EXCEPT ![cur] = None]
  /\ EntryGone /\ ArmResume
  /\ UNCHANGED <<runtimes, made, links, latches>>

(* _resume: set the entry up again unless it is, or the process shuts down.*)
ResumeFires ==
  /\ resume = "armed"
  /\ stage = "out" => runtimes + 1 \in Runtimes
  /\ resume' = "no"
  /\ stage' = IF stage = "out" /\ ~shutting THEN "static" ELSE stage
  /\ UNCHANGED <<cur, runtimes, made, resetting, links, awaited, tasks, latches>>

-----------------------------------------------------------------------------
(* Stage 1 of Home Assistant's stop: the registered jobs are enumerated    *)
(* once.  The domain's own, the oldest, is a callback and runs within that *)
(* (_async_latch_at_shutdown): it latches the process and cancels the      *)
(* resume timers.  The runtime's job is a coroutine and may run later.     *)
StopBegins ==
  /\ ~stage1 /\ stage1' = TRUE
  /\ jobs' = {cur} \ {None}
  /\ shutting' = TRUE
  /\ resume' = IF resume = "armed" THEN "no" ELSE resume
  /\ UNCHANGED <<stage, cur, runtimes, made, resetting, links, awaited, tasks, refusing, closing>>

(* mutant: the release leaves the Client of a Device that is being reset   *)
(* or used to those who use it                                             *)
ReleaseJobPolite(r) ==
  /\ r \in jobs /\ jobs' = jobs \ {r}
  /\ IF \E t \in Tasks : on[t] = r /\ at[t] = "inside"
     THEN shutting' = TRUE /\ UNCHANGED <<refusing, closing, links, awaited, resetting>>
     ELSE Release(r)
  /\ UNCHANGED <<entry, made, tasks, stage1>>

(* The runtime's own job.                                                  *)
ReleaseJob(r) ==
  /\ r \in jobs /\ jobs' = jobs \ {r}
  /\ Release(r)
  /\ UNCHANGED <<entry, made, tasks, stage1>>

-----------------------------------------------------------------------------
(* update_ble, the entry's Bluetooth callback, registered once loaded.     *)
Listening == stage \in {"loaded", "platforms", "stopping"}

Advertisement ==
  /\ Listening /\ cur \notin refusing /\ ~shutting
  /\ \/ cur \in made /\ Rearm(cur) /\ UNCHANGED made
     \/ cur \notin made /\ CreateDevice(cur)
  /\ UNCHANGED <<entry, resetting, awaited, tasks, latches>>

(* Client.stop() has closed the link, within its deadline.                 *)
StopEnds(c) ==
  /\ c \in ending /\ ending' = ending \ {c}
  /\ UNCHANGED <<entry, made, resetting, client, owner, live, awaited, tasks, latches>>

-----------------------------------------------------------------------------
(* A command or a guardian step is asked of the Device of the stored       *)
(* runtime; a closing Device refuses.                                      *)
Command(t) ==
  /\ at[t] = "idle" /\ cur \in made \ closing
  /\ at' = [at EXCEPT ![t] = "queued"] /\ on' = [on EXCEPT ![t] = cur]
  /\ UNCHANGED <<entry, made, resetting, links, awaited, stopping, latches>>

(* The Device's command lock: held inside a command and, by a user's, over *)
(* the reset that follows its deadline.                                    *)
Locked(r) == \E t \in Tasks : on[t] = r /\ (at[t] = "inside" \/ (at[t] = "reset" /\ t # Guard))

Begins(t) ==
  /\ at[t] = "queued" /\ ~Locked(on[t])
  /\ at' = [at EXCEPT ![t] = "inside"]
  /\ UNCHANGED <<entry, made, resetting, links, awaited, on, stopping, latches>>

(* mutant: the latch is only looked at when the command is asked for       *)
EnsureClientUnchecked(t) ==
  /\ at[t] = "inside" /\ client[on[t]] = None
  /\ NewClient(on[t])
  /\ UNCHANGED <<entry, made, resetting, awaited, tasks, latches>>

(* _async_ensure_client of a command finds no Client and makes one.        *)
EnsureClient(t) ==
  /\ at[t] = "inside" /\ client[on[t]] = None /\ on[t] \notin closing
  /\ NewClient(on[t])
  /\ UNCHANGED <<entry, made, resetting, awaited, tasks, latches>>

Ends(t) ==
  /\ at' = [at EXCEPT ![t] = "idle"] /\ on' = [on EXCEPT ![t] = None]
  /\ stopping' = [stopping EXCEPT ![t] = None]

(* The command ends, whichever way, its calls of ensure_client included.   *)
CommandEnds(t) ==
  /\ at[t] = "inside" /\ Ends(t)
  /\ UNCHANGED <<entry, made, resetting, links, awaited, latches>>

(* async_reset_connection after a command's deadline, in the lock, or      *)
(* after the guardian's step timeout, which also covers its wait.          *)
Reset(t) ==
  /\ at[t] = "inside" \/ (t = Guard /\ at[t] = "queued")
  /\ LET r == on[t]
     IN /\ Detach(r)
        /\ IF client[r] = None
           THEN resetting' = resetting \ {r} /\ Ends(t)
           ELSE /\ resetting' = resetting \cup {r}
                /\ at' = [at EXCEPT ![t] = "reset"]
                /\ stopping' = [stopping EXCEPT ![t] = client[r]]
                /\ UNCHANGED on
  /\ UNCHANGED <<entry, made, awaited, latches>>

(* stop() returned: the flag is cleared, whoever else is resetting.        *)
ResetEnds(t) ==
  /\ at[t] = "reset" /\ stopping[t] \notin ending
  /\ resetting' = resetting \ {on[t]}
  /\ Ends(t)
  /\ UNCHANGED <<entry, made, links, awaited, latches>>

(* mutant: a reset that is cancelled leaves its flag set                   *)
CancelledUncleared(t) ==
  /\ at[t] # "idle"
  /\ UNCHANGED resetting
  /\ Ends(t)
  /\ UNCHANGED <<entry, made, links, awaited, latches>>

(* The task is cancelled at any of its awaits.                             *)
Cancelled(t) ==
  /\ at[t] # "idle"
  /\ resetting' = IF at[t] = "reset" THEN resetting \ {on[t]} ELSE resetting
  /\ Ends(t)
  /\ UNCHANGED <<entry, made, links, awaited, latches>>

-----------------------------------------------------------------------------
Next ==
  \/ SetupBegins \/ SetupGoesOn \/ ForwardEnds \/ AbortEnds
  \/ UnloadBegins \/ UnloadStops \/ UnloadEnds \/ ResumeFires
  \/ StopBegins
  \/ \E r \in Runtimes : ReleaseJob(r) \/ ReleaseEnds(r)
  \/ Advertisement
  \/ \E c \in Clients : StopEnds(c)
  \/ \E t \in Tasks : Command(t) \/ Begins(t) \/ EnsureClient(t) \/ CommandEnds(t)
                      \/ Reset(t) \/ ResetEnds(t) \/ Cancelled(t)

Spec == Init /\ [][Next]_vars

(* Home Assistant goes on with what it has begun, a disconnect is bounded  *)
(* (DISCONNECT_DEADLINE), and the fixture advertises.                      *)
FairSpec ==
  /\ Spec
  /\ WF_vars(SetupGoesOn) /\ WF_vars(ForwardEnds) /\ WF_vars(AbortEnds)
  /\ WF_vars(UnloadStops) /\ WF_vars(UnloadEnds)
  /\ WF_vars(Advertisement)
  /\ \A r \in Runtimes : WF_vars(ReleaseJob(r)) /\ WF_vars(ReleaseEnds(r))
  /\ \A c \in Clients : WF_vars(StopEnds(c))
  /\ \A t \in Tasks : WF_vars(ResetEnds(t))

-----------------------------------------------------------------------------
(* Type correctness of the state.                                          *)
TypeOK ==
  /\ stage \in {"out", "static", "forward", "loaded", "aborting", "platforms", "stopping"}
  /\ runtimes \in Nat /\ cur \in Runtimes \cup {None}
  /\ resume \in {"no", "asked", "armed"}
  /\ made \subseteq Runtimes /\ resetting \subseteq Runtimes
  /\ refusing \subseteq Runtimes /\ closing \subseteq Runtimes
  /\ client \in [Runtimes -> Clients \cup {None}]
  /\ owner \in [Clients -> Runtimes \cup {None}]
  /\ live \subseteq Clients /\ ending \subseteq Clients
  /\ awaited \in [Runtimes -> Clients \cup {None}]
  /\ at \in [Tasks -> {"idle", "queued", "inside", "reset"}]
  /\ on \in [Tasks -> Runtimes \cup {None}]
  /\ stopping \in [Tasks -> Clients \cup {None}]
  /\ shutting \in BOOLEAN
  /\ stage1 \in BOOLEAN
  /\ jobs \subseteq Runtimes

(* A Client that may connect is the Client of its Device: resets, the      *)
(* release, commands and advertisements that each replace it never leave a *)
(* second one behind that nobody can stop (device.py 735-742, 920-932).    *)
ClientsOwned == \A c \in live : client[owner[c]] = c

(* A Device that was latched for shutdown has no Client that may connect,  *)
(* then or later: neither a command that queued before the latch, nor an   *)
(* advertisement, nor the guardian makes one (device.py 757-769).          *)
ClosedForGood == \A c \in live : owner[c] \notin closing

(* Once the Stage-1 jobs have begun, the entry's runtime has no Client     *)
(* that may connect, even when its setup, or a resume of release_link,     *)
(* spans the one enumeration of the jobs and its own is never run          *)
(* (__init__.py 1741-1752, 1711-1730).                                     *)
ShutdownQuiet ==
  stage1 /\ jobs = {} => \A c \in live : owner[c] # cur

(* After Stage 1 has begun the runtime's links are closed in the end, and  *)
(* stay closed.                                                            *)
ShutdownReleases ==
  stage1 ~> [](\A c \in live \cup ending : owner[c] # cur)

(* A held Device that lost its Client to a reset gets one again with the   *)
(* fixture's advertisements, unless its entry ends or the process shuts    *)
(* down (device.py 731-742, 925-932); the models' Clients run out too.     *)
HoldRearmed ==
  (Hold /\ stage = "loaded" /\ cur \in made) ~>
    \/ stage = "loaded" => client[cur] # None
    \/ shutting
    \/ \A c \in Clients : owner[c] # None
=============================================================================
