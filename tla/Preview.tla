------------------------------ MODULE Preview ------------------------------
(***************************************************************************)
(* Schedule previews of the Device (core/device.py): the editor's preview, *)
(* a task of its own that sends one channel frame per step, each in a      *)
(* transaction of its own; the fixture's native preview of one minute of a *)
(* schedule it stores; and async_stop_preview, which every other preview,  *)
(* the light entity and the mode selector run first, inside their own      *)
(* transaction.  The commands are users' commands, so the lock is a plain  *)
(* one here (PriorityExclusion with nobody in the background).             *)
(*                                                                         *)
(* The five channel levels of a frame are one value, its look.  A write    *)
(* that failed may have reached the fixture; the Device then puts back     *)
(* the values it remembered, a deadline puts nothing back.                 *)
(***************************************************************************)
CONSTANTS Users,        \* tasks of the user's commands
          Player,       \* the task of the editor's preview
          None,
          Looks,        \* the looks a user's command may ask for
          Frames,       \* the looks of the previewed schedule
          Switches      \* native preview writes the mode: FALSE on classic fixtures

ASSUME PlayerApart == Player \notin Users
ASSUME SwitchesBoolean == Switches \in BOOLEAN

Scheduled == {"automatic", "professional"}
Modes == {"manual"} \cup Scheduled
ASSUME NothingSaved == None \notin Modes \cup Looks \cup Frames

VARIABLES
  mode, look, showing,  \* the fixture: its mode, its levels, a native preview is on
  kmode, klook,         \* Device.values
  player,               \* the coroutine _async_preview_schedule
  task,                 \* preview_task is not None
  smode, slook,         \* preview_restore_mode, preview_restore_values
  kind, nmode,          \* native_preview_schedule_type, native_preview_restore_mode
  op,                   \* the command each user's task runs
  wants, inside,        \* the command lock
  over,                 \* history: a stop succeeded and no preview began since
  stray,                \* history: a first preview packet was left without an answer
  before                \* history: the fixture when the preview began

fixture == <<mode, look, showing>>
known == <<kmode, klook>>
saved == <<smode, slook>>
native == <<kind, nmode>>

(* native_preview_active is set and cleared together with the type.        *)
active == kind # None

lock == <<wants, inside>>
vars == <<fixture, known, player, task, saved, native, op, lock, over, stray, before>>

Lock == INSTANCE PriorityExclusion WITH Tasks <- Users \cup {Player},
                                        Priority <- Users \cup {Player}

Idle == [do |-> "idle", at |-> "none", arg |-> None, restore |-> FALSE, ok |-> TRUE]

Init ==
  /\ mode \in Modes /\ look \in Looks /\ showing = FALSE
  /\ kmode = mode /\ klook = look
  /\ player = "none" /\ task = FALSE
  /\ smode = None /\ slook = None
  /\ kind = None /\ nmode = None
  /\ op = [u \in Users |-> Idle]
  /\ Lock!AInit
  /\ over = TRUE /\ stray = FALSE /\ before = None

-----------------------------------------------------------------------------
(* Writes, as the sets of what may be left behind: the fixture and what    *)
(* the Device remembers.                                                   *)
Untouched == [ok |-> TRUE, mode |-> mode, look |-> look, kmode |-> kmode, klook |-> klook]
Outcomes(m, l) ==
  [ok : BOOLEAN, mode : {mode, m}, look : {look, l}, kmode : {kmode, m}, klook : {klook, l}]

(* The fixture is put in manual mode first, unless believed to be in it.   *)
Manual == IF kmode = "manual" THEN mode ELSE "manual"

(* _async_set_channels_now: nothing is sent when the levels are those the  *)
(* Device remembers.  It remembers the new ones before their packet is     *)
(* sent; the packet of a single channel leaves the others as they are.     *)
ChannelWrite(l) ==
  IF klook = l THEN {Untouched}
  ELSE {r \in [ok : BOOLEAN, mode : {mode, Manual},
               look : IF klook = look THEN {look, l} ELSE Looks \cup Frames,
               kmode : {kmode, "manual"}, klook : {klook, l}] :
          /\ r.ok => /\ r.mode = Manual /\ r.kmode = "manual" /\ r.klook = l
                     /\ klook = look => r.look = l
          /\ r.look # look \/ r.klook # klook => r.mode = Manual
          /\ r.klook # klook => r.kmode = "manual"}

(* async_set_switch: the power itself is not part of a look.               *)
SwitchWrite ==
  {r \in Outcomes("manual", look) :
     /\ r.klook = klook /\ r.mode \in {mode, Manual}
     /\ r.ok => r.mode = Manual /\ r.kmode = "manual"}

(* async_select_option("mode", m): always sent.                            *)
ModeWrite(m) ==
  {r \in Outcomes(m, look) : r.klook = klook /\ (r.ok => r.mode = m /\ r.kmode = m)}

Leaves(r) ==
  /\ mode' = r.mode /\ look' = r.look
  /\ kmode' = r.kmode /\ klook' = r.klook

(* What the Device remembers has come apart from the fixture.              *)
Astray == kmode' # mode' \/ klook' # look'

-----------------------------------------------------------------------------
(* The users' commands.                                                    *)
(* The argument restore is the one of the stop a command begins with.      *)
Call(does, args, restore) ==
  [do : does, at : {"none"}, arg : args, restore : {restore}, ok : {TRUE}]

Calls ==
  Call({"play", "stop", "on", "off"}, {None}, TRUE) \cup Call({"native"}, Scheduled, TRUE)
    \cup Call({"light", "channels"}, Looks, FALSE)
    \cup Call({"select", "schedule"}, Scheduled, FALSE)

Ask(u, c) ==
  /\ op[u] = Idle
  /\ Lock!Want(u)
  /\ op' = [op EXCEPT ![u] = [c EXCEPT !.at = "queued"]]
  /\ UNCHANGED <<fixture, known, player, task, saved, native, over, stray, before>>

(* Previews, light and mode selector stop the preview that is on; the      *)
(* set_channels action and the schedule writes leave it alone, and so does *)
(* a native preview that follows a native one.                             *)
StopsFirst(u) ==
  /\ op[u].do \notin {"channels", "schedule"}
  /\ op[u].do = "native" => task \/ slook # None

Begins(u) ==
  /\ op[u].at = "queued"
  /\ Lock!Begin(u)
  /\ op' = [op EXCEPT ![u].at = IF StopsFirst(u) THEN "halt" ELSE "act"]
  /\ UNCHANGED <<fixture, known, player, task, saved, native, over, stray, before>>

Finish(u) == Lock!End(u) /\ op' = [op EXCEPT ![u] = Idle]

(* mutant: a task that sleeps between two frames is not cancelled          *)
HaltAsked(u) ==
  /\ op[u].at = "halt"
  /\ IF player \in {"none", "asleep"} THEN UNCHANGED player ELSE player' = "cancelled"
  /\ op' = [op EXCEPT ![u].at = IF player = "asleep" THEN "restore" ELSE "join"]
  /\ UNCHANGED <<fixture, known, task, saved, native, lock, over, stray, before>>

(* async_stop_preview cancels the task of the editor's preview and waits   *)
(* for it, holding the lock the task may be queued for.                    *)
Halt(u) ==
  /\ op[u].at = "halt"
  /\ IF player = "none" THEN UNCHANGED player ELSE player' = "cancelled"
  /\ op' = [op EXCEPT ![u].at = "join"]
  /\ UNCHANGED <<fixture, known, task, saved, native, lock, over, stray, before>>

AfterHalt(u) ==
  /\ op[u].at = "join"
  /\ task' = FALSE
  /\ op' = [op EXCEPT ![u].at = "restore"]
  /\ UNCHANGED <<fixture, known, player, saved, native, lock, over, stray, before>>

Joined(u) == player = "none" /\ AfterHalt(u)

(* The deadline of the command arrives during the wait: it is swallowed    *)
(* together with the task's own cancellation, and the stop goes on.        *)
DeadlineSwallowed(u) == player = "cancelled" /\ AfterHalt(u)

(* A stop that fails ends its command; but the light's turn_off goes on,   *)
(* unless it was the deadline.                                             *)
StopFails(u) ==
  \/ Finish(u)
  \/ op[u].do = "off" /\ op' = [op EXCEPT ![u].at = "act"] /\ UNCHANGED lock

(* The saved state is forgotten before it is put back; a deadline ends the *)
(* command at once.                                                        *)
Restored(u) ==
  /\ op[u].at = "restore"
  /\ smode' = None /\ slook' = None
  /\ \E r \in IF ~op[u].restore \/ slook = None THEN {Untouched}
              ELSE IF smode # None THEN ModeWrite(smode) ELSE ChannelWrite(slook) :
       /\ Leaves(r)
       /\ \/ op' = [op EXCEPT ![u].ok = r.ok, ![u].at = "quell"] /\ UNCHANGED lock
          \/ ~r.ok /\ Finish(u)
       /\ before' = IF Astray \/ ~r.ok THEN None ELSE before
  /\ UNCHANGED <<showing, player, task, native, over, stray>>

(* What the Device remembers of a native preview is forgotten.             *)
Forget == kind' = None /\ nmode' = None

(* A native preview is ended with its stop packet, and the fixture put     *)
(* back in the mode it was in, or left in the mode it previewed.           *)
Quell(u) ==
  /\ op[u].at = "quell" /\ active
  /\ \/ /\ showing' \in {showing, FALSE}         \* no answer
        /\ StopFails(u) /\ before' = None
        /\ UNCHANGED <<native, stray>>
     \/ /\ showing' = FALSE /\ stray' = FALSE
        /\ IF op[u].restore
             THEN op' = [op EXCEPT ![u].at = "home"] /\ UNCHANGED native
             ELSE op' = [op EXCEPT ![u].at = "stopped"] /\ Forget
        /\ UNCHANGED <<lock, before>>
  /\ UNCHANGED <<mode, look, known, player, task, saved, over>>

(* _async_restore_native_preview_mode.                                     *)
HomeWrites ==
  IF ~Switches \/ nmode = None \/ kmode = nmode THEN {Untouched}
  ELSE {r \in ModeWrite(nmode) : r.ok \/ r.kmode = kmode}

Home(u) ==
  /\ op[u].at = "home"
  /\ \E r \in HomeWrites :
       /\ Leaves(r)
       /\ IF r.ok THEN Forget /\ op' = [op EXCEPT ![u].at = "stopped"] /\ UNCHANGED lock
                  ELSE UNCHANGED native /\ StopFails(u)
       /\ before' = IF Astray \/ ~r.ok THEN None ELSE before
  /\ UNCHANGED <<showing, player, task, saved, over, stray>>

(* The stop is over: its caller goes on if it succeeded, the light's       *)
(* turn_off in any case.                                                   *)
Stopped(u) ==
  /\ \/ op[u].at = "stopped"
     \/ op[u].at = "quell" /\ ~active
  /\ over' = (over \/ op[u].ok)
  /\ IF op[u].do # "stop" /\ (op[u].ok \/ op[u].do = "off")
       THEN op' = [op EXCEPT ![u].at = "act"] /\ UNCHANGED lock
       ELSE Finish(u)
  /\ UNCHANGED <<fixture, known, player, task, saved, native, stray, before>>

-----------------------------------------------------------------------------
(* async_preview_schedule remembers the fixture as it is now, and starts   *)
(* (a cancelled task has gone before the stop has written anything).       *)
Play(u) ==
  /\ op[u].do = "play" /\ op[u].at = "act" /\ player = "none"
  /\ smode' = IF kmode \in Scheduled THEN kmode ELSE None
  /\ slook' = klook
  /\ task' = TRUE /\ player' = "asleep"
  /\ over' = FALSE
  /\ before' = IF kmode = mode /\ klook = look THEN [mode |-> mode, look |-> look] ELSE None
  /\ Finish(u)
  /\ UNCHANGED <<fixture, known, native, stray>>

(* mutant: every native preview saves the mode it finds                    *)
NativeModeResaved(u) ==
  /\ op[u].do = "native" /\ op[u].at = "act"
  /\ nmode' = kmode
  /\ before' = IF active THEN before
               ELSE IF kmode = mode /\ klook = look THEN [mode |-> mode, look |-> look] ELSE None
  /\ op' = [op EXCEPT ![u].at = "mode"]
  /\ UNCHANGED <<fixture, known, player, task, saved, kind, lock, over, stray>>

(* async_preview_native_schedule: where the fixture previews the schedule  *)
(* of its mode, the mode is written first.                                 *)
NativeMode(u) ==
  /\ op[u].do = "native" /\ op[u].at = "act"
  /\ nmode' = IF active THEN nmode ELSE kmode
  /\ before' = IF active THEN before
               ELSE IF kmode = mode /\ klook = look THEN [mode |-> mode, look |-> look] ELSE None
  /\ op' = [op EXCEPT ![u].at = "mode"]
  /\ UNCHANGED <<fixture, known, player, task, saved, kind, lock, over, stray>>

NativeSwitch(u) ==
  /\ op[u].at = "mode"
  /\ \E r \in IF Switches /\ (kmode # op[u].arg \/ kind \notin {None, op[u].arg}) THEN ModeWrite(op[u].arg)
              ELSE {Untouched} :
       /\ Leaves(r)
       /\ IF r.ok THEN op' = [op EXCEPT ![u].at = "show"] /\ UNCHANGED <<nmode, lock>>
                  ELSE Finish(u) /\ nmode' = IF active THEN nmode ELSE None
       /\ before' = IF Astray \/ ~r.ok THEN None ELSE before
  /\ UNCHANGED <<showing, player, task, saved, kind, over, stray>>

(* The packet of the preview; when the first one fails, the mode is put    *)
(* back at once.                                                           *)
NativeShow(u) ==
  /\ op[u].at = "show"
  /\ \/ /\ showing' = TRUE /\ kind' = op[u].arg /\ over' = FALSE
        /\ Finish(u)
        /\ UNCHANGED <<nmode, stray, before, mode, look, known>>
     \/ /\ showing' \in {showing, TRUE}
        /\ stray' = (stray \/ ~active)
        /\ IF active THEN UNCHANGED <<mode, look, known, native>>
           ELSE \E r \in HomeWrites : Leaves(r) /\ IF r.ok THEN Forget ELSE UNCHANGED native
        /\ Finish(u)
        /\ over' = FALSE /\ before' = None
  /\ UNCHANGED <<player, task, saved>>

(* What a command writes: a look or a mode; the light's turn_on the power, *)
(* or a look for a fixture whose levels are zero; its turn_off the power.  *)
WritesOf(c) ==
  IF c.do = "off" THEN SwitchWrite
  ELSE IF c.do = "on" THEN SwitchWrite \cup UNION {ChannelWrite(l) : l \in Looks}
  ELSE IF c.arg \in Modes THEN ModeWrite(c.arg) ELSE ChannelWrite(c.arg)

(* The light, the mode selector and the actions that leave previews alone. *)
Write(u) ==
  /\ op[u].do \notin {"play", "stop", "native"} /\ op[u].at = "act"
  /\ \E r \in WritesOf(op[u]) : Leaves(r)
  /\ before' = None
  /\ Finish(u)
  /\ UNCHANGED <<showing, player, task, saved, native, over, stray>>

-----------------------------------------------------------------------------
(* _async_preview_schedule: a frame in a transaction of its own, a sleep;  *)
(* the outcome of a frame is ignored, except that a deadline ends the task.*)
PlayerAsks ==
  /\ player = "asleep"
  /\ Lock!Want(Player)
  /\ player' = "queued"
  /\ UNCHANGED <<fixture, known, task, saved, native, op, over, stray, before>>

PlayerBegins ==
  /\ player = "queued"
  /\ Lock!Begin(Player)
  /\ player' = "frame"
  /\ UNCHANGED <<fixture, known, task, saved, native, op, over, stray, before>>

PlayerSends ==
  /\ player = "frame"
  /\ \E l \in Frames : \E r \in ChannelWrite(l) :
       /\ Leaves(r)
       /\ player' = "asleep" \/ player' = "none"
       /\ before' = IF Astray THEN None ELSE before
  /\ Lock!End(Player)
  /\ UNCHANGED <<showing, task, saved, native, op, over, stray>>

(* mutant: the task is shielded while it queues for the lock               *)
PlayerEndsShielded ==
  /\ player = "cancelled"
  /\ Player \notin wants
  /\ player' = "none"
  /\ UNCHANGED <<fixture, known, task, saved, native, op, lock, over, stray, before>>

(* The cancelled task leaves its sleep, or the queue for the lock.         *)
PlayerEnds ==
  /\ player = "cancelled"
  /\ player' = "none"
  /\ IF Player \in wants THEN Lock!GiveUp(Player) ELSE UNCHANGED lock
  /\ UNCHANGED <<fixture, known, task, saved, native, op, over, stray, before>>

(* The app or a button changes the fixture, and it may say so.             *)
Drift ==
  /\ \E m \in Modes, l \in Looks : mode' = m /\ look' = l
  /\ UNCHANGED known \/ (kmode' = mode' /\ klook' = look')
  /\ before' = None
  /\ UNCHANGED <<showing, player, task, saved, native, op, lock, over, stray>>

-----------------------------------------------------------------------------
UserStep(u) ==
  \/ Begins(u) \/ Halt(u) \/ Joined(u) \/ Restored(u) \/ Quell(u) \/ Home(u) \/ Stopped(u)
  \/ Play(u) \/ NativeMode(u) \/ NativeSwitch(u) \/ NativeShow(u) \/ Write(u)

PlayerStep == PlayerAsks \/ PlayerBegins \/ PlayerSends \/ PlayerEnds

Next ==
  \/ \E u \in Users : (\E c \in Calls : Ask(u, c)) \/ UserStep(u) \/ DeadlineSwallowed(u)
  \/ PlayerStep
  \/ Drift

Spec == Init /\ [][Next]_vars

(* A task that can run runs; whoever waits for the lock is served in the   *)
(* end, since asyncio's lock is first come, first served.                  *)
FairSpec == Spec /\ WF_vars(PlayerStep) /\ \A u \in Users : SF_vars(UserStep(u))

-----------------------------------------------------------------------------
(* Type correctness; whoever has asked for the lock has it or waits.       *)
Places == {"none", "queued", "halt", "join", "restore", "quell", "home", "stopped",
           "act", "mode", "show"}
Doings == {"idle", "play", "stop", "native", "on", "off", "light", "channels", "select",
           "schedule"}

TypeOK ==
  /\ mode \in Modes /\ kmode \in Modes
  /\ look \in Looks \cup Frames /\ klook \in Looks \cup Frames
  /\ showing \in BOOLEAN /\ task \in BOOLEAN /\ over \in BOOLEAN /\ stray \in BOOLEAN
  /\ player \in {"none", "asleep", "queued", "frame", "cancelled"}
  /\ smode \in Scheduled \cup {None} /\ slook \in Looks \cup Frames \cup {None}
  /\ kind \in Scheduled \cup {None} /\ nmode \in Modes \cup {None}
  /\ op \in [Users -> [do : Doings, at : Places, arg : Looks \cup Scheduled \cup {None},
                       restore : BOOLEAN, ok : BOOLEAN]]
  /\ \A u \in Users : op[u].at # "none" <=> u \in wants \cup inside

(* "Using the normal light or Mode controls stops an active preview"       *)
(* (README.md): once a stop has succeeded, no frame of the editor's        *)
(* preview is sent and the fixture shows no native one, until the next     *)
(* preview begins; only a first preview packet without an answer can leave *)
(* one on behind the Device's back.                                        *)
StoppedStaysStopped ==
  over => player \notin {"asleep", "queued", "frame"} /\ (showing => stray)

(* "The dedicated Stop preview action restores the prior fixture mode"     *)
(* (README.md): a stop that is to restore, the action's or one that begins *)
(* another preview or switches the light, and reports success, leaves the  *)
(* fixture as it was when the preview began, whatever previews came after  *)
(* it, unless another command, the app or a write without an answer        *)
(* interfered.                                                             *)
StopRestores ==
  [][\A u \in Users :
       Stopped(u) /\ op[u].restore /\ op[u].ok /\ before # None /\ ~over
         => mode = before.mode /\ (mode = "manual" => look = before.look)]_vars

(* The stop waits for a task that may wait for the stop's own lock: it     *)
(* returns all the same, without the help of its deadline.                 *)
StopReturns == \A u \in Users : op[u].at # "none" ~> op[u].at = "none"
=============================================================================
