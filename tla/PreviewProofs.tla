--------------------------- MODULE PreviewProofs ----------------------------
(***************************************************************************)
(* Theorems about Preview, for any users, looks and kinds of fixture: once *)
(* a stop has succeeded nothing of a preview goes on, however the users'   *)
(* commands, the preview's task, deadlines and the app interleave.         *)
(***************************************************************************)
EXTENDS Preview, TLAPS

USE PlayerApart, SwitchesBoolean, NothingSaved
  DEF PlayerApart, SwitchesBoolean, NothingSaved

Commands == [do : Doings, at : Places, arg : Looks \cup Scheduled \cup {None},
             restore : BOOLEAN, ok : BOOLEAN]

(* The types of the lock's and of the commands' part of the state.         *)
OpTypes == op \in [Users -> Commands]
PlayerTypes == player \in {"none", "asleep", "queued", "frame", "cancelled"}

(* One task is inside at most, and a user's place tells where it is.       *)
LockInv ==
  /\ \A s, t \in inside : s = t
  /\ wants \cap inside = {}
PlaceInv ==
  \A u \in Users :
    /\ op[u].at = "queued" <=> u \in wants
    /\ op[u].at \notin {"none", "queued"} <=> u \in inside
PlayerInv ==
  /\ Player \in wants => player \in {"queued", "cancelled"}
  /\ Player \in inside <=> player = "frame"

(* A native preview is of a scheduled mode, a write of a look or a mode;   *)
(* whoever is in a transaction, or waits for one, has a command to run.    *)
Fits(c) ==
  /\ c.do = "native" => c.arg \in Scheduled
  /\ c.do \in {"light", "channels", "select", "schedule"} => c.arg \in Looks \cup Scheduled
ArgInv == \A u \in Users : Fits(op[u]) /\ (op[u].do = "idle" => op[u].at = "none")
ShowAt == \A u \in Users : op[u].at \in {"mode", "show"} => op[u].do = "native"

(* A stop that is past its cancellation has no task of the editor's        *)
(* preview left; one that is past its packet has no native preview left.   *)
HaltInv ==
  \A u \in Users :
    /\ op[u].at \in {"join", "restore", "quell", "home", "stopped"}
         => player \in {"none", "cancelled"}
    /\ op[u].at \in {"home", "stopped"} => ~showing

(* A native preview the Device does not know of is a stray one.            *)
ShowInv == showing => (active \/ stray)

(* The types of the fixture, of what the Device knows of it and has saved. *)
Shown == Looks \cup Frames
ValueTypes ==
  /\ mode \in Modes /\ kmode \in Modes /\ look \in Shown /\ klook \in Shown
  /\ smode \in Scheduled \cup {None} /\ slook \in Shown \cup {None}
  /\ kind \in Scheduled \cup {None} /\ nmode \in Modes \cup {None}
FlagTypes == showing \in BOOLEAN /\ task \in BOOLEAN /\ over \in BOOLEAN /\ stray \in BOOLEAN

Base == OpTypes /\ PlayerTypes /\ LockInv /\ PlaceInv /\ PlayerInv
IInv ==
  /\ Base /\ ArgInv /\ ShowAt /\ HaltInv
  /\ ValueTypes /\ FlagTypes
  /\ ShowInv /\ StoppedStaysStopped

-----------------------------------------------------------------------------
(* Commands.                                                               *)
LEMMA CallTypes ==
  ASSUME NEW c \in Calls
  PROVE  c \in Commands /\ c.at = "none" /\ c.do # "idle" /\ Fits(c)
BY DEF Fits, Calls, Call, Commands, Doings, Places

LEMMA IdleType == Idle \in Commands /\ Idle.at = "none" /\ Idle.do = "idle" /\ Fits(Idle)
BY DEF Idle, Fits, Commands, Doings, Places

(* A user that runs a command runs alone.                                  *)
LEMMA Alone ==
  ASSUME Base, NEW u \in Users, op[u].at \notin {"none", "queued"}
  PROVE  /\ inside = {u} /\ Player \notin inside /\ player # "frame"
         /\ \A v \in Users \ {u} : op[v].at \in {"none", "queued"}
BY DEF Base, LockInv, PlaceInv, PlayerInv

(* What a command that runs does to itself and to the lock: it goes on at  *)
(* another place, or it is over.                                           *)
Goes(u, p) ==
  /\ \/ op' = [op EXCEPT ![u].at = p]
     \/ \E b \in BOOLEAN : op' = [op EXCEPT ![u].ok = b, ![u].at = p]
  /\ UNCHANGED lock

LEMMA StepPlaces ==
  ASSUME Base, ArgInv, ShowAt, NEW u \in Users, op[u].at \notin {"none", "queued"},
         NEW p \in Places \ {"none", "queued"},
         p \in {"mode", "show"} => op[u].do = "native",
         Goes(u, p) \/ Finish(u)
  PROVE  /\ OpTypes' /\ LockInv' /\ PlaceInv' /\ ArgInv' /\ ShowAt'
         /\ Player \in wants' <=> Player \in wants
         /\ Player \notin inside'
         /\ \A v \in Users \ {u} : op'[v].at \in {"none", "queued"}
         /\ op'[u].at \in {p, "none"}
<1>0. /\ inside = {u} /\ Player \notin inside
      /\ \A v \in Users \ {u} : op[v].at \in {"none", "queued"}
  BY Alone
<1>1. CASE Goes(u, p)
  <2>1. /\ \/ op' = [op EXCEPT ![u].at = p]
           \/ \E b \in BOOLEAN : op' = [op EXCEPT ![u].ok = b, ![u].at = p]
        /\ UNCHANGED lock
    BY <1>1 DEF Goes
  <2>2. /\ \A v \in Users \ {u} : op'[v] = op[v]
        /\ op' \in [Users -> Commands]
        /\ op'[u].at = p /\ op'[u].do = op[u].do /\ op'[u].arg = op[u].arg
    <3>1. CASE op' = [op EXCEPT ![u].at = p]
      BY <3>1 DEF Base, OpTypes, Commands
    <3>2. ASSUME NEW b \in BOOLEAN, op' = [op EXCEPT ![u].ok = b, ![u].at = p]
          PROVE  /\ \A v \in Users \ {u} : op'[v] = op[v]
                 /\ op' \in [Users -> Commands]
                 /\ op'[u].at = p /\ op'[u].do = op[u].do /\ op'[u].arg = op[u].arg
      BY <3>2 DEF Base, OpTypes, Commands
    <3> QED BY <2>1, <3>1, <3>2
  <2>3. op'[u] \in Commands
    BY <2>2
  <2>4. OpTypes'
    BY <2>1, <2>2, <2>3 DEF Base, OpTypes
  <2>5. LockInv' /\ wants' = wants /\ inside' = inside
    BY <2>1 DEF Base, LockInv, lock
  <2>6. PlaceInv'
    BY <1>0, <2>2, <2>3, <2>5 DEF Base, PlaceInv, LockInv
  <2>7. ArgInv' /\ ShowAt'
    BY <2>2, <2>3 DEF ArgInv, ShowAt, Fits
  <2> QED BY <1>0, <2>2, <2>3, <2>4, <2>5, <2>6, <2>7
<1>2. CASE Finish(u)
  <2>1. op' = [op EXCEPT ![u] = Idle] /\ wants' = wants /\ inside' = {}
    BY <1>0, <1>2 DEF Finish, Lock!End
  <2>2. op'[u] = Idle /\ \A v \in Users \ {u} : op'[v] = op[v]
    BY <2>1 DEF Base, OpTypes
  <2>3. OpTypes'
    BY <2>1, IdleType DEF Base, OpTypes
  <2>4. LockInv'
    BY <2>1 DEF LockInv
  <2>5. u \notin wants
    BY <1>0 DEF Base, LockInv
  <2>6. PlaceInv'
    BY <1>0, <2>1, <2>2, <2>5, IdleType DEF Base, PlaceInv
  <2>7. ArgInv' /\ ShowAt'
    BY <2>2, IdleType DEF ArgInv, ShowAt, Fits
  <2> QED BY <1>0, <2>1, <2>2, <2>3, <2>4, <2>6, <2>7, IdleType
<1> QED BY <1>1, <1>2

Halted == {"join", "restore", "quell", "home", "stopped"}

(* The part of the invariant that does not depend on what was written.     *)
LEMMA RunKeeps ==
  ASSUME IInv, NEW u \in Users, op[u].at \notin {"none", "queued"},
         NEW p \in Places \ {"none", "queued"},
         p \in {"mode", "show"} => op[u].do = "native",
         Goes(u, p) \/ Finish(u),
         player' = player \/ (player' = "cancelled" /\ player # "none")
           \/ (player = "none" /\ player' = "asleep"),
         p \in Halted => player' \in {"none", "cancelled"},
         p \in {"home", "stopped"} => ~showing'
  PROVE  Base' /\ ArgInv' /\ ShowAt' /\ HaltInv'
<1>1. Base /\ inside = {u} /\ Player \notin inside /\ player # "frame"
  BY Alone DEF IInv
<1>2. /\ OpTypes' /\ LockInv' /\ PlaceInv' /\ ArgInv' /\ ShowAt'
      /\ Player \in wants' <=> Player \in wants
      /\ Player \notin inside'
      /\ \A v \in Users \ {u} : op'[v].at \in {"none", "queued"}
      /\ op'[u].at \in {p, "none"}
  BY StepPlaces DEF IInv
<1>3. PlayerTypes'
  BY <1>1 DEF Base, PlayerTypes
<1>4. PlayerInv'
  BY <1>1, <1>2 DEF Base, PlayerInv
<1>5. HaltInv'
  BY <1>2 DEF HaltInv, Halted
<1> QED BY <1>2, <1>3, <1>4, <1>5 DEF Base

(* What a write leaves behind.                                             *)
Results == [ok : BOOLEAN, mode : Modes, look : Shown, kmode : Modes, klook : Shown]

LEMMA WriteTypes ==
  ASSUME ValueTypes
  PROVE  /\ \A l \in Shown : ChannelWrite(l) \subseteq Results
         /\ \A m \in Modes : ModeWrite(m) \subseteq Results
         /\ SwitchWrite \subseteq Results
         /\ Untouched \in Results
<1> USE DEF ValueTypes, Results
<1>1. "manual" \in Modes
  BY DEF Modes
<1>2. \A m \in Modes, l \in Shown : Outcomes(m, l) \subseteq Results
  BY DEF Outcomes
<1>3. Untouched \in Results
  BY DEF Untouched
<1>4. ASSUME NEW l \in Shown PROVE ChannelWrite(l) \subseteq Results
  <2>1. Manual \in Modes
    BY <1>1 DEF Manual
  <2>2. Looks \cup Frames = Shown
    BY DEF Shown
  <2> QED BY <1>1, <1>3, <2>1, <2>2 DEF ChannelWrite
<1>5. ASSUME NEW m \in Modes PROVE ModeWrite(m) \subseteq Results
  BY <1>2 DEF ModeWrite
<1>6. SwitchWrite \subseteq Results
  BY <1>1, <1>2 DEF SwitchWrite
<1> QED BY <1>3, <1>4, <1>5, <1>6

LEMMA HomeTypes == ASSUME ValueTypes PROVE HomeWrites \subseteq Results
<1>1. nmode # None => ModeWrite(nmode) \subseteq Results
  BY WriteTypes DEF ValueTypes
<1> QED BY <1>1, WriteTypes DEF HomeWrites

LEMMA Written ==
  ASSUME ValueTypes, NEW r \in Results, Leaves(r),
         smode' \in {smode, None}, slook' \in {slook, None},
         kind' \in {kind, None}, nmode' \in {nmode, None}
  PROVE  ValueTypes'
BY DEF ValueTypes, Results, Leaves

LEMMA Unwritten ==
  ASSUME ValueTypes, UNCHANGED <<mode, look, known>>,
         smode' \in {smode, None}, slook' \in {slook, None},
         kind' \in {kind, None}, nmode' \in {nmode, None}
  PROVE  ValueTypes'
BY DEF ValueTypes, known

(* Nothing of a preview begins, and nothing is forgotten of one that is on.*)
LEMMA QuietKeeps ==
  ASSUME ShowInv, StoppedStaysStopped,
         FlagTypes, task' \in {task, FALSE},
         over' = over, stray' = stray, kind' = kind,
         showing' = showing \/ showing' = FALSE,
         player' \in {player, "none", "cancelled"}
  PROVE  ShowInv' /\ StoppedStaysStopped' /\ FlagTypes'
<1>1. FlagTypes'
  BY Zenon DEF FlagTypes
<1>2. ShowInv'
  BY Zenon DEF ShowInv, active
<1>3. StoppedStaysStopped'
  BY DEF StoppedStaysStopped, FlagTypes
<1> QED BY <1>1, <1>2, <1>3

LEMMA HaltStep ==
  ASSUME IInv, NEW u \in Users, Halt(u) \/ AfterHalt(u)
  PROVE  IInv'
<1>1. CASE Halt(u)
  <2>1. Goes(u, "join") /\ op[u].at = "halt" /\ "join" \in Places
    BY <1>1 DEF Halt, Goes, Places
  <2>2. \/ player' = player /\ player = "none"
        \/ player' = "cancelled" /\ player # "none"
    BY <1>1 DEF Halt
  <2>3. Base' /\ ArgInv' /\ ShowAt' /\ HaltInv'
    BY <2>1, <2>2, RunKeeps
  <2>4. ShowInv' /\ StoppedStaysStopped' /\ FlagTypes' /\ ValueTypes'
    BY <1>1, <2>2, QuietKeeps, Unwritten DEF Halt, IInv, fixture, native, saved
  <2> QED BY <2>3, <2>4 DEF IInv
<1>2. CASE AfterHalt(u)
  <2>1. Goes(u, "restore") /\ op[u].at = "join" /\ player' = player /\ "restore" \in Places
    BY <1>2 DEF AfterHalt, Goes, Places
  <2>2. player \in {"none", "cancelled"}
    BY <2>1 DEF IInv, HaltInv
  <2>3. Base' /\ ArgInv' /\ ShowAt' /\ HaltInv'
    BY <2>1, <2>2, RunKeeps
  <2>4. ShowInv' /\ StoppedStaysStopped' /\ FlagTypes' /\ ValueTypes'
    BY <1>2, QuietKeeps, Unwritten DEF AfterHalt, IInv, fixture, native, saved
  <2> QED BY <2>3, <2>4 DEF IInv
<1> QED BY <1>1, <1>2

LEMMA RestoreStep == ASSUME IInv, NEW u \in Users, Restored(u) PROVE IInv'
<1> DEFINE writes == IF ~op[u].restore \/ slook = None THEN {Untouched}
                     ELSE IF smode # None THEN ModeWrite(smode) ELSE ChannelWrite(slook)
<1>1. PICK r \in writes :
        /\ Leaves(r)
        /\ \/ op' = [op EXCEPT ![u].ok = r.ok, ![u].at = "quell"] /\ UNCHANGED lock
           \/ Finish(u)
  BY DEF Restored
<1>2. writes \subseteq Results
  <2>1. smode # None => ModeWrite(smode) \subseteq Results
    BY WriteTypes DEF IInv, ValueTypes, Modes
  <2>2. slook # None => ChannelWrite(slook) \subseteq Results
    BY WriteTypes DEF IInv, ValueTypes
  <2> QED BY <2>1, <2>2, WriteTypes DEF IInv
<1>3. r \in Results /\ r.ok \in BOOLEAN
  BY <1>1, <1>2 DEF Results
<1> HIDE DEF writes
<1>4. /\ Goes(u, "quell") \/ Finish(u)
      /\ op[u].at = "restore" /\ "quell" \in Places
      /\ player' = player /\ showing' = showing /\ task' = task
      /\ over' = over /\ stray' = stray /\ kind' = kind
      /\ smode' = None /\ slook' = None /\ nmode' = nmode
  BY <1>1, <1>3 DEF Restored, Goes, Places, native
<1>5. player \in {"none", "cancelled"}
  BY <1>4 DEF IInv, HaltInv
<1>6. Base' /\ ArgInv' /\ ShowAt' /\ HaltInv'
  BY <1>4, <1>5, RunKeeps
<1>7. ShowInv' /\ StoppedStaysStopped' /\ FlagTypes'
  BY <1>4, QuietKeeps DEF IInv
<1>8. ValueTypes'
  BY <1>1, <1>3, <1>4, Written DEF IInv
<1> QED BY <1>6, <1>7, <1>8 DEF IInv

LEMMA QuellStep == ASSUME IInv, NEW u \in Users, Quell(u) PROVE IInv'
<1>1. /\ op[u].at = "quell" /\ active
      /\ player' = player /\ task' = task /\ over' = over
      /\ UNCHANGED <<mode, look, known>> /\ smode' = smode /\ slook' = slook
  BY DEF Quell, saved
<1>2. player \in {"none", "cancelled"} /\ {"home", "stopped"} \subseteq Places
  BY <1>1 DEF IInv, HaltInv, Places
<1>3. CASE /\ showing' \in {showing, FALSE}
           /\ StopFails(u) /\ UNCHANGED <<native, stray>>
  <2>1. Base' /\ ArgInv' /\ ShowAt' /\ HaltInv'
    <3>1. "act" \in Places \ {"none", "queued"} /\ "act" \notin Halted
      BY DEF Places, Halted
    <3>2. Goes(u, "act") \/ Finish(u)
      BY <1>3 DEF StopFails, Goes
    <3> QED BY <1>1, <3>1, <3>2, RunKeeps
  <2>2. ShowInv' /\ StoppedStaysStopped' /\ FlagTypes' /\ ValueTypes'
    BY <1>1, <1>3, QuietKeeps, Unwritten DEF IInv, native
  <2> QED BY <2>1, <2>2 DEF IInv
<1>4. CASE /\ showing' = FALSE /\ stray' = FALSE
           /\ \/ op' = [op EXCEPT ![u].at = "home"] /\ UNCHANGED native
              \/ op' = [op EXCEPT ![u].at = "stopped"] /\ Forget
           /\ UNCHANGED lock
  <2>1. Goes(u, "home") \/ Goes(u, "stopped")
    BY <1>4 DEF Goes
  <2>2. Base' /\ ArgInv' /\ ShowAt' /\ HaltInv'
    BY <1>1, <1>2, <1>4, <2>1, RunKeeps
  <2>3. ValueTypes'
    BY <1>1, <1>4, Unwritten DEF IInv, native, Forget
  <2>4. ShowInv' /\ FlagTypes'
    BY <1>1, <1>4 DEF IInv, ShowInv, FlagTypes
  <2>5. StoppedStaysStopped'
    BY <1>1, <1>2, <1>4 DEF StoppedStaysStopped
  <2> QED BY <2>2, <2>3, <2>4, <2>5 DEF IInv
<1> QED BY <1>3, <1>4 DEF Quell

LEMMA HomeStep == ASSUME IInv, NEW u \in Users, Home(u) PROVE IInv'
<1>1. PICK r \in HomeWrites :
        /\ Leaves(r)
        /\ IF r.ok THEN Forget /\ op' = [op EXCEPT ![u].at = "stopped"] /\ UNCHANGED lock
                   ELSE UNCHANGED native /\ StopFails(u)
  BY DEF Home
<1>2. r \in Results
  BY HomeTypes DEF IInv
<1>3. /\ op[u].at = "home" /\ "stopped" \in Places
      /\ player' = player /\ showing' = showing /\ task' = task
      /\ over' = over /\ stray' = stray /\ smode' = smode /\ slook' = slook
  BY DEF Home, Places, saved
<1>4. Goes(u, "stopped") \/ Goes(u, "act") \/ Finish(u)
  BY <1>1 DEF Goes, StopFails
<1>5. player \in {"none", "cancelled"} /\ ~showing
  BY <1>3 DEF IInv, HaltInv
<1>6. Base' /\ ArgInv' /\ ShowAt' /\ HaltInv'
  <2>1. "act" \in Places \ {"none", "queued"} /\ "act" \notin Halted
    BY DEF Places, Halted
  <2> QED BY <1>3, <1>4, <1>5, <2>1, RunKeeps
<1>7. ValueTypes'
  <2>1. kind' \in {kind, None} /\ nmode' \in {nmode, None}
    BY <1>1 DEF Forget, native
  <2> QED BY <1>1, <1>2, <1>3, <2>1, Written DEF IInv
<1>8. FlagTypes' /\ StoppedStaysStopped'
  BY <1>3, <1>5 DEF IInv, FlagTypes, StoppedStaysStopped
<1>9. ShowInv'
  BY <1>3, <1>5 DEF ShowInv
<1> QED BY <1>6, <1>7, <1>8, <1>9 DEF IInv

(* The step that declares a preview stopped: its task is gone and nothing  *)
(* is shown, or what is shown is a stray.                                  *)
LEMMA StoppedStep == ASSUME IInv, NEW u \in Users, Stopped(u) PROVE IInv'
<1>1. /\ op[u].at = "stopped" \/ (op[u].at = "quell" /\ ~active)
      /\ over' = (over \/ op[u].ok)
      /\ UNCHANGED <<mode, look, known>> /\ player' = player /\ showing' = showing
      /\ task' = task /\ stray' = stray /\ kind' = kind /\ nmode' = nmode
      /\ smode' = smode /\ slook' = slook
  BY DEF Stopped, fixture, saved, native, known
<1>2. Goes(u, "act") \/ Finish(u)
  BY DEF Stopped, Goes
<1>3. player \in {"none", "cancelled"} /\ (showing => stray)
  BY <1>1 DEF IInv, HaltInv, ShowInv
<1>4. Base' /\ ArgInv' /\ ShowAt' /\ HaltInv'
  <2>1. "act" \in Places \ {"none", "queued"} /\ op[u].at \notin {"none", "queued"} /\ "act" \notin Halted
    BY <1>1 DEF Places, Halted
  <2> QED BY <1>1, <1>2, <2>1, RunKeeps
<1>5. ValueTypes'
  BY <1>1, Unwritten DEF IInv
<1>6. FlagTypes'
  <2>1. over' \in BOOLEAN
    BY <1>1
  <2> QED BY <1>1, <2>1 DEF IInv, FlagTypes
<1>7. ShowInv'
  BY <1>1 DEF IInv, ShowInv, active
<1>8. StoppedStaysStopped'
  BY <1>1, <1>3 DEF StoppedStaysStopped
<1> QED BY <1>4, <1>5, <1>6, <1>7, <1>8 DEF IInv

LEMMA ActPlace ==
  {"act", "mode", "show"} \subseteq Places \ {"none", "queued"}
    /\ {"act", "mode", "show"} \cap Halted = {}
BY DEF Places, Halted

LEMMA PlayStep == ASSUME IInv, NEW u \in Users, Play(u) PROVE IInv'
<1>1. /\ op[u].at = "act" /\ Finish(u) /\ player = "none" /\ player' = "asleep"
      /\ over' = FALSE /\ task' = TRUE /\ showing' = showing /\ stray' = stray
      /\ UNCHANGED <<mode, look, known>> /\ kind' = kind /\ nmode' = nmode
  BY DEF Play, fixture, native
<1>2. Base' /\ ArgInv' /\ ShowAt' /\ HaltInv'
  BY <1>1, ActPlace, RunKeeps
<1>3. ValueTypes'
  <2>1. smode' \in Scheduled \cup {None} /\ slook' = klook
    BY DEF Play
  <2> QED BY <1>1, <2>1 DEF IInv, ValueTypes, known
<1>4. FlagTypes' /\ StoppedStaysStopped'
  BY <1>1 DEF IInv, FlagTypes, StoppedStaysStopped
<1>5. ShowInv'
  BY <1>1, Zenon DEF IInv, ShowInv, active
<1> QED BY <1>2, <1>3, <1>4, <1>5 DEF IInv

LEMMA NativeModeStep == ASSUME IInv, NEW u \in Users, NativeMode(u) PROVE IInv'
<1>1. /\ op[u].do = "native" /\ op[u].at = "act" /\ Goes(u, "mode")
      /\ UNCHANGED <<mode, look, known>> /\ player' = player /\ showing' = showing
      /\ task' = task /\ stray' = stray /\ over' = over /\ kind' = kind
      /\ smode' = smode /\ slook' = slook
  BY DEF NativeMode, Goes, fixture, saved, known
<1>2. Base' /\ ArgInv' /\ ShowAt' /\ HaltInv'
  BY <1>1, ActPlace, RunKeeps
<1>3. ValueTypes'
  <2>1. nmode' = nmode \/ nmode' = kmode
    BY DEF NativeMode
  <2> QED BY <1>1, <2>1 DEF IInv, ValueTypes, known
<1>4. ShowInv' /\ StoppedStaysStopped' /\ FlagTypes'
  BY <1>1, QuietKeeps DEF IInv
<1> QED BY <1>2, <1>3, <1>4 DEF IInv

LEMMA NativeSwitchStep == ASSUME IInv, NEW u \in Users, NativeSwitch(u) PROVE IInv'
<1>0. op[u].at = "mode" /\ op[u].do = "native" /\ op[u].arg \in Scheduled
  BY DEF NativeSwitch, IInv, ShowAt, ArgInv, Fits
<1> DEFINE writes == IF Switches /\ (kmode # op[u].arg \/ kind \notin {None, op[u].arg})
                     THEN ModeWrite(op[u].arg) ELSE {Untouched}
<1>1. PICK r \in writes :
        /\ Leaves(r)
        /\ IF r.ok THEN op' = [op EXCEPT ![u].at = "show"] /\ UNCHANGED <<nmode, lock>>
                   ELSE Finish(u) /\ nmode' = IF active THEN nmode ELSE None
  BY DEF NativeSwitch
<1>2. r \in Results
  BY <1>0, <1>1, WriteTypes DEF IInv, Modes
<1> HIDE DEF writes
<1>3. /\ player' = player /\ showing' = showing /\ task' = task /\ kind' = kind
      /\ over' = over /\ stray' = stray /\ smode' = smode /\ slook' = slook
  BY DEF NativeSwitch, saved
<1>4. (Goes(u, "show") \/ Finish(u)) /\ nmode' \in {nmode, None}
  BY <1>1 DEF Goes
<1>5. Base' /\ ArgInv' /\ ShowAt' /\ HaltInv'
  BY <1>0, <1>3, <1>4, ActPlace, RunKeeps
<1>6. ValueTypes'
  BY <1>1, <1>2, <1>3, <1>4, Written DEF IInv
<1>7. ShowInv' /\ StoppedStaysStopped' /\ FlagTypes'
  BY <1>3, QuietKeeps DEF IInv
<1> QED BY <1>5, <1>6, <1>7 DEF IInv

(* The packet of a native preview shows what the Device then knows of, or  *)
(* leaves a stray behind.                                                  *)
LEMMA NativeShowStep == ASSUME IInv, NEW u \in Users, NativeShow(u) PROVE IInv'
<1>0. /\ op[u].at = "show" /\ op[u].arg \in Scheduled /\ Finish(u) /\ over' = FALSE
      /\ player' = player /\ task' = task /\ smode' = smode /\ slook' = slook
  BY DEF NativeShow, IInv, ShowAt, ArgInv, Fits, saved
<1>1. Base' /\ ArgInv' /\ ShowAt' /\ HaltInv'
  BY <1>0, ActPlace, RunKeeps
<1>2. StoppedStaysStopped'
  BY <1>0 DEF StoppedStaysStopped
<1>3. CASE /\ showing' = TRUE /\ kind' = op[u].arg
           /\ UNCHANGED <<nmode, stray, mode, look, known>>
  <2>1. ValueTypes'
    BY <1>0, <1>3 DEF IInv, ValueTypes, known
  <2>2. FlagTypes'
    BY <1>0, <1>3 DEF IInv, FlagTypes
  <2>3. kind' # None
    BY <1>0, <1>3 DEF Modes
  <2>4. ShowInv'
    BY <2>3 DEF ShowInv, active
  <2> QED BY <1>1, <1>2, <2>1, <2>2, <2>4 DEF IInv
<1>4. CASE /\ showing' \in {showing, TRUE} /\ stray' = (stray \/ ~active)
           /\ IF active THEN UNCHANGED <<mode, look, known, native>>
              ELSE \E r \in HomeWrites :
                     Leaves(r) /\ IF r.ok THEN Forget ELSE UNCHANGED native
  <2>1. FlagTypes'
    BY <1>0, <1>4 DEF IInv, FlagTypes
  <2>2. CASE active
    <3>1. ValueTypes'
      BY <1>0, <1>4, <2>2, Unwritten DEF IInv, native
    <3>2. kind' = kind
      BY <1>4, <2>2 DEF native
    <3>3. ShowInv'
      BY <3>2, <2>2 DEF ShowInv, active
    <3> QED BY <1>1, <1>2, <2>1, <3>1, <3>3 DEF IInv
  <2>3. CASE ~active
    <3>1. PICK r \in HomeWrites : Leaves(r) /\ IF r.ok THEN Forget ELSE UNCHANGED native
      BY <1>4, <2>3
    <3>2. r \in Results
      BY HomeTypes DEF IInv
    <3>3. kind' \in {kind, None} /\ nmode' \in {nmode, None}
      BY <3>1 DEF Forget, native
    <3>4. ValueTypes'
      BY <1>0, <3>1, <3>2, <3>3, Written DEF IInv
    <3>5. ShowInv'
      BY <1>4, <2>3 DEF ShowInv
    <3> QED BY <1>1, <1>2, <2>1, <3>4, <3>5 DEF IInv
  <2> QED BY <2>2, <2>3
<1> QED BY <1>3, <1>4 DEF NativeShow

LEMMA WriteStep == ASSUME IInv, NEW u \in Users, Write(u) PROVE IInv'
<1>0. /\ op[u].at = "act" /\ Finish(u) /\ op[u].do # "native"
      /\ player' = player /\ showing' = showing /\ task' = task /\ kind' = kind
      /\ over' = over /\ stray' = stray /\ smode' = smode /\ slook' = slook /\ nmode' = nmode
  BY DEF Write, saved, native
<1>1. PICK r \in WritesOf(op[u]) : Leaves(r)
  BY DEF Write
<1>2. r \in Results
  <2>1. op[u].do \in {"on", "off"} \/ op[u].arg \in Looks \cup Scheduled
    BY DEF Write, IInv, Base, OpTypes, Commands, Doings, ArgInv, Fits
  <2>2. CASE op[u].do \in {"on", "off"}
    <3>1. \A l \in Looks : ChannelWrite(l) \subseteq Results
      BY WriteTypes DEF IInv, Shown
    <3>2. UNION {ChannelWrite(l) : l \in Looks} \subseteq Results
      BY <3>1, Zenon
    <3> QED BY <1>1, <2>2, <3>2, WriteTypes DEF IInv, WritesOf
  <2>3. CASE op[u].do \notin {"on", "off"}
    BY <1>1, <2>1, <2>3, WriteTypes DEF IInv, Shown, Modes, WritesOf
  <2> QED BY <2>2, <2>3
<1>3. Base' /\ ArgInv' /\ ShowAt' /\ HaltInv'
  BY <1>0, ActPlace, RunKeeps
<1>4. ShowInv' /\ StoppedStaysStopped' /\ FlagTypes'
  BY <1>0, QuietKeeps DEF IInv
<1>5. ValueTypes'
  BY <1>0, <1>1, <1>2, Written DEF IInv
<1> QED BY <1>3, <1>4, <1>5 DEF IInv

-----------------------------------------------------------------------------
LEMMA AskStep == ASSUME IInv, NEW u \in Users, NEW c \in Calls, Ask(u, c) PROVE IInv'
<1>1. /\ op[u] = Idle /\ op' = [op EXCEPT ![u] = [c EXCEPT !.at = "queued"]]
      /\ u \notin wants \cup inside /\ wants' = wants \cup {u} /\ inside' = inside
      /\ UNCHANGED <<fixture, known, player, task, saved, native, over, stray>>
  BY DEF Ask, Lock!Want
<1> DEFINE d == [c EXCEPT !.at = "queued"]
<1>2. d \in Commands /\ d.at = "queued" /\ d.do # "idle" /\ Fits(d)
  BY CallTypes DEF Commands, Places, Fits
<1>3. op'[u] = d /\ \A v \in Users \ {u} : op'[v] = op[v]
  BY <1>1 DEF IInv, Base, OpTypes
<1> HIDE DEF d
<1>4. OpTypes' /\ ArgInv' /\ ShowAt'
  BY <1>1, <1>2, <1>3 DEF IInv, Base, OpTypes, ArgInv, ShowAt, d
<1>5. LockInv'
  BY <1>1 DEF IInv, Base, LockInv
<1>6. PlaceInv' /\ PlayerInv' /\ PlayerTypes'
  BY <1>1, <1>2, <1>3 DEF IInv, Base, PlaceInv, PlayerInv, PlayerTypes
<1>7. HaltInv'
  BY <1>1, <1>2, <1>3 DEF IInv, HaltInv, fixture
<1>8. ValueTypes'
  BY <1>1, Unwritten DEF IInv, fixture, saved, native
<1>9. ShowInv' /\ StoppedStaysStopped' /\ FlagTypes'
  BY <1>1, QuietKeeps DEF IInv, fixture, native
<1> QED BY <1>4, <1>5, <1>6, <1>7, <1>8, <1>9 DEF IInv, Base

LEMMA BeginsStep == ASSUME IInv, NEW u \in Users, Begins(u) PROVE IInv'
<1>1. /\ op[u].at = "queued" /\ inside = {} /\ wants' = wants \ {u} /\ inside' = {u}
      /\ op' = [op EXCEPT ![u].at = IF StopsFirst(u) THEN "halt" ELSE "act"]
      /\ UNCHANGED <<fixture, known, player, task, saved, native, over, stray>>
  BY DEF Begins, Lock!Begin, Lock!MayBegin
<1>2. /\ op'[u].at \in {"halt", "act"} /\ op'[u].do = op[u].do /\ op'[u].arg = op[u].arg
      /\ op' \in [Users -> Commands]
      /\ \A v \in Users \ {u} : op'[v] = op[v]
  BY <1>1 DEF IInv, Base, OpTypes, Commands, Places
<1>3. OpTypes' /\ ArgInv' /\ ShowAt'
  BY <1>1, <1>2 DEF IInv, Base, OpTypes, ArgInv, ShowAt, Fits
<1>4. LockInv'
  BY <1>1 DEF IInv, Base, LockInv
<1>5. PlaceInv' /\ PlayerInv' /\ PlayerTypes'
  BY <1>1, <1>2 DEF IInv, Base, PlaceInv, PlayerInv, PlayerTypes
<1>6. HaltInv'
  BY <1>1, <1>2 DEF IInv, HaltInv, fixture
<1>7. ValueTypes'
  BY <1>1, Unwritten DEF IInv, fixture, saved, native
<1>8. ShowInv' /\ StoppedStaysStopped' /\ FlagTypes'
  BY <1>1, QuietKeeps DEF IInv, fixture, native
<1> QED BY <1>3, <1>4, <1>5, <1>6, <1>7, <1>8 DEF IInv, Base

(* The task of the editor's preview: it goes on only if no stop succeeded. *)
LEMMA PlayerMoves == ASSUME IInv, PlayerStep PROVE IInv'
<1>1. /\ op' = op /\ task' = task /\ over' = over /\ stray' = stray /\ showing' = showing
      /\ kind' = kind /\ nmode' = nmode /\ smode' = smode /\ slook' = slook
  BY DEF PlayerStep, PlayerAsks, PlayerBegins, PlayerSends, PlayerEnds, fixture, saved, native
<1>2. /\ ArgInv' /\ ShowAt' /\ FlagTypes' /\ ShowInv' /\ OpTypes'
  BY <1>1 DEF IInv, ArgInv, ShowAt, FlagTypes, ShowInv, active, Base, OpTypes
<1>3. CASE PlayerAsks
  <2>1. /\ player = "asleep" /\ player' = "queued"
        /\ Player \notin wants \cup inside /\ wants' = wants \cup {Player} /\ inside' = inside
        /\ UNCHANGED <<mode, look, known>>
    BY <1>3 DEF PlayerAsks, Lock!Want, fixture
  <2>2. LockInv' /\ PlaceInv' /\ PlayerInv' /\ PlayerTypes'
    BY <1>1, <2>1 DEF IInv, Base, LockInv, PlaceInv, PlayerInv, PlayerTypes
  <2>3. HaltInv' /\ StoppedStaysStopped'
    BY <1>1, <2>1 DEF IInv, HaltInv, StoppedStaysStopped
  <2> QED BY <1>1, <1>2, <2>1, <2>2, <2>3, Unwritten DEF IInv, Base
<1>4. CASE PlayerBegins
  <2>1. /\ player = "queued" /\ player' = "frame"
        /\ inside = {} /\ wants' = wants \ {Player} /\ inside' = {Player}
        /\ UNCHANGED <<mode, look, known>>
    BY <1>4 DEF PlayerBegins, Lock!Begin, Lock!MayBegin, fixture
  <2>2. LockInv' /\ PlaceInv' /\ PlayerInv' /\ PlayerTypes'
    BY <1>1, <2>1 DEF IInv, Base, LockInv, PlaceInv, PlayerInv, PlayerTypes
  <2>3. HaltInv' /\ StoppedStaysStopped'
    BY <1>1, <2>1 DEF IInv, HaltInv, StoppedStaysStopped
  <2> QED BY <1>1, <1>2, <2>1, <2>2, <2>3, Unwritten DEF IInv, Base
<1>5. CASE PlayerSends
  <2>1. /\ player = "frame" /\ player' \in {"asleep", "none"}
        /\ Player \in inside /\ wants' = wants /\ inside' = inside \ {Player}
    BY <1>5 DEF PlayerSends, Lock!End
  <2>2. PICK l \in Frames : \E r \in ChannelWrite(l) : Leaves(r)
    BY <1>5 DEF PlayerSends
  <2>3. PICK r \in Results : Leaves(r)
    BY <2>2, WriteTypes DEF IInv, Shown
  <2>4. ValueTypes'
    BY <1>1, <2>3, Written DEF IInv
  <2>5. inside = {Player}
    BY <2>1 DEF IInv, Base, LockInv
  <2>6. LockInv' /\ PlaceInv' /\ PlayerInv' /\ PlayerTypes'
    BY <1>1, <2>1, <2>5 DEF IInv, Base, LockInv, PlaceInv, PlayerInv, PlayerTypes
  <2>7. HaltInv' /\ StoppedStaysStopped'
    BY <1>1, <2>1 DEF IInv, HaltInv, StoppedStaysStopped
  <2> QED BY <1>2, <2>4, <2>6, <2>7 DEF IInv, Base
<1>6. CASE PlayerEnds
  <2>1. /\ player = "cancelled" /\ player' = "none"
        /\ wants' = wants \ {Player} /\ inside' = inside
        /\ UNCHANGED <<mode, look, known>>
    BY <1>6 DEF PlayerEnds, Lock!GiveUp, fixture, lock
  <2>2. LockInv' /\ PlaceInv' /\ PlayerInv' /\ PlayerTypes'
    BY <1>1, <2>1 DEF IInv, Base, LockInv, PlaceInv, PlayerInv, PlayerTypes
  <2>3. HaltInv' /\ StoppedStaysStopped'
    BY <1>1, <2>1 DEF IInv, HaltInv, StoppedStaysStopped
  <2> QED BY <1>1, <1>2, <2>1, <2>2, <2>3, Unwritten DEF IInv, Base
<1> QED BY <1>3, <1>4, <1>5, <1>6 DEF PlayerStep

LEMMA OtherStep == ASSUME IInv, Drift \/ UNCHANGED vars PROVE IInv'
<1>1. /\ UNCHANGED <<showing, player, task, op, over, stray>>
      /\ kind' = kind /\ nmode' = nmode /\ smode' = smode /\ slook' = slook
      /\ wants' = wants /\ inside' = inside
  BY DEF Drift, vars, fixture, saved, native, lock
<1>2. Base' /\ ArgInv' /\ ShowAt' /\ HaltInv' /\ FlagTypes' /\ ShowInv' /\ StoppedStaysStopped'
  BY <1>1 DEF IInv, Base, OpTypes, LockInv, PlaceInv, PlayerInv, PlayerTypes, ArgInv, ShowAt,
              HaltInv, FlagTypes, ShowInv, active, StoppedStaysStopped
<1>3. mode' \in Modes /\ look' \in Shown /\ kmode' \in Modes /\ klook' \in Shown
  BY DEF Drift, vars, fixture, known, IInv, ValueTypes, Shown
<1>4. ValueTypes'
  BY <1>1, <1>3 DEF IInv, ValueTypes
<1> QED BY <1>2, <1>4 DEF IInv

LEMMA InitHolds == Init => IInv
<1> SUFFICES ASSUME Init PROVE IInv
  OBVIOUS
<1>1. OpTypes /\ PlayerTypes /\ ArgInv /\ ShowAt
  BY IdleType DEF Init, OpTypes, PlayerTypes, ArgInv, ShowAt
<1>2. LockInv /\ PlaceInv /\ PlayerInv /\ HaltInv
  BY IdleType DEF Init, LockInv, PlaceInv, PlayerInv, HaltInv, Lock!AInit
<1>3. ValueTypes /\ FlagTypes /\ ShowInv /\ StoppedStaysStopped
  BY DEF Init, ValueTypes, FlagTypes, ShowInv, StoppedStaysStopped, Shown
<1> QED BY <1>1, <1>2, <1>3 DEF IInv, Base

LEMMA Inductive == IInv /\ [Next]_vars => IInv'
<1> SUFFICES ASSUME IInv, [Next]_vars PROVE IInv'
  OBVIOUS
<1>1. ASSUME NEW u \in Users, UserStep(u) \/ DeadlineSwallowed(u) PROVE IInv'
  BY <1>1, BeginsStep, HaltStep, RestoreStep, QuellStep, HomeStep, StoppedStep, PlayStep,
     NativeModeStep, NativeSwitchStep, NativeShowStep, WriteStep
     DEF UserStep, DeadlineSwallowed, Joined
<1> QED BY <1>1, AskStep, PlayerMoves, OtherStep DEF Next

(* The inductive invariant behind the two theorems that follow: the places *)
(* of commands, lock and the preview's task (core/device.py 2199-2401).    *)
THEOREM PreviewInvariance == Spec => []IInv
BY InitHolds, Inductive, PTL DEF Spec

(* The variables of Preview keep their types for any users, looks and      *)
(* kinds of fixture.                                                       *)
THEOREM TypeCorrect == Spec => []TypeOK
<1>1. IInv => TypeOK
  <2> SUFFICES ASSUME IInv PROVE TypeOK
    OBVIOUS
  <2>1. \A u \in Users : op[u].at # "none" <=> u \in wants \cup inside
    BY DEF IInv, Base, PlaceInv
  <2> QED BY <2>1 DEF TypeOK, IInv, Base, OpTypes, Commands, PlayerTypes, ValueTypes, FlagTypes, Shown
<1> QED BY <1>1, PreviewInvariance, PTL

(* "Using the normal light or Mode controls stops an active preview"       *)
(* (README.md): once a stop has succeeded no frame of the editor's preview *)
(* is sent, and no native preview is shown but a stray one, until the next *)
(* preview begins (async_stop_preview).                                    *)
THEOREM StopIsLasting == Spec => []StoppedStaysStopped
<1>1. IInv => StoppedStaysStopped
  BY DEF IInv
<1> QED BY <1>1, PreviewInvariance, PTL

-----------------------------------------------------------------------------
(* While before is not forgotten, the Device knows the fixture as it is,   *)
(* and the state before the first preview is with one of three: with what  *)
(* the editor's preview has saved; with the mode a native preview has      *)
(* saved, the levels untouched; or with the fixture itself.                *)
Known == before # None =>
  /\ before \in [mode : Modes, look : Shown]
  /\ kmode = mode /\ klook = look

EditorHas(b) ==
  /\ slook = b.look
  /\ smode = IF b.mode \in Scheduled THEN b.mode ELSE None
  /\ b.mode = "manual" => mode = "manual"

NativeHas(b) ==
  /\ nmode = b.mode /\ look = b.look
  /\ ~Switches => mode = b.mode

FixtureHas(b) == mode = b.mode /\ (b.mode = "manual" => look = b.look)

(* What holds while the command c runs: only one kind of preview is on,    *)
(* and before a stop has succeeded it has the state to come back to, but   *)
(* for the moments in which c passes it on.                                *)
Cleared == {"quell", "home", "stopped", "mode", "show"}
Passing == {"quell", "stopped", "mode", "show"}
Turn(c) ==
  /\ active => ~over /\ slook = None
  /\ player \in {"asleep", "queued", "frame"} => slook # None
  /\ c.at \in Cleared \/ (c.do = "native" /\ c.at = "act") => slook = None
  /\ c.at = "stopped" \/ (c.do = "play" /\ c.at = "act") => ~active
  /\ c.at = "home" => active
  /\ c.at \in {"quell", "home", "stopped"} /\ ~c.ok => before = None
  /\ before # None =>
       /\ ~over /\ slook # None => EditorHas(before)
       /\ active => NativeHas(before)
       /\ ~over /\ slook = None /\ ~active => c.at \in Passing
       /\ c.at \in {"mode", "show"} => NativeHas(before)
       /\ c.at \in {"quell", "stopped"} /\ c.restore /\ ~active /\ ~over => FixtureHas(before)

TurnInv ==
  /\ \A u \in Users : u \in inside => Turn(op[u])
  /\ inside \cap Users = {} => Turn(Idle)

RInv == IInv /\ Known /\ TurnInv

LEMMA AtRun ==
  ASSUME RInv, NEW u \in Users, op[u].at \notin {"none", "queued"}
  PROVE  /\ inside = {u} /\ Turn(op[u]) /\ op[u] \in Commands
BY Alone DEF RInv, IInv, TurnInv, Base, OpTypes

(* The step of a command: it goes on as another, or it is over.            *)
LEMMA GoesOn ==
  ASSUME RInv, IInv', NEW u \in Users, op[u].at \notin {"none", "queued"}, NEW c,
         op'[u] = c, \A v \in Users \ {u} : op'[v] = op[v],
         c.do = op[u].do, c.restore = op[u].restore, UNCHANGED lock,
         Known', Turn(c)'
  PROVE  RInv'
<1>1. inside' = {u}
  BY AtRun DEF lock
<1>2. \A v \in Users : v \in inside' => op'[v] = c
  BY <1>1
<1>3. TurnInv'
  BY <1>1, <1>2 DEF TurnInv
<1> QED BY <1>3 DEF RInv

LEMMA Finishes ==
  ASSUME RInv, IInv', NEW u \in Users, op[u].at \notin {"none", "queued"},
         Finish(u), Known', Turn(Idle)'
  PROVE  RInv'
<1>1. inside' = {} /\ op' = [op EXCEPT ![u] = Idle]
  BY AtRun DEF Finish, Lock!End
<1>2. TurnInv'
  BY <1>1 DEF TurnInv
<1> QED BY <1>2 DEF RInv

(* What EXCEPT makes of the command that runs.                             *)
LEMMA Becomes ==
  ASSUME IInv, NEW u \in Users, NEW p
  PROVE  op' = [op EXCEPT ![u].at = p]
           => /\ op'[u].at = p /\ op'[u].do = op[u].do /\ op'[u].restore = op[u].restore
              /\ op'[u].ok = op[u].ok
              /\ \A v \in Users \ {u} : op'[v] = op[v]
BY DEF IInv, Base, OpTypes, Commands

(* The values a preview lives by stay, and its task does not come back.    *)
Kept == UNCHANGED <<kind, over, slook, smode, nmode, mode, look, before>>

LEMMA KeptTurn ==
  ASSUME NEW c, Turn(c), Kept,
         player' \in {"asleep", "queued", "frame"} => player \in {"asleep", "queued", "frame"}
  PROVE  Turn(c)'
BY DEF Turn, Kept, active, EditorHas, NativeHas, FixtureHas

LEMMA KeptKnown ==
  ASSUME Known, UNCHANGED <<mode, look, known, before>>
  PROVE  Known'
BY DEF Known, known

LEMMA HaltTurn ==
  ASSUME RInv, IInv', NEW u \in Users, Halt(u) \/ AfterHalt(u)
  PROVE  RInv'
<1>1. /\ op[u].at \in {"halt", "join"} /\ Kept /\ UNCHANGED lock /\ UNCHANGED known
      /\ player' = "none" => player = "none"
      /\ player' \in {player, "cancelled"}
  BY DEF Halt, AfterHalt, Kept, fixture, saved, native
<1>2. PICK c : c = op'[u]
  OBVIOUS
<1>3. \E p \in {"join", "restore"} : op' = [op EXCEPT ![u].at = p]
  BY DEF Halt, AfterHalt
<1>4. /\ c.at \in {"join", "restore"} /\ c.do = op[u].do /\ c.restore = op[u].restore
      /\ \A v \in Users \ {u} : op'[v] = op[v]
  BY <1>2, <1>3, Becomes DEF RInv
<1>5. Turn(op[u])
  BY <1>1, AtRun
<1>6. Turn(c)
  BY <1>1, <1>4, <1>5 DEF Turn, Cleared, Passing
<1>7. Turn(c)'
  BY <1>1, <1>6, KeptTurn
<1>8. Known'
  BY <1>1, KeptKnown DEF RInv, Kept
<1> QED BY <1>1, <1>2, <1>4, <1>7, <1>8, GoesOn

(* A write that succeeded and has left the Device knowing the fixture.     *)
LEMMA WrittenKnown ==
  ASSUME Known, before' = before \/ before' = None, before' # None => ~Astray
  PROVE  Known'
BY DEF Known, Astray

LEMMA RestoreTurn == ASSUME RInv, IInv', NEW u \in Users, Restored(u) PROVE RInv'
<1> DEFINE writes == IF ~op[u].restore \/ slook = None THEN {Untouched}
                     ELSE IF smode # None THEN ModeWrite(smode) ELSE ChannelWrite(slook)
<1>1. PICK r \in writes :
        /\ Leaves(r)
        /\ \/ op' = [op EXCEPT ![u].ok = r.ok, ![u].at = "quell"] /\ UNCHANGED lock
           \/ ~r.ok /\ Finish(u)
        /\ before' = IF Astray \/ ~r.ok THEN None ELSE before
  BY DEF Restored
<1>2. /\ op[u].at = "restore" /\ smode' = None /\ slook' = None
      /\ UNCHANGED <<showing, player, task, kind, nmode, over, stray>>
  BY DEF Restored, native
<1>3. Turn(op[u]) /\ Known /\ ValueTypes /\ player \in {"none", "cancelled"}
  BY <1>2, AtRun DEF RInv, IInv, HaltInv
<1>4. PICK c : c = op'[u]
  OBVIOUS
<1>5. ASSUME op' = [op EXCEPT ![u].ok = r.ok, ![u].at = "quell"]
      PROVE  /\ c.at = "quell" /\ c.do = op[u].do /\ c.restore = op[u].restore /\ c.ok = r.ok
             /\ \A v \in Users \ {u} : op'[v] = op[v]
  <2>1. op \in [Users -> Commands]
    BY DEF RInv, IInv, Base, OpTypes
  <2> HIDE DEF writes
  <2> QED BY <1>4, <1>5, <2>1 DEF Commands
<1>6. before' # None => before' = before /\ r.ok /\ ~Astray
  BY <1>1
<1>7. Known'
  BY <1>3, <1>6, WrittenKnown
<1>8. active' <=> active
  BY <1>2 DEF active
<1>9. ASSUME before' # None, active PROVE NativeHas(before)'
  <2>1. slook = None /\ NativeHas(before)
    BY <1>3, <1>6, <1>9 DEF Turn
  <2>2. mode' = mode /\ look' = look
    BY <1>1, <2>1 DEF Leaves, Untouched
  <2> QED BY <1>2, <1>6, <1>9, <2>1, <2>2 DEF NativeHas
<1>10. ASSUME before' # None, ~active, ~over, op[u].restore PROVE FixtureHas(before)'
  <2>1. slook # None /\ EditorHas(before) /\ before.mode \in Modes
    BY <1>2, <1>3, <1>6, <1>10 DEF Turn, Passing, Known
  <2>2. CASE smode # None
    <3>1. before.mode = smode /\ smode # "manual"
      BY <1>3, <2>1, <2>2 DEF EditorHas, ValueTypes, Scheduled
    <3>2. r \in ModeWrite(smode) /\ r.ok
      BY <1>1, <1>6, <1>10, <2>1, <2>2
    <3>3. mode' = smode
      BY <1>1, <3>2 DEF ModeWrite, Leaves
    <3> QED BY <1>6, <1>10, <3>1, <3>3 DEF FixtureHas
  <2>3. CASE smode = None
    <3>1. before.mode = "manual" /\ mode = "manual" /\ slook = before.look
      BY <2>1, <2>3 DEF EditorHas, Modes
    <3>2. r \in ChannelWrite(slook) /\ r.ok
      BY <1>1, <1>6, <1>10, <2>1, <2>3
    <3>3. klook = look
      BY <1>3, <1>6, <1>10 DEF Known
    <3>4. mode' = "manual" /\ look' = slook
      BY <1>1, <3>1, <3>2, <3>3 DEF ChannelWrite, Manual, Untouched, Leaves
    <3> QED BY <1>6, <1>10, <3>1, <3>4 DEF FixtureHas
  <2> QED BY <2>2, <2>3
<1>11. active => ~over
  BY <1>3 DEF Turn
<1> HIDE DEF writes
<1>12. CASE op' = [op EXCEPT ![u].ok = r.ok, ![u].at = "quell"] /\ UNCHANGED lock
  <2>1. Turn(c)'
    BY <1>2, <1>3, <1>5, <1>6, <1>8, <1>9, <1>10, <1>11, <1>12 DEF Turn, Passing
  <2> QED BY <1>2, <1>4, <1>5, <1>7, <1>12, <2>1, GoesOn
<1>13. CASE ~r.ok /\ Finish(u)
  <2>1. before' = None
    BY <1>1, <1>13
  <2>2. Turn(Idle)'
    BY <1>2, <1>3, <1>8, <1>11, <2>1 DEF Turn, Idle, Cleared
  <2> QED BY <1>2, <1>7, <1>13, <2>2, Finishes
<1> QED BY <1>1, <1>12, <1>13

(* A stop that fails leaves a command that is over, or one to switch off.  *)
LEMMA FailsTurn ==
  ASSUME RInv, IInv', NEW u \in Users, op[u].at \notin {"none", "queued"}, StopFails(u), Known',
         \A c : c.at \in {"none", "act"} /\ c.do \notin {"play", "native"} => Turn(c)'
  PROVE  RInv'
<1>1. CASE Finish(u)
  <2>1. Turn(Idle)'
    BY DEF Idle
  <2> QED BY <1>1, <2>1, Finishes
<1>2. CASE op[u].do = "off" /\ op' = [op EXCEPT ![u].at = "act"] /\ UNCHANGED lock
  <2>1. PICK c : c = op'[u]
    OBVIOUS
  <2>2. /\ c.at = "act" /\ c.do = op[u].do /\ c.restore = op[u].restore
        /\ \A v \in Users \ {u} : op'[v] = op[v]
    BY <1>2, <2>1, Becomes DEF RInv
  <2>3. Turn(c)'
    BY <1>2, <2>2
  <2> QED BY <1>2, <2>1, <2>2, <2>3, GoesOn
<1> QED BY <1>1, <1>2 DEF StopFails

LEMMA QuellTurn == ASSUME RInv, IInv', NEW u \in Users, Quell(u) PROVE RInv'
<1>1. /\ op[u].at = "quell" /\ active /\ UNCHANGED <<mode, look, known, player, over>>
      /\ UNCHANGED <<smode, slook>>
  BY DEF Quell, saved
<1>2. Turn(op[u]) /\ Known /\ player \in {"none", "cancelled"}
  BY <1>1, AtRun DEF RInv, IInv, HaltInv
<1>3. active => ~over /\ slook = None
  BY <1>2 DEF Turn
<1>4. CASE StopFails(u) /\ before' = None /\ UNCHANGED native
  <2>1. Known'
    BY <1>4 DEF Known
  <2>2. ASSUME NEW c, c.at \in {"none", "act"}, c.do \notin {"play", "native"} PROVE Turn(c)'
    BY <1>1, <1>2, <1>3, <1>4, <2>2 DEF Turn, Cleared, active, native
  <2> QED BY <1>1, <1>4, <2>1, <2>2, FailsTurn
<1>5. CASE /\ UNCHANGED <<lock, before>>
           /\ IF op[u].restore
                THEN op' = [op EXCEPT ![u].at = "home"] /\ UNCHANGED native
                ELSE op' = [op EXCEPT ![u].at = "stopped"] /\ Forget
  <2>1. Known'
    BY <1>1, <1>2, <1>5, KeptKnown
  <2>2. PICK c : c = op'[u]
    OBVIOUS
  <2>3. /\ c.do = op[u].do /\ c.restore = op[u].restore /\ c.ok = op[u].ok
        /\ \A v \in Users \ {u} : op'[v] = op[v]
        /\ \/ op[u].restore /\ c.at = "home" /\ UNCHANGED native
           \/ ~op[u].restore /\ c.at = "stopped" /\ Forget
    BY <1>5, <2>2, Becomes DEF RInv
  <2>4. CASE op[u].restore /\ c.at = "home" /\ UNCHANGED native
    <3>1. Turn(c)'
      BY <1>1, <1>2, <1>3, <1>5, <2>3, <2>4 DEF Turn, active, native, Passing, NativeHas
    <3> QED BY <1>1, <1>5, <2>1, <2>2, <2>3, <3>1, GoesOn
  <2>5. CASE ~op[u].restore /\ c.at = "stopped" /\ Forget
    <3>1. Turn(c)'
      BY <1>1, <1>2, <1>3, <1>5, <2>3, <2>5 DEF Turn, active, Forget, Passing
    <3> QED BY <1>1, <1>5, <2>1, <2>2, <2>3, <3>1, GoesOn
  <2> QED BY <2>3, <2>4, <2>5
<1> QED BY <1>4, <1>5 DEF Quell

(* The mode before a native preview comes back, and no level with it.      *)
LEMMA HomeBrings ==
  ASSUME NEW r \in HomeWrites, Leaves(r), r.ok, before # None, Known, NativeHas(before), ValueTypes
  PROVE  mode' = before.mode /\ look' = before.look
<1>1. nmode = before.mode /\ before.mode \in Modes /\ look = before.look /\ kmode = mode
  BY DEF NativeHas, Known
<1>2. CASE ~Switches
  BY <1>1, <1>2 DEF HomeWrites, Untouched, Leaves, NativeHas
<1>3. CASE Switches
  BY <1>1, <1>3 DEF HomeWrites, Untouched, ModeWrite, Outcomes, Leaves
<1> QED BY <1>2, <1>3

LEMMA HomeTurn == ASSUME RInv, IInv', NEW u \in Users, Home(u) PROVE RInv'
<1>1. PICK r \in HomeWrites :
        /\ Leaves(r)
        /\ IF r.ok THEN Forget /\ op' = [op EXCEPT ![u].at = "stopped"] /\ UNCHANGED lock
                   ELSE UNCHANGED native /\ StopFails(u)
        /\ before' = IF Astray \/ ~r.ok THEN None ELSE before
  BY DEF Home
<1>2. op[u].at = "home" /\ UNCHANGED <<player, over, smode, slook>>
  BY DEF Home, saved
<1>3. Turn(op[u]) /\ Known /\ ValueTypes /\ player \in {"none", "cancelled"}
  BY <1>2, AtRun DEF RInv, IInv, HaltInv
<1>4. active /\ ~over /\ slook = None
  BY <1>2, <1>3 DEF Turn
<1>5. before' # None => before' = before /\ ~Astray /\ NativeHas(before)
  BY <1>1, <1>3, <1>4 DEF Turn
<1>6. Known'
  BY <1>1, <1>3, <1>5, WrittenKnown
<1>7. CASE r.ok
  <2>1. PICK c : c = op'[u]
    OBVIOUS
  <2>2. /\ c.do = op[u].do /\ c.restore = op[u].restore /\ c.ok = op[u].ok /\ c.at = "stopped"
        /\ \A v \in Users \ {u} : op'[v] = op[v]
    BY <1>1, <1>7, <2>1, Becomes DEF RInv
  <2>3. before' # None => FixtureHas(before)'
    BY <1>1, <1>3, <1>5, <1>7, HomeBrings DEF FixtureHas
  <2>4. kind' = None /\ UNCHANGED lock
    BY <1>1, <1>7 DEF Forget
  <2>5. Turn(c)'
    <3>1. ~op[u].ok => before = None
      BY <1>2, <1>3 DEF Turn
    <3> QED BY <1>2, <1>3, <1>4, <1>5, <2>2, <2>3, <2>4, <3>1 DEF Turn, active, Passing
  <2> QED BY <1>2, <1>6, <2>1, <2>2, <2>4, <2>5, GoesOn
<1>8. CASE ~r.ok
  <2>1. before' = None /\ StopFails(u) /\ kind' = kind
    BY <1>1, <1>8 DEF native
  <2>2. ASSUME NEW c, c.at \in {"none", "act"}, c.do \notin {"play", "native"} PROVE Turn(c)'
    BY <1>2, <1>3, <1>4, <2>1, <2>2 DEF Turn, Cleared, active
  <2> QED BY <1>2, <1>6, <2>1, <2>2, FailsTurn
<1> QED BY <1>7, <1>8

LEMMA StoppedTurn == ASSUME RInv, IInv', NEW u \in Users, Stopped(u) PROVE RInv'
<1>1. /\ op[u].at = "stopped" \/ (op[u].at = "quell" /\ ~active)
      /\ over' = (over \/ op[u].ok)
      /\ UNCHANGED <<mode, look, known, player, smode, slook, before, kind, nmode>>
  BY DEF Stopped, fixture, saved, native
<1>2. Turn(op[u]) /\ Known /\ player \in {"none", "cancelled"}
  BY <1>1, AtRun DEF RInv, IInv, HaltInv
<1>3. ~active /\ ~active' /\ slook = None
  BY <1>1, <1>2 DEF Turn, active, Cleared
<1>4. Known'
  BY <1>1, <1>2, KeptKnown
<1>5. before # None => over'
  BY <1>1, <1>2 DEF Turn
<1>6. CASE op' = [op EXCEPT ![u].at = "act"] /\ UNCHANGED lock
  <2>1. PICK c : c = op'[u]
    OBVIOUS
  <2>2. /\ c.do = op[u].do /\ c.restore = op[u].restore /\ c.at = "act"
        /\ \A v \in Users \ {u} : op'[v] = op[v]
    BY <1>6, <2>1, Becomes DEF RInv
  <2>3. Turn(c)'
    BY <1>1, <1>2, <1>3, <1>5, <2>2 DEF Turn
  <2> QED BY <1>1, <1>4, <1>6, <2>1, <2>2, <2>3, GoesOn
<1>7. CASE Finish(u)
  <2>1. Turn(Idle)'
    BY <1>1, <1>2, <1>3, <1>5 DEF Turn, Idle, Cleared
  <2> QED BY <1>1, <1>4, <1>7, <2>1, Finishes
<1> QED BY <1>6, <1>7 DEF Stopped

LEMMA PlayTurn == ASSUME RInv, IInv', NEW u \in Users, Play(u) PROVE RInv'
<1>1. /\ op[u].at = "act" /\ op[u].do = "play" /\ Finish(u)
      /\ smode' = (IF kmode \in Scheduled THEN kmode ELSE None) /\ slook' = klook
      /\ before' = IF kmode = mode /\ klook = look THEN [mode |-> mode, look |-> look] ELSE None
      /\ UNCHANGED <<mode, look, kmode, klook, kind>>
  BY DEF Play, fixture, known, native
<1>2. Turn(op[u]) /\ ValueTypes /\ ValueTypes'
  BY <1>1, AtRun DEF RInv, IInv
<1>3. ~active /\ ~active' /\ slook' # None
  BY <1>1, <1>2 DEF Turn, active, ValueTypes, Shown
<1>4. Known'
  BY <1>1, <1>2 DEF Known, ValueTypes
<1>5. before' # None => EditorHas(before)'
  BY <1>1 DEF EditorHas
<1>6. Turn(Idle)'
  BY <1>3, <1>5 DEF Turn, Idle, Cleared
<1> QED BY <1>1, <1>4, <1>6, Finishes

LEMMA NativeModeTurn == ASSUME RInv, IInv', NEW u \in Users, NativeMode(u) PROVE RInv'
<1>1. /\ op[u].at = "act" /\ op[u].do = "native" /\ UNCHANGED lock
      /\ op' = [op EXCEPT ![u].at = "mode"]
      /\ nmode' = (IF active THEN nmode ELSE kmode)
      /\ before' = IF active THEN before
                   ELSE IF kmode = mode /\ klook = look THEN [mode |-> mode, look |-> look] ELSE None
      /\ UNCHANGED <<mode, look, kmode, klook, kind, smode, slook, over, player>>
  BY DEF NativeMode, fixture, known, saved
<1>2. Turn(op[u]) /\ Known /\ ValueTypes
  BY <1>1, AtRun DEF RInv, IInv
<1>3. slook = None /\ (active' <=> active) /\ (active => ~over)
      /\ player \notin {"asleep", "queued", "frame"}
  BY <1>1, <1>2 DEF Turn, active
<1>4. Known'
  BY <1>1, <1>2 DEF Known, ValueTypes
<1>5. before' # None => NativeHas(before)'
  BY <1>1, <1>2 DEF NativeHas, Turn
<1>6. PICK c : c = op'[u]
  OBVIOUS
<1>7. /\ c.do = op[u].do /\ c.restore = op[u].restore /\ c.at = "mode"
      /\ \A v \in Users \ {u} : op'[v] = op[v]
  BY <1>1, <1>6, Becomes DEF RInv
<1>8. Turn(c)'
  BY <1>1, <1>3, <1>5, <1>7 DEF Turn, Passing
<1> QED BY <1>1, <1>4, <1>6, <1>7, <1>8, GoesOn

LEMMA NativeSwitchTurn == ASSUME RInv, IInv', NEW u \in Users, NativeSwitch(u) PROVE RInv'
<1> DEFINE writes == IF Switches /\ (kmode # op[u].arg \/ kind \notin {None, op[u].arg})
                     THEN ModeWrite(op[u].arg) ELSE {Untouched}
<1>1. PICK r \in writes :
        /\ Leaves(r)
        /\ IF r.ok THEN op' = [op EXCEPT ![u].at = "show"] /\ UNCHANGED <<nmode, lock>>
                   ELSE Finish(u) /\ nmode' = IF active THEN nmode ELSE None
        /\ before' = IF Astray \/ ~r.ok THEN None ELSE before
  BY DEF NativeSwitch
<1>2. op[u].at = "mode" /\ UNCHANGED <<kind, smode, slook, over, player>>
  BY DEF NativeSwitch, saved
<1>3. Turn(op[u]) /\ Known
  BY <1>2, AtRun DEF RInv
<1>4. slook = None /\ (active' <=> active) /\ (active => ~over)
      /\ player \notin {"asleep", "queued", "frame"}
  BY <1>2, <1>3 DEF Turn, active, Cleared
<1>5. before' # None => before' = before /\ ~Astray
  BY <1>1
<1>6. Known'
  BY <1>3, <1>5, WrittenKnown
<1>7. CASE r.ok
  <2>1. look' = look /\ (~Switches => mode' = mode)
    BY <1>1 DEF ModeWrite, Outcomes, Untouched, Leaves
  <2>2. before' # None => NativeHas(before)'
    BY <1>1, <1>2, <1>3, <1>5, <1>7, <2>1 DEF Turn, NativeHas
  <2>3. PICK c : c = op'[u]
    OBVIOUS
  <2> HIDE DEF writes
  <2>4. /\ c.do = op[u].do /\ c.restore = op[u].restore /\ c.at = "show"
        /\ \A v \in Users \ {u} : op'[v] = op[v]
    BY <1>1, <1>7, <2>3, Becomes DEF RInv
  <2>5. Turn(c)'
    BY <1>2, <1>4, <2>2, <2>4 DEF Turn, Passing
  <2> QED BY <1>1, <1>2, <1>6, <1>7, <2>3, <2>4, <2>5, GoesOn
<1>8. CASE ~r.ok
  <2>1. before' = None /\ Finish(u)
    BY <1>1, <1>8
  <2>2. Turn(Idle)'
    BY <1>2, <1>4, <2>1 DEF Turn, Idle, Cleared
  <2> QED BY <1>2, <1>6, <2>1, <2>2, Finishes
<1> QED BY <1>7, <1>8

LEMMA NativeShowTurn == ASSUME RInv, IInv', NEW u \in Users, NativeShow(u) PROVE RInv'
<1>1. /\ op[u].at = "show" /\ Finish(u) /\ over' = FALSE
      /\ UNCHANGED <<smode, slook, player>>
  BY DEF NativeShow, saved
<1>2. Turn(op[u]) /\ Known
  BY <1>1, AtRun DEF RInv
<1>3. slook' = None /\ player' \notin {"asleep", "queued", "frame"}
  BY <1>1, <1>2 DEF Turn, Cleared
<1>4. CASE /\ kind' = op[u].arg /\ UNCHANGED <<nmode, before, mode, look, known>>
  <2>1. active'
    BY <1>1, <1>4 DEF RInv, IInv, ShowAt, ArgInv, Fits, active, Modes
  <2>2. before' # None => NativeHas(before)'
    BY <1>1, <1>2, <1>4 DEF Turn, NativeHas
  <2>3. Turn(Idle)'
    BY <1>1, <1>3, <2>1, <2>2 DEF Turn, Idle, Cleared
  <2>4. Known'
    BY <1>2, <1>4, KeptKnown
  <2> QED BY <1>1, <2>3, <2>4, Finishes
<1>5. CASE before' = None
  <2>1. Known' /\ Turn(Idle)'
    BY <1>1, <1>3, <1>5 DEF Known, Turn, Idle, Cleared
  <2> QED BY <1>1, <2>1, Finishes
<1> QED BY <1>4, <1>5 DEF NativeShow

LEMMA WriteTurn == ASSUME RInv, IInv', NEW u \in Users, Write(u) PROVE RInv'
<1>1. /\ op[u].at = "act" /\ Finish(u) /\ before' = None
      /\ UNCHANGED <<smode, slook, player, kind, over>>
  BY DEF Write, saved, native
<1>2. Turn(op[u])
  BY <1>1, AtRun
<1>3. Known' /\ Turn(Idle)'
  BY <1>1, <1>2 DEF Known, Turn, Idle, Cleared, active
<1> QED BY <1>1, <1>3, Finishes

LEMMA AskTurn == ASSUME RInv, IInv', NEW u \in Users, NEW c \in Calls, Ask(u, c) PROVE RInv'
<1>1. /\ op' = [op EXCEPT ![u] = [c EXCEPT !.at = "queued"]] /\ u \notin inside /\ inside' = inside
      /\ Kept /\ UNCHANGED <<known, player>>
  BY DEF Ask, Lock!Want, Kept, fixture, saved, native
<1>2. op'[u] = [c EXCEPT !.at = "queued"] /\ \A v \in Users \ {u} : op'[v] = op[v]
  BY <1>1 DEF RInv, IInv, Base, OpTypes
<1>3. Known'
  BY <1>1, KeptKnown DEF RInv, Kept
<1>4. ASSUME NEW d, Turn(d) PROVE Turn(d)'
  BY <1>1, <1>4, KeptTurn
<1>5. ASSUME NEW v \in Users, v \in inside' PROVE Turn(op[v])'
  <2>1. PICK d : d = op[v]
    OBVIOUS
  <2>2. op'[v] = d /\ Turn(d)
    BY <1>1, <1>2, <1>5, <2>1 DEF RInv, TurnInv
  <2>3. Turn(d)'
    BY <1>4, <2>2
  <2> QED BY <2>2, <2>3
<1>6. TurnInv'
  BY <1>1, <1>4, <1>5 DEF RInv, TurnInv
<1> QED BY <1>3, <1>6 DEF RInv

LEMMA BeginsTurn == ASSUME RInv, IInv', NEW u \in Users, Begins(u) PROVE RInv'
<1>1. /\ op[u].at = "queued" /\ inside = {} /\ inside' = {u}
      /\ op' = [op EXCEPT ![u].at = IF StopsFirst(u) THEN "halt" ELSE "act"]
      /\ Kept /\ UNCHANGED <<known, player>>
  BY DEF Begins, Lock!Begin, Lock!MayBegin, Kept, fixture, saved, native
<1>2. PICK p : p = IF StopsFirst(u) THEN "halt" ELSE "act"
  OBVIOUS
<1>3. PICK c : c = op'[u]
  OBVIOUS
<1>4. /\ c.at = p /\ c.do = op[u].do /\ c.restore = op[u].restore
      /\ \A v \in Users \ {u} : op'[v] = op[v]
  BY <1>1, <1>2, <1>3, Becomes DEF RInv
<1>5. Turn(Idle)
  BY <1>1 DEF RInv, TurnInv
<1>6. Turn(c)
  <2>1. p = "act" => op[u].do # "play" /\ (op[u].do = "native" => slook = None)
    BY <1>2 DEF StopsFirst
  <2>2. p \in {"halt", "act"}
    BY <1>2
  <2> QED BY <1>4, <1>5, <2>1, <2>2 DEF Turn, Idle, Cleared, Passing
<1>7. Turn(c)'
  BY <1>1, <1>6, KeptTurn
<1>8. Known'
  BY <1>1, KeptKnown DEF RInv, Kept
<1>9. TurnInv'
  BY <1>1, <1>3, <1>7 DEF TurnInv
<1> QED BY <1>8, <1>9 DEF RInv

(* The preview's task sends its frames while what it saved is there; its   *)
(* frames take the fixture to manual mode, and nowhere else.               *)
LEMMA PlayerTurn == ASSUME RInv, IInv', PlayerStep PROVE RInv'
<1>1. op' = op /\ UNCHANGED <<kind, over, slook, smode, nmode>>
  BY DEF PlayerStep, PlayerAsks, PlayerBegins, PlayerSends, PlayerEnds, saved, native
<1>2. CASE PlayerAsks \/ PlayerBegins \/ PlayerEnds
  <2>1. /\ Kept /\ UNCHANGED known
        /\ player' \in {"asleep", "queued", "frame"} => player \in {"asleep", "queued", "frame"}
    BY <1>1, <1>2 DEF PlayerAsks, PlayerBegins, PlayerEnds, Kept, fixture
  <2>2. inside' \cap Users = inside \cap Users
    BY <1>2 DEF PlayerAsks, PlayerBegins, PlayerEnds, lock,
                Lock!Want, Lock!Begin, Lock!MayBegin, Lock!GiveUp
  <2>3. ASSUME NEW d, Turn(d) PROVE Turn(d)'
    BY <2>1, <2>3, KeptTurn
  <2>4. ASSUME NEW v \in Users, v \in inside' PROVE Turn(op[v])'
    <3>1. PICK d : d = op[v]
      OBVIOUS
    <3>2. op'[v] = d /\ Turn(d)
      BY <1>1, <2>2, <2>4, <3>1 DEF RInv, TurnInv
    <3>3. Turn(d)'
      BY <2>3, <3>2
    <3> QED BY <3>2, <3>3
  <2>5. TurnInv'
    BY <2>2, <2>3, <2>4 DEF RInv, TurnInv
  <2>6. Known'
    BY <2>1, KeptKnown DEF RInv, Kept
  <2> QED BY <2>5, <2>6 DEF RInv
<1>3. CASE PlayerSends
  <2>1. player = "frame" /\ Player \in inside /\ inside' = inside \ {Player}
        /\ player' \in {"asleep", "none"}
    BY <1>3 DEF PlayerSends, Lock!End
  <2>2. inside \cap Users = {} /\ inside' \cap Users = {}
    BY <2>1 DEF RInv, IInv, Base, LockInv
  <2>3. Turn(Idle) /\ Known
    BY <2>2 DEF RInv, TurnInv
  <2>4. PICK l \in Frames : \E r \in ChannelWrite(l) :
          Leaves(r) /\ before' = IF Astray THEN None ELSE before
    BY <1>3 DEF PlayerSends
  <2>5. PICK r \in ChannelWrite(l) : Leaves(r) /\ before' = IF Astray THEN None ELSE before
    BY <2>4
  <2>6. mode' \in {mode, "manual"}
    BY <2>5 DEF ChannelWrite, Manual, Untouched, Leaves
  <2>7. before' # None => before' = before /\ ~Astray
    BY <2>5
  <2>8. Known'
    BY <2>3, <2>7, WrittenKnown
  <2>9. slook # None /\ ~active /\ ~active'
    BY <1>1, <2>1, <2>3 DEF Turn, active
  <2>10. before' # None /\ ~over => EditorHas(before)'
    BY <1>1, <2>3, <2>6, <2>7, <2>9 DEF Turn, EditorHas
  <2>11. Turn(Idle)'
    BY <1>1, <2>9, <2>10 DEF Turn, Idle, Cleared
  <2>12. TurnInv'
    BY <2>2, <2>11 DEF TurnInv
  <2> QED BY <2>8, <2>12 DEF RInv
<1> QED BY <1>2, <1>3 DEF PlayerStep

LEMMA OtherTurn == ASSUME RInv, IInv', Drift \/ UNCHANGED vars PROVE RInv'
<1>1. /\ UNCHANGED <<player, op, over, kind, nmode, smode, slook, inside>>
      /\ \/ before' = None
         \/ before' = before /\ UNCHANGED <<mode, look, known>>
  BY DEF Drift, vars, fixture, saved, native, lock
<1>2. Known'
  BY <1>1 DEF RInv, Known, known
<1>3. ASSUME NEW d, Turn(d) PROVE Turn(d)'
  <2>1. CASE before' = None
    BY <1>1, <1>3, <2>1 DEF Turn, active
  <2>2. CASE before' = before /\ UNCHANGED <<mode, look, known>>
    BY <1>1, <1>3, <2>2, KeptTurn DEF Kept
  <2> QED BY <1>1, <2>1, <2>2
<1>4. ASSUME NEW v \in Users, v \in inside' PROVE Turn(op[v])'
  <2>1. PICK d : d = op[v]
    OBVIOUS
  <2>2. op'[v] = d /\ Turn(d)
    BY <1>1, <1>4, <2>1 DEF RInv, TurnInv
  <2>3. Turn(d)'
    BY <1>3, <2>2
  <2> QED BY <2>2, <2>3
<1>5. TurnInv'
  BY <1>1, <1>3, <1>4 DEF RInv, TurnInv
<1> QED BY <1>2, <1>5 DEF RInv

LEMMA RestoresInit == Init => RInv
<1> SUFFICES ASSUME Init PROVE RInv
  OBVIOUS
<1>1. before = None /\ kind = None /\ player = "none" /\ inside = {}
      /\ \A u \in Users : op[u] = Idle
  BY DEF Init, Lock!AInit
<1>2. Known /\ TurnInv
  BY <1>1 DEF Known, TurnInv, Turn, Idle, active, Cleared
<1> QED BY <1>2, InitHolds DEF RInv

LEMMA RestoresInductive == RInv /\ [Next]_vars => RInv'
<1> SUFFICES ASSUME RInv, [Next]_vars PROVE RInv'
  OBVIOUS
<1>1. IInv'
  BY Inductive DEF RInv
<1>2. ASSUME NEW u \in Users, UserStep(u) \/ DeadlineSwallowed(u) PROVE RInv'
  BY <1>1, <1>2, BeginsTurn, HaltTurn, RestoreTurn, QuellTurn, HomeTurn, StoppedTurn, PlayTurn,
     NativeModeTurn, NativeSwitchTurn, NativeShowTurn, WriteTurn
     DEF UserStep, DeadlineSwallowed, Joined
<1> QED BY <1>1, <1>2, AskTurn, PlayerTurn, OtherTurn DEF Next

(* "The dedicated Stop preview action restores the prior fixture mode"     *)
(* (README.md): a stop that is to restore, and reports success, leaves the *)
(* fixture as it was before the first preview, through any chain of        *)
(* previews, unless another command, the app or a write without an answer  *)
(* interfered (async_stop_preview).                                        *)
THEOREM StopBringsBack == Spec => StopRestores
<1>1. RInv =>
        \A u \in Users :
          Stopped(u) /\ op[u].restore /\ op[u].ok /\ before # None /\ ~over
            => mode = before.mode /\ (mode = "manual" => look = before.look)
  <2> SUFFICES ASSUME RInv, NEW u \in Users,
                      Stopped(u), op[u].restore, op[u].ok, before # None, ~over
               PROVE  mode = before.mode /\ (mode = "manual" => look = before.look)
    OBVIOUS
  <2>1. op[u].at = "stopped" \/ (op[u].at = "quell" /\ ~active)
    BY DEF Stopped
  <2>2. Turn(op[u])
    BY <2>1, AtRun
  <2>3. FixtureHas(before)
    BY <2>1, <2>2 DEF Turn
  <2> QED BY <2>3 DEF FixtureHas
<1>2. Spec => []RInv
  BY RestoresInit, RestoresInductive, PTL DEF Spec
<1> QED BY <1>1, <1>2, PTL DEF StopRestores
=============================================================================
