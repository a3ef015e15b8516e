--------------------------- MODULE GuardianProofs ---------------------------
(***************************************************************************)
(* Theorems about Guardian, for any thresholds, expectations, windows and  *)
(* readbacks: types, silence in a shutdown, and, as long as no service     *)
(* reads a schedule back meanwhile, that a check takes the fixture out of  *)
(* a manual mode the user commanded only when its override has run out.    *)
(*                                                                         *)
(* Theorems about GuardianRunner, for any number of runner tasks and of    *)
(* services: the one-shot timers never stack up, no deferral and no        *)
(* connect during a runner's check is lost, and nothing fires after the    *)
(* unload.                                                                 *)
(***************************************************************************)
EXTENDS Guardian, GuardianRunner, TLAPS

USE TasksDistinct, ThresholdsNat, OptionsKnown, NoneIsNoMode

(* The types of what the check's code between two steps touches.           *)
StepTypes ==
  /\ at \in [Guardians -> At]
  /\ failures \in 0 .. Cap /\ unreachable \in 0 .. Cap
  /\ wants \subseteq Tasks /\ inside \subseteq Tasks
  /\ \A t \in Guardians \cap (wants \cup inside) : at[t] \in Steps

(* Nobody waits for the Device and has it; one task has it at most; one    *)
(* guardian task at most is past the guardian's lock.                      *)
Apart == wants \cap inside = {}
OneInside == \A s, t \in inside : s = t
OneBusy == at[Check] \in {"idle", "queued"} \/ at[Restorer] \in {"idle", "queued"}
LockInv == Apart /\ OneInside /\ OneBusy

(* A mode the user commanded is the fixture's and the one last heard.      *)
HeldInv == held => mode = "manual" /\ known = "manual"

(* Without readbacks a correction that was decided on never waits for the  *)
(* Device, so nobody can come between the decision and the correction.     *)
EnsureReady == Readers = {} => (at[Check] = "ensure" => Check \notin wants)
EnsureArmed ==
  Readers = {} =>
    (at[Check] = "ensure" /\ Check \in inside /\ held /\ expected = "scheduled"
       => override = "expired")

IInv == TypeOK /\ LockInv /\ HeldInv /\ EnsureReady /\ EnsureArmed

-----------------------------------------------------------------------------
(* What the check's code between two steps can come to: it ends, or asks   *)
(* for the Device for one of the steps S.                                  *)
Goes(S) == (\E v : Finish(v)) \/ \E s \in S : AskFor(s)

LEMMA AfterClockGoes == ASSUME AfterClock PROVE Goes({"read"}) /\ UNCHANGED override
BY DEF AfterClock, StandAsideOr, Goes

LEMMA SettleGoes ==
  ASSUME NEW s, NEW d, NEW v, Settle(s, d, v) PROVE Goes({"push"})
BY DEF Settle, StandAsideOr, Goes

LEMMA AfterReadGoes ==
  ASSUME NEW s, NEW d, AfterRead(s, d) PROVE Goes({"ensure", "push"})
<1>1. CASE Judge(s, d)
  <2>1. CASE Settle(s, d, "ok")
    BY <2>1, SettleGoes DEF Goes
  <2> QED BY <1>1, <2>1 DEF Judge, Goes
<1> QED BY <1>1 DEF AfterRead, Goes

LEMMA AfterEnsureGoes ==
  ASSUME NEW ok, AfterEnsure(ok) PROVE Goes({"reread"}) /\ override' = "none"
BY DEF AfterEnsure, Goes

LEMMA AfterRereadGoes ==
  ASSUME NEW s, NEW d, AfterReread(s, d) PROVE Goes({"push"}) /\ UNCHANGED override
BY SettleGoes DEF AfterReread

LEMMA AfterPushGoes ==
  ASSUME NEW ok, AfterPush(ok) PROVE Goes({}) /\ UNCHANGED override
BY DEF AfterPush, Goes

LEMMA BumpStays == ASSUME NEW n \in 0 .. Cap PROVE Bump(n) \in 0 .. Cap
BY DEF Bump

(* Either way the lock's and the guardian's invariants hold, and a closing *)
(* Device leaves the record alone.                                         *)
LEMMA GoesKeeps ==
  ASSUME StepTypes, LockInv, NEW S \in SUBSET Steps, Goes(S),
         Check \notin wants, at[Restorer] \in {"idle", "queued"}
  PROVE  /\ StepTypes' /\ LockInv'
         /\ at'[Check] = "ensure" => "ensure" \in S
         /\ closing => UNCHANGED recorded
<1> USE DEF StepTypes, LockInv, Apart, OneInside, OneBusy, Guardians, Tasks
<1>0. Check \in Guardians /\ Restorer \in Guardians /\ Check # Restorer
  OBVIOUS
<1>1. ASSUME NEW v, Finish(v)
      PROVE  /\ StepTypes' /\ LockInv' /\ at'[Check] = "idle"
             /\ closing => UNCHANGED recorded
  <2>1. failures' \in 0 .. Cap /\ unreachable' \in 0 .. Cap
    BY <1>1, BumpStays DEF Finish, recorded
  <2>2. at' \in [Guardians -> At] /\ at'[Check] = "idle" /\ at'[Restorer] = at[Restorer]
    BY <1>0, <1>1 DEF Finish, At
  <2>3. wants' = wants /\ inside' = inside \ {Check}
    BY <1>1 DEF Finish
  <2>4. \A t \in Guardians \cap (wants' \cup inside') : at'[t] \in Steps
    BY <1>0, <2>2, <2>3
  <2> QED BY <2>1, <2>2, <2>3, <2>4, <1>1 DEF Finish
<1>2. ASSUME NEW s \in S, AskFor(s)
      PROVE  /\ StepTypes' /\ LockInv' /\ at'[Check] \in {"idle", s}
             /\ UNCHANGED recorded
  <2>1. UNCHANGED recorded
    BY <1>2 DEF AskFor
  <2>2. CASE closing
    <3>1. at' = [at EXCEPT ![Check] = "idle"] /\ inside' = inside \ {Check} /\ wants' = wants
      BY <1>2, <2>2 DEF AskFor
    <3>2. at' \in [Guardians -> At] /\ at'[Check] = "idle" /\ at'[Restorer] = at[Restorer]
      BY <1>0, <3>1 DEF At
    <3>3. \A t \in Guardians \cap (wants' \cup inside') : at'[t] \in Steps
      BY <1>0, <3>1, <3>2
    <3> QED BY <2>1, <3>1, <3>2, <3>3 DEF recorded
  <2>3. CASE ~closing
    <3>1. /\ at' = [at EXCEPT ![Check] = s]
          /\ \/ inside' = {Check} /\ wants' = wants /\ wants = {}
             \/ inside' = inside \ {Check} /\ wants' = wants \cup {Check}
      BY <1>2, <2>3 DEF AskFor
    <3>2. at' \in [Guardians -> At] /\ at'[Check] = s /\ at'[Restorer] = at[Restorer] /\ s \in Steps
      BY <1>0, <3>1 DEF At
    <3>3. \A t \in Guardians \cap (wants' \cup inside') : at'[t] \in Steps
      BY <1>0, <3>1, <3>2
    <3> QED BY <2>1, <3>1, <3>2, <3>3 DEF recorded
  <2> QED BY <2>2, <2>3
<1> QED BY <1>1, <1>2 DEF Goes

-----------------------------------------------------------------------------
(* The types of the rest of the state.                                     *)
OtherTypes ==
  /\ expected \in Expectations /\ window \in Windows
  /\ override \in Override
  /\ mode \in Modes /\ known \in Modes
  /\ drifted \in BOOLEAN /\ closing \in BOOLEAN
  /\ quiet \in BOOLEAN /\ held \in BOOLEAN

LEMMA TypesSplit == TypeOK <=> StepTypes /\ OtherTypes
BY DEF TypeOK, StepTypes, OtherTypes

LEMMA WantedTyped == Wanted \in Modes
BY DEF Wanted, Modes

LEMMA InitHolds == Init => IInv
<1> SUFFICES ASSUME Init PROVE IInv
  OBVIOUS
<1>1. TypeOK
  <2>1. StepTypes
    BY DEF Init, StepTypes, Lock!AInit, At
  <2>2. OtherTypes
    BY DEF Init, OtherTypes, Override
  <2> QED BY <2>1, <2>2, TypesSplit
<1>2. LockInv
  BY DEF Init, Lock!AInit, LockInv, Apart, OneInside, OneBusy, Guardians
<1>3. HeldInv /\ EnsureReady /\ EnsureArmed
  BY DEF Init, Lock!AInit, HeldInv, EnsureReady, EnsureArmed
<1> QED BY <1>1, <1>2, <1>3 DEF IInv

(* The check goes on, not to a correction.                                 *)
LEMMA GoesOn ==
  ASSUME IInv, NEW S \in SUBSET (Steps \ {"ensure"}), Goes(S),
         Check \notin wants, at[Restorer] \in {"idle", "queued"},
         OtherTypes', HeldInv'
  PROVE  IInv'
<1>1. StepTypes /\ LockInv
  BY TypesSplit DEF IInv
<1>2. S \in SUBSET Steps /\ "ensure" \notin S
  OBVIOUS
<1>3. StepTypes' /\ LockInv' /\ at'[Check] # "ensure"
  BY <1>1, <1>2, GoesKeeps
<1>4. TypeOK'
  BY <1>3, TypesSplit DEF TypeOK, StepTypes, OtherTypes
<1>5. EnsureReady' /\ EnsureArmed'
  BY <1>3 DEF EnsureReady, EnsureArmed
<1> QED BY <1>3, <1>4, <1>5 DEF IInv

(* The task whose step ends has the Device, and the guardian's lock.       *)
LEMMA EndsAlone ==
  ASSUME IInv, NEW s \in Steps, Ends(Check, s)
  PROVE  Check \notin wants /\ at[Restorer] \in {"idle", "queued"}
BY DEF IInv, LockInv, Apart, OneBusy, Ends, Steps

LEMMA ResetsAlone ==
  ASSUME IInv, Resetting(Check)
  PROVE  Check \notin wants /\ at[Restorer] \in {"idle", "queued"}
BY DEF IInv, LockInv, OneBusy, Resetting, Steps

(* A correction of the mode never leaves a user's manual mode half noted.  *)
LEMMA EnsureModeKeeps ==
  ASSUME OtherTypes, HeldInv, NEW ok \in BOOLEAN, EnsureMode(ok)
  PROVE  mode' \in Modes /\ known' \in Modes /\ held' \in BOOLEAN /\ HeldInv'
<1>1. mode' \in Modes /\ known' \in Modes
  BY WantedTyped DEF OtherTypes, EnsureMode
<1>2. held' \in BOOLEAN
  BY DEF EnsureMode
<1>3. HeldInv'
  BY DEF EnsureMode, HeldInv
<1> QED BY <1>1, <1>2, <1>3

-----------------------------------------------------------------------------
(* The check between its steps.                                            *)
LEMMA CheckStep ==
  ASSUME IInv,
         \/ CheckBegins \/ ClockEnds \/ ResetEnds
         \/ \E ok \in BOOLEAN : EnsureEnds(ok) \/ PushEnds(ok)
  PROVE  IInv'
<1>t. StepTypes /\ OtherTypes /\ LockInv /\ HeldInv
  BY TypesSplit DEF IInv
<1>s. {"clock"} \in SUBSET (Steps \ {"ensure"}) /\ {"read"} \in SUBSET (Steps \ {"ensure"})
      /\ {"reread"} \in SUBSET (Steps \ {"ensure"}) /\ {"push"} \in SUBSET (Steps \ {"ensure"})
      /\ {} \in SUBSET (Steps \ {"ensure"})
  BY DEF Steps
<1>1. CASE CheckBegins
  <2>1. /\ at[Check] = "queued" /\ at[Restorer] \in {"idle", "queued"} /\ Check \notin wants
        /\ UNCHANGED <<options, override, env>>
    BY <1>1, <1>t DEF CheckBegins, CheckLockFree, Guardians, StepTypes, Steps
  <2>2. OtherTypes' /\ HeldInv'
    BY <2>1, <1>t DEF OtherTypes, HeldInv, options, env, fixture
  <2>3. CASE closing
    <3>1. at' = [at EXCEPT ![Check] = "idle"] /\ UNCHANGED <<wants, inside, recorded>>
      BY <1>1, <2>3 DEF CheckBegins
    <3>2. StepTypes' /\ LockInv' /\ at'[Check] = "idle"
      BY <2>1, <3>1, <1>t DEF StepTypes, LockInv, Apart, OneInside, OneBusy, At, Guardians, recorded, Steps
    <3>3. TypeOK' /\ EnsureReady' /\ EnsureArmed'
      BY <2>2, <3>2 DEF TypeOK, StepTypes, OtherTypes, EnsureReady, EnsureArmed
    <3> QED BY <2>2, <3>2, <3>3 DEF IInv
  <2>4. CASE ~closing
    <3>1. Goes({"clock"})
      BY <1>1, <2>4 DEF CheckBegins, StandAsideOr, Goes
    <3> QED BY <1>s, <2>1, <2>2, <3>1, GoesOn
  <2> QED BY <2>3, <2>4
<1>2. CASE ClockEnds
  <2>1. Goes({"read"}) /\ UNCHANGED override /\ UNCHANGED <<options, env>>
    BY <1>2, AfterClockGoes DEF ClockEnds
  <2>2. OtherTypes' /\ HeldInv'
    BY <2>1, <1>t DEF OtherTypes, HeldInv, options, env, fixture
  <2>3. Check \notin wants /\ at[Restorer] \in {"idle", "queued"}
    BY <1>2, EndsAlone DEF ClockEnds, Steps
  <2> QED BY <1>s, <2>1, <2>2, <2>3, GoesOn
<1>3. CASE ResetEnds
  <2>1. /\ Goes({"read"}) \/ Goes({"reread"}) \/ Goes({"push"}) \/ Goes({})
        /\ override' \in {override, "none"}
    <3>1. CASE AfterRead(None, drifted)
      BY <3>1 DEF AfterRead, Goes
    <3>2. CASE AfterClock
      BY <3>2, AfterClockGoes
    <3>3. CASE AfterEnsure(FALSE)
      BY <3>3, AfterEnsureGoes
    <3>4. CASE AfterReread(None, drifted)
      BY <3>4, AfterRereadGoes
    <3>5. CASE AfterPush(FALSE)
      BY <3>5, AfterPushGoes
    <3>6. CASE Finish("unreachable") /\ UNCHANGED override
      BY <3>6 DEF Goes
    <3> QED BY <1>3, <3>1, <3>2, <3>3, <3>4, <3>5, <3>6 DEF ResetEnds
  <2>2. UNCHANGED <<options, env>>
    BY <1>3 DEF ResetEnds
  <2>3. OtherTypes' /\ HeldInv'
    BY <2>1, <2>2, <1>t DEF OtherTypes, HeldInv, options, env, fixture, Override
  <2>4. Check \notin wants /\ at[Restorer] \in {"idle", "queued"}
    BY <1>3, ResetsAlone DEF ResetEnds
  <2> QED BY <1>s, <2>1, <2>3, <2>4, GoesOn
<1>4. ASSUME NEW ok \in BOOLEAN, EnsureEnds(ok) PROVE IInv'
  <2>1. Goes({"reread"}) /\ override' = "none"
    BY <1>4, AfterEnsureGoes DEF EnsureEnds
  <2>2. mode' \in Modes /\ known' \in Modes /\ held' \in BOOLEAN /\ HeldInv'
    BY <1>4, <1>t, EnsureModeKeeps DEF EnsureEnds
  <2>3. OtherTypes'
    BY <1>4, <2>1, <2>2, <1>t DEF EnsureEnds, OtherTypes, options, Override
  <2>4. Check \notin wants /\ at[Restorer] \in {"idle", "queued"}
    BY <1>4, EndsAlone DEF EnsureEnds, Steps
  <2> QED BY <1>s, <2>1, <2>2, <2>3, <2>4, GoesOn
<1>5. ASSUME NEW ok \in BOOLEAN, PushEnds(ok) PROVE IInv'
  <2>1. Goes({}) /\ UNCHANGED override
    BY <1>5, AfterPushGoes DEF PushEnds
  <2>2. mode' \in Modes /\ known' \in Modes
    BY <1>5, <1>t, WantedTyped DEF PushEnds, OtherTypes
  <2>3. HeldInv' /\ held' \in BOOLEAN
    BY <1>5, <1>t DEF PushEnds, HeldInv
  <2>4. drifted' \in BOOLEAN
    BY <1>5, <1>t DEF PushEnds, OtherTypes
  <2>5. OtherTypes'
    BY <1>5, <2>1, <2>2, <2>3, <2>4, <1>t DEF PushEnds, OtherTypes, options
  <2>6. Check \notin wants /\ at[Restorer] \in {"idle", "queued"}
    BY <1>5, EndsAlone DEF PushEnds, Steps
  <2> QED BY <1>s, <2>1, <2>3, <2>5, <2>6, GoesOn
<1> QED BY <1>1, <1>2, <1>3, <1>4, <1>5

(* The check's verdict on what it read.  Nobody can be waiting for the     *)
(* Device when it decides on a correction, so it gets the Device at once;  *)
(* and if what it read is a manual mode the user commanded, an override    *)
(* has run out.                                                            *)
LEMMA ReadStep ==
  ASSUME IInv, NEW s \in Modes \cup {None}, NEW d \in BOOLEAN, ReadEnds(s, d)
  PROVE  IInv'
<1>t. StepTypes /\ OtherTypes /\ LockInv /\ HeldInv
  BY TypesSplit DEF IInv
<1>1. UNCHANGED <<options, fixture, closing, quiet>>
  BY DEF ReadEnds
<1>2. known' \in Modes /\ HeldInv'
  BY <1>t, <1>1 DEF ReadEnds, Readable, HeldInv, OtherTypes, fixture
<1>3. Check \notin wants /\ at[Restorer] \in {"idle", "queued"} /\ inside = {Check}
  BY EndsAlone DEF ReadEnds, Ends, Steps
<1>4. CASE Ends(Check, "reread") /\ AfterReread(s, d)
  <2>1. Goes({"push"}) /\ UNCHANGED override
    BY <1>4, AfterRereadGoes
  <2>2. OtherTypes'
    BY <1>1, <1>2, <2>1, <1>t DEF OtherTypes, options, fixture
  <2> QED BY <1>2, <1>3, <2>1, <2>2, GoesOn DEF Steps
<1>5. CASE Ends(Check, "read") /\ AfterRead(s, d)
  <2>1. Goes({"ensure", "push"})
    BY <1>5, AfterReadGoes
  <2>2. override' \in Override
    BY <1>5, <1>t DEF AfterRead, Judge, OtherTypes, Override
  <2>3. OtherTypes'
    BY <1>1, <1>2, <2>2, <1>t DEF OtherTypes, options, fixture
  <2>4. StepTypes' /\ LockInv'
    BY <1>3, <1>t, <2>1, GoesKeeps DEF Steps
  <2>5. ASSUME Readers = {}, at'[Check] = "ensure"
        PROVE  /\ Check \notin wants'
               /\ held' /\ expected' = "scheduled" => override' = "expired"
    <3>1. AskFor("ensure") /\ ~PriorityPending /\ Judge(s, d) /\ s # None /\ ~closing
      <4>1. ASSUME NEW v, Finish(v) PROVE FALSE
        BY <2>5, <4>1, <1>t DEF Finish, StepTypes, Guardians
      <4>2. ASSUME AskFor("push") PROVE FALSE
        BY <2>5, <4>2, <1>t DEF AskFor, StepTypes, Guardians
      <4>3. ASSUME Settle(s, d, "ok") PROVE FALSE
        BY <4>1, <4>2, <4>3 DEF Settle, StandAsideOr
      <4>4. ~PriorityPending /\ Judge(s, d) /\ s # None
        BY <1>5, <4>1 DEF AfterRead
      <4>5. AskFor("ensure")
        BY <4>1, <4>3, <4>4 DEF Judge
      <4>6. ~closing
        BY <2>5, <4>5, <1>t DEF AskFor, StepTypes, Guardians
      <4> QED BY <4>4, <4>5, <4>6
    <3>2. wants = {}
      <4>1. Restorer \notin wants
        BY <1>3, <1>t DEF StepTypes, Guardians, Steps
      <4>2. User \notin wants
        BY <3>1 DEF PriorityPending
      <4> QED BY <1>3, <2>5, <4>1, <4>2, <1>t DEF StepTypes, Tasks, Guardians
    <3>3. Check \notin wants'
      BY <1>3, <3>1, <3>2 DEF AskFor
    <3>4. held' /\ expected' = "scheduled" => override' = "expired"
      <4> SUFFICES ASSUME held, expected = "scheduled" PROVE override' = "expired"
        BY <1>1 DEF fixture, options
      <4>1. s = "manual" /\ Wanted = "scheduled"
        BY <3>1, <1>t DEF ReadEnds, Readable, HeldInv, Wanted
      <4>2. ASSUME NEW v, Finish(v) PROVE FALSE
        BY <2>5, <4>2, <1>t DEF Finish, StepTypes, Guardians
      <4> QED BY <3>1, <4>1, <4>2 DEF Judge
    <3> QED BY <3>3, <3>4
  <2>6. EnsureReady' /\ EnsureArmed'
    BY <2>5 DEF EnsureReady, EnsureArmed
  <2>7. TypeOK'
    BY <2>3, <2>4 DEF TypeOK, StepTypes, OtherTypes
  <2> QED BY <1>2, <2>4, <2>6, <2>7 DEF IInv
<1> QED BY <1>4, <1>5 DEF ReadEnds

-----------------------------------------------------------------------------
(* A step that is cut short leaves the Device.                             *)
LEMMA CutShortKeeps ==
  ASSUME IInv, NEW t \in Guardians, CutShort(t),
         \/ at' = at
         \/ \E a \in {"idle", "abort"} :
              /\ at' = [at EXCEPT ![t] = a]
              /\ a = "abort" => at[t] \in Steps,
         UNCHANGED <<options, recorded, override, known, closing, quiet>>
  PROVE  IInv'
<1>t. StepTypes /\ OtherTypes /\ LockInv /\ HeldInv /\ EnsureReady /\ EnsureArmed
  BY TypesSplit DEF IInv
<1>1. wants' = wants \ {t} /\ inside' = inside \ {t} /\ held' = (held /\ mode' = mode)
  BY DEF CutShort
<1>2. mode' \in Modes /\ drifted' \in BOOLEAN
  BY <1>t, WantedTyped DEF CutShort, OtherTypes
<1>3. HeldInv' /\ held' \in BOOLEAN /\ (held' => held)
  BY <1>1, <1>t DEF HeldInv
<1>4. OtherTypes'
  BY <1>2, <1>3, <1>t DEF OtherTypes, options
<1>5. /\ at' \in [Guardians -> At]
      /\ \A u \in Guardians : u # t => at'[u] = at[u]
      /\ at'[t] = at[t] \/ at'[t] = "idle" \/ (at'[t] = "abort" /\ at[t] \in Steps)
  BY <1>t DEF StepTypes, At
<1>6. StepTypes'
  <2>1. \A u \in Guardians \cap (wants' \cup inside') : at'[u] \in Steps
    BY <1>1, <1>5, <1>t DEF StepTypes
  <2> QED BY <1>1, <1>5, <2>1, <1>t DEF StepTypes, recorded
<1>7. LockInv'
  BY <1>1, <1>5, <1>t DEF LockInv, Apart, OneInside, OneBusy, Guardians, Steps
<1>8. EnsureReady' /\ EnsureArmed'
  BY <1>1, <1>3, <1>5, <1>t DEF EnsureReady, EnsureArmed, Guardians, options
<1>9. TypeOK'
  BY <1>4, <1>6 DEF TypeOK, StepTypes, OtherTypes
<1> QED BY <1>3, <1>7, <1>8, <1>9 DEF IInv

LEMMA GuardianStep ==
  ASSUME IInv,
         \/ \E t \in Guardians : Call(t) \/ StepBegins(t) \/ StepTimeout(t) \/ Cancelled(t)
         \/ CheckTimeout
  PROVE  IInv'
<1>t. StepTypes /\ OtherTypes /\ LockInv /\ HeldInv /\ EnsureReady /\ EnsureArmed
  BY TypesSplit DEF IInv
<1>0. Check \in Guardians /\ Restorer \in Guardians /\ Check # Restorer
  BY DEF Guardians
<1>1. ASSUME NEW t \in Guardians, Call(t) PROVE IInv'
  <2>1. /\ at[t] = "idle" /\ at' = [at EXCEPT ![t] = "queued"]
        /\ UNCHANGED <<options, recorded, override, wants, inside, env>>
    BY <1>1 DEF Call
  <2>2. OtherTypes' /\ HeldInv'
    BY <2>1, <1>t DEF OtherTypes, HeldInv, options, env, fixture
  <2>3. StepTypes'
    BY <2>1, <1>t DEF StepTypes, At, Steps, recorded
  <2>4. LockInv' /\ EnsureReady' /\ EnsureArmed'
    BY <1>0, <2>1, <1>t DEF LockInv, Apart, OneInside, OneBusy, EnsureReady, EnsureArmed,
       StepTypes, options, env, fixture
  <2>5. TypeOK'
    BY <2>2, <2>3 DEF TypeOK, StepTypes, OtherTypes
  <2> QED BY <2>2, <2>4, <2>5 DEF IInv
<1>2. ASSUME NEW t \in Guardians, StepBegins(t) PROVE IInv'
  <2>1. /\ t \in wants /\ inside = {} /\ inside' = {t} /\ wants' = wants \ {t}
        /\ UNCHANGED <<options, at, recorded, override, env>>
    BY <1>2 DEF StepBegins, Lock!Begin, Lock!MayBegin
  <2>2. OtherTypes' /\ HeldInv'
    BY <2>1, <1>t DEF OtherTypes, HeldInv, options, env, fixture
  <2>3. StepTypes'
    BY <2>1, <1>t DEF StepTypes, recorded
  <2>4. LockInv' /\ EnsureReady' /\ EnsureArmed'
    BY <1>0, <2>1, <1>t DEF LockInv, Apart, OneInside, OneBusy, EnsureReady, EnsureArmed,
       options, env, fixture
  <2>5. TypeOK'
    BY <2>2, <2>3 DEF TypeOK, StepTypes, OtherTypes
  <2> QED BY <2>2, <2>4, <2>5 DEF IInv
<1>3. ASSUME NEW t \in Guardians, StepTimeout(t) PROVE IInv'
  <2>1. CutShort(t) /\ at' = at /\ UNCHANGED <<options, recorded, override, known, closing, quiet>>
    BY <1>3 DEF StepTimeout
  <2> QED BY <2>1, CutShortKeeps
<1>4. ASSUME NEW t \in Guardians, Cancelled(t) PROVE IInv'
  <2>1. /\ CutShort(t) /\ at' = [at EXCEPT ![t] = "idle"]
        /\ UNCHANGED <<options, recorded, override, known, closing, quiet>>
    BY <1>4 DEF Cancelled
  <2> QED BY <2>1, CutShortKeeps
<1>5. CASE CheckTimeout
  <2>1. /\ CutShort(Check) /\ at' = [at EXCEPT ![Check] = "abort"] /\ at[Check] \in Steps
        /\ UNCHANGED <<options, recorded, override, known, closing, quiet>>
    BY <1>5 DEF CheckTimeout
  <2> QED BY <1>0, <2>1, CutShortKeeps
<1> QED BY <1>1, <1>2, <1>3, <1>4, <1>5

(* The return to schedule.                                                 *)
LEMMA RestorerStep ==
  ASSUME IInv, EndBegins \/ EndResetEnds \/ \E ok \in BOOLEAN : EndEnsureEnds(ok)
  PROVE  IInv'
<1>t. StepTypes /\ OtherTypes /\ LockInv /\ HeldInv /\ EnsureReady /\ EnsureArmed
  BY TypesSplit DEF IInv
<1>0. Check \in Guardians /\ Restorer \in Guardians /\ Check # Restorer
  BY DEF Guardians
<1>1. CASE EndBegins
  <2>1. /\ at[Restorer] = "queued" /\ at[Check] \in {"idle", "queued"}
        /\ Restorer \notin wants \cup inside
        /\ UNCHANGED <<options, recorded, env>>
    BY <1>0, <1>1, <1>t DEF EndBegins, CheckLockFree, StepTypes, Steps
  <2>2. \/ /\ at' = [at EXCEPT ![Restorer] = "idle"] /\ UNCHANGED <<wants, inside>>
           /\ override' \in {override, "none"}
        \/ /\ at' = [at EXCEPT ![Restorer] = "ensure"] /\ override' = override
           /\ \/ inside = {} /\ wants = {} /\ inside' = {Restorer} /\ wants' = wants
              \/ wants' = wants \cup {Restorer} /\ inside' = inside
    BY <1>1 DEF EndBegins
  <2>3. OtherTypes' /\ HeldInv'
    BY <2>1, <2>2, <1>t DEF OtherTypes, HeldInv, options, env, fixture, Override
  <2>4. at' \in [Guardians -> At] /\ at'[Check] = at[Check] /\ at'[Restorer] \in {"idle", "ensure"}
    BY <1>0, <2>2, <1>t DEF StepTypes, At, Steps
  <2>5. \A t \in Guardians \cap (wants' \cup inside') : at'[t] \in Steps
    BY <1>0, <2>1, <2>2, <2>4, <1>t DEF StepTypes, Guardians, Steps
  <2>6. StepTypes'
    BY <1>0, <2>1, <2>2, <2>4, <2>5, <1>t DEF StepTypes, recorded, Tasks
  <2>7. LockInv'
    BY <2>1, <2>2, <2>4, <1>t DEF LockInv, Apart, OneInside, OneBusy
  <2>8. EnsureReady' /\ EnsureArmed'
    BY <2>1, <2>4 DEF EnsureReady, EnsureArmed
  <2>9. TypeOK'
    BY <2>3, <2>6 DEF TypeOK, StepTypes, OtherTypes
  <2> QED BY <2>3, <2>7, <2>8, <2>9 DEF IInv
<1>2. ASSUME NEW ok \in BOOLEAN, EndResult(ok), at[Restorer] \in Steps \cup {"abort"},
             Restorer \notin wants, UNCHANGED wants, inside' = inside \ {Restorer},
             UNCHANGED options, OtherTypes', HeldInv'
      PROVE  IInv'
  <2>1. at' = [at EXCEPT ![Restorer] = "idle"]
    BY <1>2 DEF EndResult
  <2>2. failures' \in 0 .. Cap /\ unreachable' \in 0 .. Cap
    BY <1>2, <1>t, BumpStays DEF EndResult, StepTypes, recorded
  <2>3. at' \in [Guardians -> At] /\ at'[Check] = at[Check] /\ at'[Restorer] = "idle"
    BY <1>0, <2>1, <1>t DEF StepTypes, At
  <2>4. \A t \in Guardians \cap (wants' \cup inside') : at'[t] \in Steps
    BY <1>0, <1>2, <2>3, <1>t DEF StepTypes, Guardians
  <2>5. StepTypes'
    BY <1>2, <2>2, <2>3, <2>4, <1>t DEF StepTypes
  <2>6. at[Check] \in {"idle", "queued"}
    BY <1>2, <1>t DEF LockInv, OneBusy, Steps
  <2>7. LockInv' /\ EnsureReady' /\ EnsureArmed'
    BY <1>2, <2>3, <2>6, <1>t DEF LockInv, Apart, OneInside, OneBusy, EnsureReady, EnsureArmed
  <2>8. TypeOK'
    BY <1>2, <2>5 DEF TypeOK, StepTypes, OtherTypes
  <2> QED BY <1>2, <2>7, <2>8 DEF IInv
<1>3. CASE EndResetEnds
  <2>1. /\ EndResult(FALSE) /\ at[Restorer] \in Steps \cup {"abort"}
        /\ Restorer \notin wants /\ Restorer \notin inside
        /\ UNCHANGED <<options, wants, inside, env>>
    BY <1>3 DEF EndResetEnds, Resetting
  <2>2. OtherTypes' /\ HeldInv'
    BY <2>1, <1>t DEF EndResult, OtherTypes, HeldInv, options, env, fixture, Override
  <2>3. inside' = inside \ {Restorer}
    BY <2>1
  <2> QED BY <1>2, <2>1, <2>2, <2>3
<1>4. ASSUME NEW ok \in BOOLEAN, EndEnsureEnds(ok) PROVE IInv'
  <2>1. /\ EndResult(ok) /\ at[Restorer] = "ensure" /\ inside = {Restorer} /\ inside' = {}
        /\ EnsureMode(ok) /\ UNCHANGED <<options, wants, drifted, closing, quiet>>
    BY <1>4 DEF EndEnsureEnds, Ends
  <2>2. mode' \in Modes /\ known' \in Modes /\ held' \in BOOLEAN /\ HeldInv'
    BY <2>1, <1>t, EnsureModeKeeps
  <2>3. OtherTypes'
    BY <2>1, <2>2, <1>t DEF EndResult, OtherTypes, options, Override
  <2>4. inside' = inside \ {Restorer} /\ Restorer \notin wants
    BY <2>1, <1>t DEF LockInv, Apart
  <2> QED BY <1>2, <2>1, <2>2, <2>3, <2>4 DEF Steps
<1> QED BY <1>1, <1>3, <1>4

-----------------------------------------------------------------------------
(* Users, readbacks, the fixture and the shutdown touch no guardian task:  *)
(* what is left of the invariant to show is about the Device and held.     *)
LEMMA WorldKeeps ==
  ASSUME IInv, UNCHANGED <<at, recorded>>, OtherTypes', HeldInv',
         wants' \subseteq Tasks, inside' \subseteq Tasks, Apart', OneInside',
         \A t \in Guardians : t \in wants' \cup inside' => t \in wants \cup inside,
         Check \in wants' => Check \in wants,
         EnsureArmed'
  PROVE  IInv'
<1>t. StepTypes /\ OtherTypes /\ LockInv /\ EnsureReady
  BY TypesSplit DEF IInv
<1>1. StepTypes'
  BY <1>t DEF StepTypes, recorded
<1>2. LockInv' /\ EnsureReady'
  BY <1>t DEF LockInv, OneBusy, EnsureReady
<1>3. TypeOK'
  BY <1>1 DEF TypeOK, StepTypes, OtherTypes
<1> QED BY <1>2, <1>3 DEF IInv

LEMMA WorldStep ==
  ASSUME IInv, WorldNext
  PROVE  IInv'
<1>t. StepTypes /\ OtherTypes /\ LockInv /\ HeldInv /\ EnsureReady /\ EnsureArmed
  BY TypesSplit DEF IInv
<1>d. wants \subseteq Tasks /\ inside \subseteq Tasks /\ Apart /\ OneInside
  BY <1>t DEF StepTypes, LockInv
<1>0. /\ User \in Tasks /\ User \notin Guardians /\ Check \in Guardians
      /\ \A r \in Readers : r \in Tasks /\ r \notin Guardians
  BY DEF Tasks, Guardians
<1>1. ASSUME NEW t \in Tasks \ Guardians, Lock!Want(t),
             UNCHANGED <<options, at, recorded, override, env>>
      PROVE  IInv'
  <2>1. OtherTypes' /\ HeldInv' /\ EnsureArmed'
    BY <1>0, <1>1, <1>t DEF Lock!Want, OtherTypes, HeldInv, EnsureArmed, options, env, fixture
  <2>2. Apart' /\ OneInside' /\ wants' \subseteq Tasks /\ inside' \subseteq Tasks
    BY <1>1, <1>d DEF Lock!Want, Apart, OneInside
  <2> QED BY <1>0, <1>1, <2>1, <2>2, WorldKeeps DEF Lock!Want
<1>2. ASSUME NEW t \in Tasks \ Guardians, t \in wants, Lock!Begin(t),
             UNCHANGED <<options, at, recorded, override, env>>
      PROVE  IInv'
  <2>1. OtherTypes' /\ HeldInv' /\ EnsureArmed'
    BY <1>0, <1>2, <1>t DEF Lock!Begin, OtherTypes, HeldInv, EnsureArmed, options, env, fixture
  <2>2. Apart' /\ OneInside' /\ wants' \subseteq Tasks /\ inside' \subseteq Tasks
    BY <1>2, <1>d DEF Lock!Begin, Apart, OneInside
  <2> QED BY <1>0, <1>2, <2>1, <2>2, WorldKeeps DEF Lock!Begin
<1>3. CASE UserGivesUp
  <2>1. OtherTypes' /\ HeldInv' /\ EnsureArmed'
    BY <1>3, <1>t DEF UserGivesUp, Lock!GiveUp, OtherTypes, HeldInv, EnsureArmed, options, env, fixture
  <2>2. Apart' /\ OneInside' /\ wants' \subseteq Tasks /\ inside' \subseteq Tasks
    BY <1>3, <1>d DEF UserGivesUp, Lock!GiveUp, Apart, OneInside
  <2> QED BY <1>0, <1>3, <2>1, <2>2, WorldKeeps DEF UserGivesUp, Lock!GiveUp
<1>4. ASSUME NEW m \in Modes, UserEnds(m) PROVE IInv'
  <2>1. User \in inside /\ inside' = inside \ {User} /\ wants' = wants
    BY <1>4 DEF UserEnds, Lock!End
  <2>2. mode' \in Modes /\ known' \in Modes
    BY <1>4, <1>t DEF UserEnds, OtherTypes
  <2>3. HeldInv' /\ held' \in BOOLEAN
    BY <1>4, <1>t DEF UserEnds, HeldInv, OtherTypes
  <2>4. OtherTypes'
    BY <1>4, <2>2, <2>3, <1>t DEF UserEnds, OtherTypes, options
  <2>5. Check \notin inside'
    BY <1>0, <2>1, <1>d DEF OneInside
  <2>6. Apart' /\ OneInside' /\ wants' \subseteq Tasks /\ inside' \subseteq Tasks
    BY <2>1, <1>d DEF Apart, OneInside
  <2>7. EnsureArmed'
    BY <2>5 DEF EnsureArmed
  <2> QED BY <1>4, <2>1, <2>3, <2>4, <2>6, <2>7, WorldKeeps DEF UserEnds
<1>5. ASSUME NEW r \in Readers, ReaderEnds(r) PROVE IInv'
  <2>1. r \in inside /\ inside' = inside \ {r} /\ wants' = wants
    BY <1>5 DEF ReaderEnds, Lock!End
  <2>2. drifted' \in BOOLEAN /\ known' \in Modes /\ HeldInv'
    BY <1>5, <1>t DEF ReaderEnds, OtherTypes, HeldInv
  <2>3. OtherTypes'
    BY <1>5, <2>2, <1>t DEF ReaderEnds, OtherTypes, options
  <2>4. Apart' /\ OneInside' /\ wants' \subseteq Tasks /\ inside' \subseteq Tasks
    BY <2>1, <1>d DEF Apart, OneInside
  <2>5. EnsureArmed'
    BY DEF EnsureArmed
  <2> QED BY <1>5, <2>1, <2>2, <2>3, <2>4, <2>5, WorldKeeps DEF ReaderEnds
<1>6. ASSUME NEW m \in Modes, NEW d \in BOOLEAN, Drift(m, d) PROVE IInv'
  <2>1. /\ mode' = m /\ drifted' = d /\ held' = (held /\ m = mode)
        /\ UNCHANGED <<options, at, recorded, override, wants, inside, known, closing, quiet>>
    BY <1>6 DEF Drift
  <2>2. held' \in BOOLEAN /\ (held' => held) /\ HeldInv'
    BY <2>1, <1>t DEF HeldInv
  <2>3. OtherTypes'
    BY <2>1, <2>2, <1>t DEF OtherTypes, options
  <2>4. EnsureArmed'
    BY <2>1, <2>2, <1>t DEF EnsureArmed, options
  <2>5. Apart' /\ OneInside'
    BY <2>1, <1>d DEF Apart, OneInside
  <2> QED BY <2>1, <2>2, <2>3, <2>4, <2>5, <1>d, WorldKeeps
<1>7. ASSUME UNCHANGED <<options, at, recorded, wants, inside, fixture, quiet>>,
             OtherTypes', HeldInv', override' # override => override' = "expired"
      PROVE  IInv'
  <2>1. Apart' /\ OneInside' /\ EnsureArmed'
    BY <1>7, <1>t, <1>d DEF Apart, OneInside, EnsureArmed, options, fixture
  <2> QED BY <1>7, <2>1, <1>d, WorldKeeps
<1>8. CASE Notified
  <2>1. OtherTypes' /\ HeldInv'
    BY <1>8, <1>t DEF Notified, OtherTypes, HeldInv, options, fixture
  <2> QED BY <1>7, <1>8, <2>1 DEF Notified
<1>9. CASE GraceExpires
  <2>1. OtherTypes' /\ HeldInv'
    BY <1>9, <1>t DEF GraceExpires, OtherTypes, HeldInv, options, env, fixture, Override
  <2> QED BY <1>7, <1>9, <2>1 DEF GraceExpires, env
<1>10. CASE Close
  <2>1. OtherTypes' /\ HeldInv'
    BY <1>10, <1>t DEF Close, OtherTypes, HeldInv, options, fixture
  <2> QED BY <1>7, <1>10, <2>1 DEF Close
<1>11. CASE FallQuiet
  <2>1. OtherTypes' /\ HeldInv' /\ EnsureArmed'
    BY <1>11, <1>t DEF FallQuiet, OtherTypes, HeldInv, EnsureArmed, options, fixture
  <2>2. Apart' /\ OneInside' /\ UNCHANGED <<at, recorded, wants, inside>>
    BY <1>11, <1>d DEF FallQuiet, Apart, OneInside
  <2> QED BY <2>1, <2>2, <1>d, WorldKeeps
<1>12. CASE UserAsks \/ UserBegins
  BY <1>0, <1>1, <1>2, <1>12 DEF UserAsks, UserBegins
<1>13. ASSUME NEW r \in Readers, ReaderAsks(r) \/ ReaderBegins(r) PROVE IInv'
  BY <1>0, <1>1, <1>2, <1>13 DEF ReaderAsks, ReaderBegins
<1> QED BY <1>3, <1>4, <1>5, <1>6, <1>8, <1>9, <1>10, <1>11, <1>12, <1>13 DEF WorldNext

(* Every step keeps the invariant.                                         *)
LEMMA Inductive == ASSUME IInv, [Next]_vars PROVE IInv'
<1>1. CASE UNCHANGED vars
  BY <1>1 DEF vars, options, recorded, env, fixture, IInv, TypeOK, LockInv, Apart, OneInside,
     OneBusy, HeldInv, EnsureReady, EnsureArmed
<1>2. CASE GuardianNext
  BY <1>2, CheckStep, ReadStep, GuardianStep, RestorerStep DEF GuardianNext
<1>3. CASE WorldNext
  BY <1>3, WorldStep
<1> QED BY <1>1, <1>2, <1>3 DEF Next

(* In every reachable state the inductive invariant holds.                 *)
THEOREM GuardianInvariance == Spec => []IInv
BY InitHolds, Inductive, PTL DEF Spec

(* The state keeps its types: in particular a guardian task that waits for *)
(* the Device or has it is always at one of its steps.                     *)
THEOREM TypeCorrect == Spec => []TypeOK
<1>1. IInv => TypeOK
  BY DEF IInv
<1> QED BY <1>1, GuardianInvariance, PTL

(* As long as no service reads a schedule back, a check takes the fixture  *)
(* out of a manual mode the user commanded only when an override it        *)
(* granted has run out.                                                    *)
THEOREM UserManualModeStands ==
  ASSUME Readers = {} PROVE Spec => NoUnarmedRestore
<1>1. IInv => (held /\ at[Check] = "ensure" /\ inside = {Check}
                 => override = "expired" \/ expected # "scheduled")
  BY DEF IInv, EnsureArmed
<1>2. IInv /\ [Next]_vars =>
        [held /\ ~held' /\ at[Check] = "ensure" /\ inside = {Check} /\ inside' # inside
           => override = "expired" \/ expected # "scheduled"]_vars
  BY <1>1
<1> QED BY <1>2, GuardianInvariance, PTL DEF Spec, NoUnarmedRestore

(* Once the Device is closing, nothing that was under way raises a problem.*)
THEOREM ShutdownIsSilent == Spec => ShutdownRaisesNothing
<1> DEFINE Silent == closing /\ Problem' => Problem
<1>1. ASSUME UNCHANGED recorded PROVE Silent
  BY <1>1 DEF Problem, recorded
<1>2. ASSUME IInv, NEW S \in SUBSET Steps, Goes(S), Check \notin wants, at[Restorer] \in {"idle", "queued"}
      PROVE  Silent
  <2>1. StepTypes /\ LockInv
    BY <1>2, TypesSplit DEF IInv
  <2>2. closing => UNCHANGED recorded
    BY <1>2, <2>1, GoesKeeps
  <2> QED BY <1>1, <2>2
<1>3. ASSUME NEW ok \in BOOLEAN, EndResult(ok) PROVE Silent
  BY <1>3 DEF EndResult, Problem, recorded
<1>4. \A x \in {{}, {"read"}, {"reread"}, {"push"}, {"ensure", "push"}} : x \in SUBSET Steps
  BY DEF Steps
<1>5. ASSUME IInv, ClockEnds PROVE Silent
  BY <1>2, <1>4, <1>5, AfterClockGoes, EndsAlone DEF ClockEnds, Steps
<1>6. ASSUME IInv, NEW s, NEW d, ReadEnds(s, d) PROVE Silent
  <2>1. Goes({"ensure", "push"}) \/ Goes({"push"})
    BY <1>6, AfterReadGoes, AfterRereadGoes DEF ReadEnds
  <2>2. Check \notin wants /\ at[Restorer] \in {"idle", "queued"}
    BY <1>6, EndsAlone DEF ReadEnds, Steps
  <2> QED BY <1>2, <1>4, <1>6, <2>1, <2>2
<1>7. ASSUME IInv, NEW ok, EnsureEnds(ok) \/ PushEnds(ok) PROVE Silent
  <2>1. Goes({"reread"}) \/ Goes({})
    BY <1>7, AfterEnsureGoes, AfterPushGoes DEF EnsureEnds, PushEnds
  <2>2. Check \notin wants /\ at[Restorer] \in {"idle", "queued"}
    BY <1>7, EndsAlone DEF EnsureEnds, PushEnds, Steps
  <2> QED BY <1>2, <1>4, <1>7, <2>1, <2>2
<1>8. ASSUME IInv, ResetEnds PROVE Silent
  <2>1. \/ Goes({"read"}) \/ Goes({"ensure", "push"}) \/ Goes({"reread"})
        \/ Goes({"push"}) \/ Goes({})
    <3>1. CASE Finish("unreachable")
      BY <3>1 DEF Goes
    <3> QED BY <1>8, <3>1, AfterClockGoes, AfterReadGoes, AfterEnsureGoes, AfterRereadGoes, AfterPushGoes
            DEF ResetEnds
  <2>2. Check \notin wants /\ at[Restorer] \in {"idle", "queued"}
    BY <1>8, ResetsAlone DEF ResetEnds
  <2> QED BY <1>2, <1>4, <1>8, <2>1, <2>2
<1>9. ASSUME CheckBegins PROVE Silent
  BY <1>1, <1>9 DEF CheckBegins, recorded
<1>10. ASSUME IInv, GuardianNext PROVE Silent
  <2>1. ASSUME NEW t \in Guardians, Call(t) \/ StepBegins(t) \/ StepTimeout(t) \/ Cancelled(t)
        PROVE  Silent
    BY <1>1, <2>1 DEF Call, StepBegins, StepTimeout, Cancelled
  <2>2. CASE CheckTimeout \/ EndBegins
    BY <1>1, <2>2 DEF CheckTimeout, EndBegins
  <2>3. CASE EndResetEnds \/ \E ok \in BOOLEAN : EndEnsureEnds(ok)
    BY <1>3, <2>3 DEF EndResetEnds, EndEnsureEnds
  <2> HIDE DEF Silent
  <2> QED BY <1>5, <1>6, <1>7, <1>8, <1>9, <1>10, <2>1, <2>2, <2>3 DEF GuardianNext
<1>11. ASSUME WorldNext PROVE Silent
  BY <1>1, <1>11 DEF WorldNext, UserAsks, UserBegins, UserGivesUp, UserEnds, Drift, ReaderAsks,
     ReaderBegins, ReaderEnds, Notified, GraceExpires, Close, FallQuiet
<1>12. IInv /\ [Next]_vars => [closing /\ Problem' => Problem]_vars
  BY <1>10, <1>11 DEF Next
<1> QED BY <1>12, GuardianInvariance, PTL DEF Spec, ShutdownRaisesNothing

-----------------------------------------------------------------------------
(* The runner (GuardianRunner): what triggers the checks.                  *)

(* Whoever has the lock ends the wait that a deferral began.               *)
HolderServes == holder # Nobody => ~deferred

(* A connect that is owed a check is noted where its runner will look.     *)
RerunNoted ==
  owed /\ ~shutdown /\ ~unloaded => rerun /\ holder \in Runners /\ phase[holder] = "first"

(* _unsub leaves no timer to fire.                                         *)
TimerGone == unloaded => ~retry

(* The inductive invariant.                                                *)
RunnerInv == RunnerTypeOK /\ OneTimer /\ DeferralRearmed /\ HolderServes /\ RerunNoted /\ TimerGone

LEMMA RunnerInitHolds == RunnerInit => RunnerInv
<1> SUFFICES ASSUME RunnerInit PROVE RunnerInv
  OBVIOUS
<1>1. phase \in [Callers -> {"idle", "first", "again"}]
  BY DEF RunnerInit
<1>2. holder \in Callers \cup {Nobody} /\ (holder # Nobody => phase[holder] # "idle")
  BY CallersDistinct DEF RunnerInit, Callers
<1>3. RunnerTypeOK
  <2>1. timers \in Nat
    BY DEF RunnerInit
  <2>2. /\ rerun \in BOOLEAN /\ retry \in BOOLEAN /\ shutdown \in BOOLEAN
        /\ unloaded \in BOOLEAN /\ owed \in BOOLEAN /\ deferred \in BOOLEAN
    BY Zenon DEF RunnerInit
  <2> QED
    BY <1>1, <1>2, <2>1, <2>2 DEF RunnerTypeOK
<1> QED
  BY <1>3 DEF RunnerInit, RunnerInv, OneTimer, DeferralRearmed, HolderServes, RerunNoted, TimerGone

(* A task that asks for the lock has it, or waits; the others go on.       *)
LEMMA Asking ==
  ASSUME RunnerInv, NEW t \in Callers, NEW call \in {"first", "again"},
         phase[t] = "idle", AsksForLock(t, call)
  PROVE  /\ phase' \in [Callers -> {"idle", "first", "again"}]
         /\ holder' \in Callers \cup {Nobody} /\ (holder' # Nobody => phase'[holder'] # "idle")
         /\ holder' \in {holder, t} /\ (holder # Nobody => holder' = holder)
         /\ holder # Nobody => phase'[holder] = phase[holder]
         /\ deferred' \in BOOLEAN /\ (deferred' => deferred)
         /\ holder' # Nobody => ~deferred'
         /\ Waiting \subseteq Waiting'
         /\ holder' = t \/ t \in Waiting'
<1> USE CallersDistinct DEF RunnerInv, RunnerTypeOK, HolderServes, AsksForLock, Callers
<1>1. phase' = [phase EXCEPT ![t] = call]
  OBVIOUS
<1>2. phase' \in [Callers -> {"idle", "first", "again"}]
  BY <1>1
<1>3. holder # t
  OBVIOUS
<1>4. CASE holder = Nobody /\ Waiting = {}
  BY <1>1, <1>2, <1>4 DEF Waiting
<1>5. CASE ~(holder = Nobody /\ Waiting = {})
  BY <1>1, <1>2, <1>3, <1>5 DEF Waiting
<1> QED
  BY <1>4, <1>5

(* _run_check_soon keeps the invariant, whatever has become of the timer.  *)
LEMMA Triggering ==
  ASSUME RunnerInv, NEW after \in BOOLEAN, RunCheckSoon(after), ~unloaded, UNCHANGED entry
  PROVE  /\ phase' \in [Callers -> {"idle", "first", "again"}]
         /\ holder' \in Callers \cup {Nobody} /\ (holder' # Nobody => phase'[holder'] # "idle")
         /\ rerun' \in BOOLEAN /\ owed' \in BOOLEAN /\ deferred' \in BOOLEAN
         /\ HolderServes' /\ RerunNoted'
         /\ deferred' /\ ~shutdown => deferred /\ (Waiting' \cap Runners # {})
<1> USE DEF RunCheckSoon, entry
<1>1. CASE shutdown /\ UNCHANGED <<phase, holder, rerun, owed, deferred>>
  BY <1>1 DEF RunnerInv, RunnerTypeOK, HolderServes, RerunNoted
<1>2. CASE /\ ~shutdown /\ holder # Nobody
           /\ rerun' = (rerun \/ after)
           /\ owed' = (owed \/ (after /\ holder \in Runners /\ phase[holder] = "first"))
           /\ UNCHANGED <<phase, holder, deferred>>
  BY <1>2 DEF RunnerInv, RunnerTypeOK, HolderServes, RerunNoted
<1>3. CASE /\ ~shutdown /\ holder = Nobody
           /\ \E r \in Runners : phase[r] = "idle" /\ AsksForLock(r, "first")
           /\ UNCHANGED <<rerun, owed>>
  <2>1. PICK r \in Runners : phase[r] = "idle" /\ AsksForLock(r, "first")
    BY <1>3
  <2>2. r \in Callers
    BY DEF Callers
  <2>3. ~owed
    BY <1>3, CallersDistinct DEF RunnerInv, RerunNoted
  <2>4. /\ phase' \in [Callers -> {"idle", "first", "again"}]
        /\ holder' \in Callers \cup {Nobody} /\ (holder' # Nobody => phase'[holder'] # "idle")
        /\ deferred' \in BOOLEAN /\ (deferred' => deferred)
        /\ holder' # Nobody => ~deferred'
        /\ holder' = r \/ r \in Waiting'
    BY <2>1, <2>2, Asking
  <2>5. r # Nobody
    BY CallersDistinct
  <2>6. deferred' => deferred /\ (Waiting' \cap Runners # {})
    BY <2>4, <2>5
  <2> QED
    BY <1>3, <2>3, <2>4, <2>6 DEF RunnerInv, RunnerTypeOK, HolderServes, RerunNoted
<1> QED
  BY <1>1, <1>2, <1>3

(* What is left to show of a trigger is its timer.                         *)
LEMMA Triggers ==
  ASSUME RunnerInv, NEW after \in BOOLEAN, RunCheckSoon(after), ~unloaded, UNCHANGED entry,
         retry' \in BOOLEAN, timers' \in Nat
  PROVE  RunnerTypeOK' /\ DeferralRearmed' /\ HolderServes' /\ RerunNoted'
<1>1. /\ phase' \in [Callers -> {"idle", "first", "again"}]
      /\ holder' \in Callers \cup {Nobody} /\ (holder' # Nobody => phase'[holder'] # "idle")
      /\ rerun' \in BOOLEAN /\ owed' \in BOOLEAN /\ deferred' \in BOOLEAN
      /\ HolderServes' /\ RerunNoted'
      /\ deferred' /\ ~shutdown => deferred /\ (Waiting' \cap Runners # {})
  BY Triggering
<1>2. shutdown' = shutdown /\ unloaded' = unloaded
  BY DEF entry
<1>3. RunnerTypeOK'
  BY <1>1, <1>2 DEF RunnerInv, RunnerTypeOK
<1>4. DeferralRearmed'
  BY <1>1, <1>2 DEF DeferralRearmed
<1> QED
  BY <1>1, <1>3, <1>4

(* _cancel_retry reaches every timer there is.                             *)
LEMMA OthersGone == RunnerInv => OtherTimers = 0
  BY DEF RunnerInv, RunnerTypeOK, OneTimer, OtherTimers

LEMMA NextHolds == RunnerInv /\ [RunnerNext]_runnerVars => RunnerInv'
<1> SUFFICES ASSUME RunnerInv, [RunnerNext]_runnerVars PROVE RunnerInv'
  OBVIOUS
<1> USE CallersDistinct DEF oneshot, entry
<1>1. CASE Interval
  <2>1. RunCheckSoon(FALSE) /\ ~unloaded /\ UNCHANGED <<oneshot, entry>>
    BY <1>1 DEF Interval
  <2>2. /\ retry' \in BOOLEAN /\ timers' \in Nat
        /\ retry' = retry /\ timers' = timers /\ unloaded' = unloaded
    BY <2>1 DEF RunnerInv, RunnerTypeOK
  <2>3. RunnerTypeOK' /\ DeferralRearmed' /\ HolderServes' /\ RerunNoted'
    BY <2>1, <2>2, Triggers
  <2> QED
    BY <2>2, <2>3 DEF RunnerInv, OneTimer, TimerGone
<1>2. CASE ConnectionChanged
  <2>1. RunCheckSoon(TRUE) /\ ~unloaded /\ UNCHANGED <<oneshot, entry>>
    BY <1>2 DEF ConnectionChanged
  <2>2. /\ retry' \in BOOLEAN /\ timers' \in Nat
        /\ retry' = retry /\ timers' = timers /\ unloaded' = unloaded
    BY <2>1 DEF RunnerInv, RunnerTypeOK
  <2>3. RunnerTypeOK' /\ DeferralRearmed' /\ HolderServes' /\ RerunNoted'
    BY <2>1, <2>2, Triggers
  <2> QED
    BY <2>2, <2>3 DEF RunnerInv, OneTimer, TimerGone
<1>3. CASE RetryNow
  <2>1. /\ RunCheckSoon(FALSE) /\ UNCHANGED entry
        /\ timers > 0 /\ timers' = timers - 1 /\ retry' = FALSE
    BY <1>3 DEF RetryNow
  <2>2. timers = 1 /\ ~unloaded
    BY <2>1 DEF RunnerInv, RunnerTypeOK, OneTimer, TimerGone
  <2>3. timers' = 0 /\ retry' = FALSE /\ unloaded' = unloaded
    <3>1. timers' = 0
      BY <2>1, <2>2
    <3> QED
      BY <3>1, <2>1, Zenon
  <2>4. RunnerTypeOK' /\ DeferralRearmed' /\ HolderServes' /\ RerunNoted'
    <3>1. retry' \in BOOLEAN
      BY <2>3, Zenon
    <3>2. timers' \in Nat
      BY <2>3
    <3> QED
      BY <2>1, <2>2, <3>1, <3>2, Triggers, Zenon
  <2>5. OneTimer' /\ TimerGone'
    BY <2>3, Zenon DEF OneTimer, TimerGone
  <2> QED
    BY <2>4, <2>5 DEF RunnerInv
<1>4. ASSUME NEW t \in Callers, LockGranted(t) PROVE RunnerInv'
  <2>1. phase[t] # "idle" /\ holder = Nobody /\ holder' = t /\ deferred' = FALSE
    BY <1>4 DEF LockGranted, Waiting
  <2>2. UNCHANGED <<phase, rerun, oneshot, entry, owed>>
    BY <1>4 DEF LockGranted
  <2>3. ~owed \/ shutdown \/ unloaded
    BY <2>1 DEF RunnerInv, RerunNoted, Callers
  <2>4. RunnerTypeOK'
    BY <2>1, <2>2 DEF RunnerInv, RunnerTypeOK
  <2>5. OneTimer' /\ TimerGone'
    BY <2>2 DEF RunnerInv, OneTimer, TimerGone
  <2>6. DeferralRearmed' /\ HolderServes' /\ RerunNoted'
    BY <2>1, <2>2, <2>3, Zenon DEF DeferralRearmed, HolderServes, RerunNoted
  <2> QED
    BY <2>4, <2>5, <2>6 DEF RunnerInv
<1>5. ASSUME NEW r \in Runners, NEW defers \in BOOLEAN, RunnerEnds(r, defers) PROVE RunnerInv'
  <2> DEFINE again == phase[r] = "first" /\ rerun
  <2>1. holder = r /\ ~unloaded /\ r \in Callers /\ UNCHANGED entry
    BY <1>5 DEF RunnerEnds, Callers
  <2>2. rerun' = (rerun /\ ~again) /\ owed' = (owed /\ ~again)
    BY <1>5 DEF RunnerEnds
  <2>3. RerunNoted'
    BY <2>1, <2>2 DEF RunnerInv, RunnerTypeOK, RerunNoted
  <2>4. CASE /\ again /\ ~shutdown
             /\ phase' = [phase EXCEPT ![r] = "again"]
             /\ holder' = IF Waiting = {} THEN r ELSE Nobody
             /\ deferred' = FALSE /\ UNCHANGED oneshot
    BY <2>1, <2>2, <2>3, <2>4 DEF RunnerInv, RunnerTypeOK, OneTimer, DeferralRearmed, HolderServes,
       TimerGone
  <2>5. CASE /\ ~again \/ shutdown
             /\ phase' = [phase EXCEPT ![r] = "idle"] /\ holder' = Nobody
             /\ deferred' = defers /\ Rearm(defers)
    <3>1. OneTimer' /\ timers' \in Nat /\ retry' = defers
      <4>1. CASE defers
        <5>1. retry' = TRUE /\ timers' = OtherTimers + 1
          BY <2>5, <4>1 DEF Rearm
        <5>2. timers' = 1
          BY <5>1, OthersGone
        <5> QED
          BY <4>1, <5>1, <5>2 DEF OneTimer
      <4>2. CASE ~defers
        <5>1. retry' = FALSE /\ timers' = 0
          BY <2>5, <4>2, OthersGone, Zenon DEF Rearm
        <5>2. OneTimer' /\ retry' = defers
          BY <4>2, <5>1, Zenon DEF OneTimer
        <5> QED
          BY <5>1, <5>2
      <4> QED
        BY <4>1, <4>2
    <3>2. rerun' \in BOOLEAN /\ owed' \in BOOLEAN /\ deferred' \in BOOLEAN
      BY <2>2, <2>5 DEF RunnerInv, RunnerTypeOK
    <3>3. RunnerTypeOK'
      BY <2>1, <2>5, <3>1, <3>2 DEF RunnerInv, RunnerTypeOK
    <3>4. DeferralRearmed' /\ HolderServes' /\ TimerGone'
      BY <2>1, <2>5, <3>1 DEF DeferralRearmed, HolderServes, TimerGone
    <3> QED
      BY <2>3, <3>1, <3>3, <3>4 DEF RunnerInv
  <2> QED
    BY <1>5, <2>4, <2>5 DEF RunnerEnds
<1>6. ASSUME NEW r \in Runners, RunnerCancelled(r) PROVE RunnerInv'
  BY <1>6 DEF RunnerCancelled, RunnerInv, RunnerTypeOK, OneTimer, DeferralRearmed, HolderServes,
     RerunNoted, TimerGone, Callers
<1>7. ASSUME NEW s \in Services, ServiceCalls(s) PROVE RunnerInv'
  <2>1. /\ s \in Callers /\ phase[s] = "idle" /\ AsksForLock(s, "first")
        /\ UNCHANGED <<rerun, oneshot, entry, owed>>
    BY <1>7 DEF ServiceCalls, Callers
  <2>2. RerunNoted'
    BY <2>1, Asking DEF RunnerInv, RerunNoted
  <2> QED
    BY <2>1, <2>2, Asking
       DEF RunnerInv, RunnerTypeOK, OneTimer, DeferralRearmed, HolderServes, TimerGone
<1>8. ASSUME NEW s \in Services, ServiceEnds(s) PROVE RunnerInv'
  <2>1. /\ s \in Callers /\ s \notin Runners
        /\ phase' = [phase EXCEPT ![s] = "idle"]
        /\ holder' = IF holder = s THEN Nobody ELSE holder
        /\ UNCHANGED <<rerun, oneshot, entry, owed, deferred>>
    BY <1>8 DEF ServiceEnds, Callers
  <2>2. Waiting \cap Runners \subseteq Waiting'
    BY <2>1 DEF RunnerInv, RunnerTypeOK, Waiting, Callers
  <2>3. RunnerTypeOK' /\ HolderServes' /\ RerunNoted'
    BY <2>1 DEF RunnerInv, RunnerTypeOK, HolderServes, RerunNoted
  <2> QED
    BY <2>1, <2>2, <2>3 DEF RunnerInv, OneTimer, DeferralRearmed, TimerGone
<1>9. CASE Unload
  <2>1. /\ unloaded' = TRUE /\ retry' = FALSE /\ timers' = OtherTimers
        /\ UNCHANGED <<phase, holder, rerun, shutdown, owed, deferred>>
    BY <1>9 DEF Unload
  <2>2. timers' = 0
    BY <2>1, OthersGone, Zenon
  <2>3. RunnerTypeOK'
    <3>1. retry' \in BOOLEAN /\ unloaded' \in BOOLEAN
      BY <2>1, Zenon
    <3>2. timers' \in Nat
      BY <2>2
    <3> QED
      BY <2>1, <3>1, <3>2, Zenon DEF RunnerInv, RunnerTypeOK
  <2>4. OneTimer' /\ TimerGone'
    BY <2>1, <2>2, Zenon DEF OneTimer, TimerGone
  <2>5. DeferralRearmed' /\ HolderServes' /\ RerunNoted'
    BY <2>1, Zenon DEF RunnerInv, DeferralRearmed, HolderServes, RerunNoted
  <2> QED
    BY <2>3, <2>4, <2>5 DEF RunnerInv
<1>10. CASE DeviceCloses
  BY <1>10 DEF DeviceCloses, RunnerInv, RunnerTypeOK, OneTimer, DeferralRearmed, HolderServes,
     RerunNoted, TimerGone
<1>11. CASE UNCHANGED runnerVars
  BY <1>11 DEF runnerVars, RunnerInv, RunnerTypeOK, OneTimer, DeferralRearmed, HolderServes,
     RerunNoted,
     TimerGone, Waiting
<1> QED
  BY <1>1, <1>2, <1>3, <1>4, <1>5, <1>6, <1>7, <1>8, <1>9, <1>10, <1>11 DEF RunnerNext

THEOREM Invariance == RunnerSpec => []RunnerInv
<1> QED
  BY RunnerInitHolds, NextHolds, PTL DEF RunnerSpec

-----------------------------------------------------------------------------
(* The types of the runner's state hold whoever calls async_check.         *)
THEOREM RunnerTypeCorrect == RunnerSpec => []RunnerTypeOK
<1>1. RunnerInv => RunnerTypeOK
  BY DEF RunnerInv
<1> QED
  BY <1>1, Invariance, PTL

(* One-shot timers are replaced, never stacked (_async_check_and_rearm).   *)
THEOREM TimersDoNotStack == RunnerSpec => []OneTimer
<1>1. RunnerInv => OneTimer
  BY DEF RunnerInv
<1> QED
  BY <1>1, Invariance, PTL

(* A check that deferred is tried again by its timer, unless somebody else *)
(* has had the lock by then.                                               *)
THEOREM DeferralsAreRetried == RunnerSpec => []DeferralRearmed
<1>1. RunnerInv => DeferralRearmed
  BY DEF RunnerInv
<1> QED
  BY <1>1, Invariance, PTL

(* A connect during a runner's first check is followed by a second one.    *)
THEOREM ConnectsAreFollowed == RunnerSpec => []RerunFollows
<1>1. RunnerInv => RerunFollows
  BY DEF RunnerInv, RerunNoted, RerunFollows
<1> QED
  BY <1>1, Invariance, PTL

(* No timer and no runner's check begins once the entry is unloaded.       *)
THEOREM UnloadSilences == RunnerSpec => SilentAfterUnload
<1>1. ASSUME RunnerInv, RunnerInv', [RunnerNext]_runnerVars, unloaded'
      PROVE  timers' = 0 /\ \A r \in Runners : holder' = r => holder = r
  <2>1. timers' = 0
    BY <1>1 DEF RunnerInv, RunnerTypeOK, OneTimer, TimerGone
  <2>2. ASSUME NEW r \in Runners, holder' = r PROVE holder = r
    <3>1. CASE UNCHANGED runnerVars
      BY <2>2, <3>1 DEF runnerVars
    <3>2. CASE Interval \/ ConnectionChanged \/ RetryNow
      <4>1. ~unloaded \/ timers > 0
        BY <3>2 DEF Interval, ConnectionChanged, RetryNow
      <4>2. unloaded' = unloaded
        BY <3>2 DEF Interval, ConnectionChanged, RetryNow, entry
      <4> QED
        BY <1>1, <4>1, <4>2 DEF RunnerInv, OneTimer, TimerGone
    <3>3. ASSUME NEW t \in Callers, LockGranted(t) PROVE holder = r
      BY <1>1, <2>2, <3>3 DEF LockGranted, entry
    <3>4. ASSUME NEW q \in Runners, NEW defers \in BOOLEAN, RunnerEnds(q, defers)
          PROVE  holder = r
      BY <1>1, <3>4 DEF RunnerEnds, entry
    <3>5. ASSUME NEW q \in Runners, RunnerCancelled(q) PROVE holder = r
      BY <2>2, <3>5, CallersDistinct DEF RunnerCancelled, Callers
    <3>6. ASSUME NEW s \in Services, ServiceCalls(s) PROVE holder = r
      BY <1>1, <3>6 DEF ServiceCalls, entry
    <3>7. ASSUME NEW s \in Services, ServiceEnds(s) PROVE holder = r
      BY <2>2, <3>7, CallersDistinct DEF ServiceEnds
    <3>8. CASE Unload \/ DeviceCloses
      BY <2>2, <3>8 DEF Unload, DeviceCloses
    <3> QED
      BY <1>1, <3>1, <3>2, <3>3, <3>4, <3>5, <3>6, <3>7, <3>8 DEF RunnerNext
  <2> QED
    BY <2>1, <2>2
<1>2. RunnerInv /\ RunnerInv' /\ [RunnerNext]_runnerVars =>
        [unloaded' => timers' = 0 /\ \A r \in Runners : holder' = r => holder = r]_runnerVars
  BY <1>1
<1> QED
  BY <1>2, Invariance, PTL DEF RunnerSpec, SilentAfterUnload
=============================================================================
