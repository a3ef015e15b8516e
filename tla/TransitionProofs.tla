-------------------------- MODULE TransitionProofs --------------------------
(***************************************************************************)
(* For any numbers of ramps, of other commands and of guardian tasks, any  *)
(* looks and interpolation between them, and ramps of any length: a ramp   *)
(* never writes over a newer command, and what it has shown stays until    *)
(* one begins.  No bound on the generation is used.                        *)
(***************************************************************************)
EXTENDS Transition, TLAPS

(* The command lock: at most one task is inside.                           *)
OneInside == \A s, t \in inside : s = t

(* A ramp is inside exactly while it applies a frame, and then it is the   *)
(* newest command.                                                         *)
Applying ==
  \A r \in Ramps :
    /\ r \in inside <=> stage[r] = "applying"
    /\ stage[r] = "applying" => latest = r

(* A ramp that goes on later: the generation it noted is current only if   *)
(* it is the newest command.                                               *)
Pending ==
  \A r \in Ramps :
    /\ captured[r] <= generation
    /\ stage[r] \in {"waiting", "sleeping"} /\ captured[r] = generation => latest = r

(* While somebody else's transaction runs, every ramp is overtaken; the    *)
(* user command inside is the newest.                                      *)
Overtaken ==
  \A t \in inside :
    /\ t \in Commands => latest = t
    /\ t \notin Ramps =>
         \A r \in Ramps : stage[r] \in {"waiting", "sleeping"} => captured[r] < generation

(* A ramp that has started knows the looks it goes from and to.            *)
Started ==
  \A r \in Ramps : stage[r] \in {"waiting", "applying", "sleeping"} =>
    from[r] \in Looks /\ goal[r] \in Looks

(* Once a ramp has settled the fixture in manual mode, the Device knows    *)
(* its mode and levels, and the last frame is what it shows.               *)
Settled ==
  /\ settled => latest \in Ramps /\ mode = "manual" /\ kmode = "manual" /\ klook = look
  /\ shown # None => settled /\ shown = look

(* The inductive invariant.                                                *)
Calls == OneInside /\ Applying /\ Pending /\ Overtaken /\ Started
IInv == TypeOK /\ Calls /\ Settled

(* The look of a frame is a look.                                          *)
LEMMA FrameIsLook ==
  ASSUME TypeOK, Started, NEW r \in Ramps, stage[r] \in {"waiting", "applying", "sleeping"}
  PROVE  NextFrame(r) \in Looks
<1>1. from[r] \in Looks /\ goal[r] \in Looks /\ step[r] + 1 \in 1 .. Steps
  BY StepsPositive DEF TypeOK, Started
<1>2. QED
  BY <1>1, LooksInterpolate DEF NextFrame, Frame

LEMMA InitHolds == Init => IInv
<1> SUFFICES ASSUME Init PROVE IInv
  OBVIOUS
<1>1. settled = FALSE /\ shown = None
  BY DEF Init
<1>2. TypeOK
  <2>1. /\ wants \subseteq Tasks /\ inside \subseteq Tasks /\ generation \in Nat
        /\ captured \in [Ramps -> Nat] /\ stage \in [Ramps -> Stage]
        /\ step \in [Ramps -> 0 .. Steps - 1]
    BY StepsPositive DEF Init, Lock!AInit, Stage
  <2>2. /\ from \in [Ramps -> Looks \cup {None}] /\ goal \in [Ramps -> Looks \cup {None}]
        /\ mode \in Modes /\ kmode \in Modes /\ look \in Looks /\ klook \in Looks
        /\ latest = None
    BY DEF Init
  <2>3. QED
    BY <1>1, <2>1, <2>2 DEF TypeOK
<1>3. Calls
  BY DEF Init, Lock!AInit, Calls, OneInside, Applying, Pending, Overtaken, Started
<1>4. QED
  BY <1>1, <1>2, <1>3 DEF IInv, Settled

(* A call that returns leaves the other ramps' variables alone.            *)
LEMMA ReturnTypes ==
  ASSUME TypeOK, NEW r \in Ramps, Returns(r)
  PROVE  /\ stage' \in [Ramps -> Stage] /\ captured' \in [Ramps -> Nat]
         /\ step' \in [Ramps -> 0 .. Steps - 1]
         /\ from' \in [Ramps -> Looks \cup {None}] /\ goal' \in [Ramps -> Looks \cup {None}]
         /\ stage'[r] = "idle" /\ captured'[r] = 0
         /\ \A q \in Ramps \ {r} :
              /\ stage'[q] = stage[q] /\ captured'[q] = captured[q] /\ step'[q] = step[q]
              /\ from'[q] = from[q] /\ goal'[q] = goal[q]
  BY StepsPositive DEF TypeOK, Returns, Stage

LEMMA FrameDoneTypes ==
  ASSUME TypeOK, Started, NEW r \in Ramps, FrameDone(r), settled' \in BOOLEAN,
         stage[r] \in {"waiting", "applying"}
  PROVE  /\ stage' \in [Ramps -> Stage] /\ captured' \in [Ramps -> Nat]
         /\ step' \in [Ramps -> 0 .. Steps - 1]
         /\ from' \in [Ramps -> Looks \cup {None}] /\ goal' \in [Ramps -> Looks \cup {None}]
         /\ \/ stage'[r] = "idle" /\ captured'[r] = 0
            \/ /\ stage'[r] = "sleeping" /\ captured'[r] = captured[r]
               /\ from'[r] = from[r] /\ goal'[r] = goal[r]
         /\ \A q \in Ramps \ {r} :
              /\ stage'[q] = stage[q] /\ captured'[q] = captured[q]
              /\ from'[q] = from[q] /\ goal'[q] = goal[q]
         /\ shown' = IF settled' THEN NextFrame(r) ELSE None
         /\ shown' \in Looks \cup {None}
<1>1. shown' = (IF settled' THEN NextFrame(r) ELSE None) /\ NextFrame(r) \in Looks
  BY FrameIsLook DEF FrameDone
<1>2. CASE Returns(r)
  BY <1>1, <1>2, ReturnTypes
<1>3. CASE step[r] + 1 < Steps
  BY <1>1, <1>3, StepsPositive DEF FrameDone, TypeOK, Stage
<1>4. QED
  BY <1>2, <1>3 DEF FrameDone

LEMMA RampStep ==
  ASSUME IInv, NEW r \in Ramps, RampNext(r)
  PROVE  IInv'
<1> USE TasksDisjoint, StepsPositive
        DEF Tasks, Users, Stage, Modes, Lock!MayBegin
<1>1. CASE AskRamp(r)
  BY <1>1 DEF AskRamp, Lock!Want, IInv, Calls, TypeOK, OneInside, Applying, Pending,
     Overtaken, Started, Settled, locals, fixture, known, newest
<1>2. CASE StartRamp(r)
  <2>1. TypeOK'
    BY <1>2 DEF StartRamp, Supersede, Newest, IInv, TypeOK, fixture, known
  <2>2. Calls'
    BY <1>2 DEF StartRamp, Supersede, Newest, IInv, Calls, TypeOK, OneInside, Applying,
       Pending, Overtaken, Started
  <2>3. Settled'
    BY <1>2 DEF StartRamp, Newest, Settled, fixture, known
  <2>4. QED
    BY <2>1, <2>2, <2>3 DEF IInv
<1>3. CASE BeginStep(r)
  BY <1>3 DEF BeginStep, Lock!Begin, IInv, Calls, TypeOK, OneInside, Applying, Pending,
     Overtaken, Started, Settled, locals, fixture, known, newest
<1>4. CASE SkipStep(r)
  <2>1. /\ stage[r] = "waiting" /\ latest = r /\ inside' = inside /\ wants' = wants \ {r}
        /\ inside = {} /\ klook = NextFrame(r) /\ FrameDone(r)
        /\ UNCHANGED <<generation, mode, look, kmode, klook, latest, settled>>
    BY <1>4 DEF SkipStep, IInv, Calls, Pending, fixture, known
  <2>2. settled' \in BOOLEAN
    BY <2>1 DEF IInv, TypeOK
  <2>3. TypeOK'
    BY <2>1, <2>2, FrameDoneTypes DEF IInv, Calls, TypeOK
  <2>4. Calls'
    BY <2>1, <2>2, FrameDoneTypes
       DEF IInv, Calls, TypeOK, OneInside, Applying, Pending, Overtaken, Started
  <2>5. Settled'
    BY <2>1, <2>2, FrameDoneTypes DEF IInv, Calls, Settled
  <2>6. QED
    BY <2>3, <2>4, <2>5 DEF IInv
<1>5. CASE Interrupted(r) \/ CancelRamp(r)
  <2>1. /\ Returns(r) /\ inside' = inside /\ wants' \subseteq wants /\ stage[r] # "applying"
        /\ UNCHANGED <<generation, mode, look, kmode, klook, latest, settled, shown>>
    BY <1>5 DEF Interrupted, CancelRamp, fixture, known, newest
  <2>2. TypeOK'
    BY <2>1, ReturnTypes DEF IInv, TypeOK
  <2>3. Calls'
    BY <2>1, ReturnTypes
       DEF IInv, Calls, TypeOK, OneInside, Applying, Pending, Overtaken, Started
  <2>4. Settled'
    BY <2>1 DEF IInv, Settled
  <2>5. QED
    BY <2>2, <2>3, <2>4 DEF IInv
<1>6. CASE ApplyStep(r)
  <2>1. /\ stage[r] = "applying" /\ latest = r /\ r \in inside /\ inside' = {}
        /\ FrameDone(r) /\ mode' = FrameMode
        /\ look' \in (IF klook = look THEN {NextFrame(r)} ELSE Looks)
        /\ kmode' = "manual" /\ klook' = NextFrame(r)
        /\ settled' = (settled \/ (FrameMode = "manual" /\ klook = look))
        /\ UNCHANGED <<wants, generation, latest>>
    BY <1>6 DEF ApplyStep, Lock!End, IInv, Calls, OneInside, Applying
  <2>2. settled' \in BOOLEAN /\ FrameMode \in Modes /\ NextFrame(r) \in Looks
    BY <2>1, FrameIsLook DEF IInv, Calls, TypeOK, FrameMode
  <2>3. TypeOK'
    BY <2>1, <2>2, FrameDoneTypes DEF IInv, Calls, TypeOK
  <2>4. Calls'
    BY <2>1, <2>2, FrameDoneTypes
       DEF IInv, Calls, TypeOK, OneInside, Applying, Pending, Overtaken, Started
  <2>5. settled' => FrameMode = "manual" /\ klook = look
    BY <2>1 DEF IInv, Settled, FrameMode
  <2>6. Settled'
    BY <2>1, <2>2, <2>5, FrameDoneTypes DEF IInv, Calls, Settled
  <2>7. QED
    BY <2>3, <2>4, <2>6 DEF IInv
<1>7. CASE FailStep(r)
  <2>1. /\ stage[r] = "applying" /\ r \in inside /\ inside' = {} /\ Returns(r)
        /\ mode' \in {mode, FrameMode} /\ look' \in Looks
        /\ kmode' \in {kmode, "manual"} /\ klook' \in {klook, NextFrame(r)}
        /\ settled' = FALSE /\ shown' = None
        /\ UNCHANGED <<wants, generation, latest>>
    BY <1>7 DEF FailStep, Lock!End, IInv, Calls, OneInside
  <2>2. FrameMode \in Modes /\ NextFrame(r) \in Looks
    BY <2>1, FrameIsLook DEF IInv, Calls, TypeOK, FrameMode
  <2>3. TypeOK'
    BY <2>1, <2>2, ReturnTypes DEF IInv, TypeOK
  <2>4. Calls'
    BY <2>1, ReturnTypes
       DEF IInv, Calls, TypeOK, OneInside, Applying, Pending, Overtaken, Started
  <2>5. QED
    BY <2>1, <2>3, <2>4 DEF IInv, Settled
<1>8. CASE NextStep(r)
  BY <1>8 DEF NextStep, Lock!Want, IInv, Calls, TypeOK, OneInside, Applying, Pending,
     Overtaken, Started, Settled, locals, fixture, known, newest
<1>9. QED
  BY <1>1, <1>2, <1>3, <1>4, <1>5, <1>6, <1>7, <1>8 DEF RampNext, GoesOn

(* What the Device learns of a settled fixture is what it knows.           *)
LEMMA LearnsSettled ==
  ASSUME TypeOK, Settled, Learns, UNCHANGED newest
  PROVE  /\ kmode' \in Modes /\ klook' \in Looks /\ mode' \in Modes /\ look' \in Looks
         /\ Settled'
  BY DEF TypeOK, Settled, Learns, fixture, newest, Modes

LEMMA OtherStep ==
  ASSUME IInv, NEW t \in Commands \cup Background, OtherNext(t)
  PROVE  IInv'
<1> USE TasksDisjoint, StepsPositive
        DEF Tasks, Users, Stage, Lock!MayBegin
<1>1. CASE Ask(t)
  BY <1>1 DEF Ask, Lock!Want, IInv, Calls, TypeOK, OneInside, Applying, Pending,
     Overtaken, Started, Settled, locals, fixture, known, newest
<1>2. CASE GiveUp(t)
  BY <1>2 DEF GiveUp, Lock!GiveUp, IInv, Calls, TypeOK, OneInside, Applying, Pending,
     Overtaken, Started, Settled, locals, fixture, known, newest
<1>3. CASE t \in Commands /\ BeginCommand(t)
  <2>1. settled' = FALSE /\ shown' = None
    BY <1>3 DEF BeginCommand, Newest
  <2>2. TypeOK'
    <3>1. /\ latest' = t /\ wants' = wants \ {t} /\ inside' = {t} /\ t \in Tasks
          /\ generation' = generation + 1
          /\ UNCHANGED <<stage, captured, step, from, goal, mode, look, kmode, klook>>
      BY <1>3 DEF BeginCommand, Supersede, Newest, Lock!Begin, IInv, TypeOK, locals, fixture, known
    <3>2. /\ wants' \subseteq Tasks /\ inside' \subseteq Tasks
          /\ latest' \in Tasks \cup {None}
      BY <3>1 DEF IInv, TypeOK
    <3>3. generation' \in Nat
      BY <3>1 DEF IInv, TypeOK
    <3>4. settled' \in BOOLEAN /\ shown' \in Looks \cup {None}
      BY <2>1
    <3>5. /\ captured' \in [Ramps -> Nat] /\ stage' \in [Ramps -> Stage]
          /\ step' \in [Ramps -> 0 .. Steps - 1]
          /\ from' \in [Ramps -> Looks \cup {None}] /\ goal' \in [Ramps -> Looks \cup {None}]
          /\ mode' \in Modes /\ kmode' \in Modes /\ look' \in Looks /\ klook' \in Looks
      BY <3>1 DEF IInv, TypeOK
    <3>6. QED
      BY <3>2, <3>3, <3>4, <3>5 DEF TypeOK
  <2>3. Calls'
    BY <1>3 DEF BeginCommand, Supersede, Newest, Lock!Begin, IInv, Calls, TypeOK, OneInside,
       Applying, Pending, Overtaken, Started, locals
  <2>4. QED
    BY <2>1, <2>2, <2>3 DEF IInv, Settled
<1>4. CASE EndCommand(t)
  <2>1. ~settled /\ shown = None
    BY <1>4 DEF EndCommand, Lock!End, IInv, Calls, Overtaken, Settled
  <2>2. QED
    BY <1>4, <2>1 DEF EndCommand, Lock!End, IInv, Calls, TypeOK, OneInside, Applying,
       Pending, Overtaken, Started, Settled, locals, newest
<1>5. CASE BeginBackground(t)
  BY <1>5 DEF BeginBackground, Supersede, Lock!Begin, IInv, Calls, TypeOK, OneInside,
     Applying, Pending, Overtaken, Started, Settled, locals, fixture, known, newest
<1>6. CASE EndSilent(t)
  <2>1. Learns /\ UNCHANGED newest /\ Lock!End(t) /\ UNCHANGED <<generation, stage, locals>>
    BY <1>6 DEF EndSilent, newest
  <2>2. Settled' /\ kmode' \in Modes /\ klook' \in Looks /\ mode' \in Modes /\ look' \in Looks
    BY <2>1, LearnsSettled DEF IInv
  <2>3. TypeOK' /\ Calls'
    BY <1>6, <2>1, <2>2 DEF EndSilent, Lock!End, IInv, Calls, TypeOK, OneInside, Applying,
       Pending, Overtaken, Started, locals, newest
  <2>4. QED
    BY <2>2, <2>3 DEF IInv
<1>7. CASE EndCorrection(t)
  <2>1. settled' = FALSE /\ shown' = None
    BY <1>7 DEF EndCorrection, Newest
  <2>2. TypeOK'
    BY <1>7, <2>1 DEF EndCorrection, Newest, Lock!End, IInv, TypeOK, locals, Modes
  <2>3. Calls'
    BY <1>7 DEF EndCorrection, Newest, Lock!End, IInv, Calls, TypeOK, OneInside,
       Applying, Pending, Overtaken, Started, locals
  <2>4. QED
    BY <2>1, <2>2, <2>3 DEF IInv, Settled
<1>8. QED
  BY <1>1, <1>2, <1>3, <1>4, <1>5, <1>6, <1>7 DEF OtherNext

LEMMA ReportStep == ASSUME IInv, Report PROVE IInv'
<1>1. Settled' /\ kmode' \in Modes /\ klook' \in Looks /\ mode' \in Modes /\ look' \in Looks
  BY LearnsSettled DEF Report, IInv, newest
<1>2. TypeOK' /\ Calls'
  BY <1>1 DEF Report, IInv, Calls, TypeOK, OneInside, Applying, Pending, Overtaken, Started,
     locals, newest
<1>3. QED
  BY <1>1, <1>2 DEF IInv

LEMMA StepHolds == IInv /\ [Next]_vars => IInv'
<1> SUFFICES ASSUME IInv, [Next]_vars PROVE IInv'
  OBVIOUS
<1>1. CASE UNCHANGED vars
  BY <1>1 DEF vars, IInv, Calls, TypeOK, OneInside, Applying, Pending, Overtaken, Started,
     Settled, locals, fixture, known, newest
<1>2. CASE Next
  BY <1>2, RampStep, OtherStep, ReportStep DEF Next
<1>3. QED
  BY <1>1, <1>2

(* In any reachable state the conjuncts of the inductive invariant hold.   *)
THEOREM RampInvariance == Spec => []IInv
  BY InitHolds, StepHolds, PTL DEF Spec

(* The ramps' variables keep their types; in particular no ramp applies    *)
(* more frames than it has.                                                *)
THEOREM TypeCorrect == Spec => []TypeOK
<1>1. IInv => TypeOK
  BY DEF IInv
<1>2. QED
  BY <1>1, RampInvariance, PTL

(* What a ramp has shown stays on the fixture, in manual mode, until a     *)
(* later command or correction begins, through frames that are skipped     *)
(* because the Device remembers their levels; from the frame on with which *)
(* the ramp has settled the fixture in manual mode                         *)
(* (_async_set_channels_now).                                              *)
THEOREM RampStays == Spec => []FrameStays
<1>1. IInv => FrameStays
  BY DEF IInv, Settled, FrameStays
<1>2. QED
  BY <1>1, RampInvariance, PTL

(* No frame of a ramp is sent, or skipped, once a later command or         *)
(* correction has begun (async_set_channels).                              *)
THEOREM RampYields == Spec => NewerCommandStands
<1>1. IInv /\ [Next]_vars =>
        [\A r \in Ramps : step'[r] > step[r] \/ r \in inside \ inside' => latest = r]_vars
  <2> SUFFICES ASSUME IInv, Next, NEW r \in Ramps,
                      step'[r] > step[r] \/ r \in inside \ inside'
               PROVE  latest = r
    OBVIOUS
  <2> USE TasksDisjoint DEF Users, Tasks
  <2>1. CASE r \in inside
    BY <2>1 DEF IInv, Calls, Applying
  <2>2. CASE step'[r] > step[r]
    <3>1. CASE UNCHANGED step
      BY <2>2, <3>1 DEF IInv, TypeOK
    <3>2. ASSUME NEW q \in Ramps, Returns(q) PROVE FALSE
      BY <2>2, <3>2, StepsPositive DEF Returns, IInv, TypeOK
    <3>3. ASSUME NEW q \in Ramps, FrameDone(q) PROVE q = r
      <4>1. step' = [step EXCEPT ![q] = step[q] + 1]
        BY <3>2, <3>3 DEF FrameDone
      <4>2. QED
        BY <2>2, <4>1 DEF IInv, TypeOK
    <3>4. ASSUME NEW q \in Ramps, RampNext(q) PROVE latest = r
      <4>1. CASE SkipStep(q)
        BY <3>3, <4>1 DEF SkipStep, IInv, Calls, Pending
      <4>2. CASE ApplyStep(q)
        BY <3>3, <4>2 DEF ApplyStep, IInv, Calls, Applying
      <4>3. CASE FailStep(q) \/ Interrupted(q) \/ CancelRamp(q)
        BY <3>2, <4>3 DEF FailStep, Interrupted, CancelRamp
      <4>4. CASE AskRamp(q) \/ StartRamp(q) \/ BeginStep(q) \/ NextStep(q)
        BY <3>1, <4>4 DEF AskRamp, StartRamp, BeginStep, NextStep, locals
      <4>5. QED
        BY <3>4, <4>1, <4>2, <4>3, <4>4 DEF RampNext, GoesOn
    <3>5. ASSUME NEW t \in Commands \cup Background, OtherNext(t) PROVE latest = r
      BY <3>1, <3>5 DEF OtherNext, Ask, GiveUp, BeginCommand, EndCommand, BeginBackground,
         EndSilent, EndCorrection, locals
    <3>6. CASE Report
      BY <3>1, <3>6 DEF Report, locals
    <3>7. QED
      BY <3>4, <3>5, <3>6 DEF Next
  <2>3. QED
    BY <2>1, <2>2
<1>2. QED
  BY <1>1, RampInvariance, PTL DEF Spec, NewerCommandStands
=============================================================================
