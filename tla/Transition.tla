----------------------------- MODULE Transition -----------------------------
(***************************************************************************)
(* Ramps: Device.async_set_channels with a transition time, the one user   *)
(* command that does not run in a single transaction.  Its first           *)
(* transaction takes note of the device's command generation; each frame   *)
(* is a transaction of its own, which gives the ramp up when the           *)
(* generation has moved.  Between frames the ramp sleeps without the lock. *)
(*                                                                         *)
(* The command lock is taken at its word (PriorityExclusion, which         *)
(* CommandLock implements).  Around the ramps there are user commands that *)
(* run in one transaction, and the guardian's: each moves the generation.  *)
(*                                                                         *)
(* The levels of all channels are one value, a look.  Unless an effect is  *)
(* on, a frame whose levels the Device remembers is not sent, and only     *)
(* before a frame that is sent the fixture is put in manual mode.          *)
(***************************************************************************)
EXTENDS Naturals

CONSTANTS Ramps,       \* tasks that call async_set_channels(transition > 0)
          Commands,    \* tasks that issue any other user command
          Background,  \* the guardian's tasks
          None,        \* nobody
          Steps,       \* frames of a ramp
          Looks,       \* the levels a ramp may start from, ask for or pass
          Interpolated(_, _, _),  \* the look of one frame between two looks
          MaxAsked     \* bound: generation from which nobody asks any more

Users == Ramps \cup Commands
Tasks == Users \cup Background

ASSUME TasksDisjoint ==
  /\ Ramps \cap Commands = {} /\ Users \cap Background = {} /\ None \notin Tasks \cup Looks
ASSUME StepsPositive == Steps \in Nat \ {0}
ASSUME AskedNat == MaxAsked \in Nat
ASSUME LooksInterpolate ==
  \A a, b \in Looks : \A k \in 1 .. Steps : Interpolated(a, b, k) \in Looks

Modes == {"manual", "scheduled"}

VARIABLES wants,       \* tasks waiting for the command lock
          inside,      \* the task whose transaction runs
          generation,  \* Device._command_generation
          captured,    \* the local variable generation of each ramp
          stage,       \* where each ramp stands
          step,        \* frames each ramp has applied
          from, goal,  \* the local variables start_values and targets of each ramp
          mode, look,    \* the fixture: its mode, the levels of its manual mode
          kmode, klook,  \* Device.values
          latest,      \* history: whose command or correction is the newest
          settled,     \* history: a ramp is the newest, and has found or put the
                       \* fixture in manual mode, with levels the Device knew
          shown        \* history: the look of the last frame of a settled ramp

locals == <<captured, step, from, goal>>
newest == <<latest, settled, shown>>
fixture == <<mode, look>>
known == <<kmode, klook>>
vars == <<wants, inside, generation, stage, locals, fixture, known, newest>>

Lock == INSTANCE PriorityExclusion WITH Priority <- Users

Stage == {"idle", "starting", "waiting", "applying", "sleeping"}

Init ==
  /\ Lock!AInit
  /\ generation = 0
  /\ captured = [r \in Ramps |-> 0]
  /\ stage = [r \in Ramps |-> "idle"]
  /\ step = [r \in Ramps |-> 0]
  /\ mode \in Modes /\ look \in Looks
  /\ kmode \in Modes /\ klook \in Looks
  /\ from = [r \in Ramps |-> None] /\ goal = from
  /\ latest = None /\ settled = FALSE /\ shown = None

(* command_transaction(supersede_transition=True) moves the generation.    *)
Supersede == generation' = generation + 1

(* The look of a ramp's k-th frame.                                        *)
Frame(r, k) == Interpolated(from[r], goal[r], k)
NextFrame(r) == Frame(r, step[r] + 1)

(* The call returns, or is cancelled: its local variables are gone.        *)
Returns(r) ==
  /\ stage' = [stage EXCEPT ![r] = "idle"]
  /\ captured' = [captured EXCEPT ![r] = 0] /\ step' = [step EXCEPT ![r] = 0]
  /\ from' = [from EXCEPT ![r] = None] /\ goal' = [goal EXCEPT ![r] = None]

(* History: t's command or correction is the newest, s what settled says.  *)
Newest(t, s) == latest' = t /\ settled' = s /\ shown' = None

(* A status answer or notification tells the Device the fixture's mode,    *)
(* its levels, or both; in another mode these may be the schedule's.       *)
Learns ==
  /\ kmode' \in {kmode, mode}
  /\ klook' \in IF mode = "manual" THEN {klook, look} ELSE Looks
  /\ UNCHANGED fixture

-----------------------------------------------------------------------------
(* A service call starts a ramp: it asks for its first transaction.        *)
AskRamp(r) ==
  /\ stage[r] = "idle" /\ generation < MaxAsked
  /\ Lock!Want(r)
  /\ stage' = [stage EXCEPT ![r] = "starting"]
  /\ UNCHANGED <<generation, locals, fixture, known, newest>>

(* The first transaction has no await: it moves the generation, takes note *)
(* of it and of the channel values, and the ramp asks for its first frame. *)
StartRamp(r) ==
  /\ stage[r] = "starting" /\ Lock!MayBegin(r)
  /\ Supersede
  /\ captured' = [captured EXCEPT ![r] = generation + 1]
  /\ from' = [from EXCEPT ![r] = klook]
  /\ \E l \in Looks : goal' = [goal EXCEPT ![r] = l]
  /\ stage' = [stage EXCEPT ![r] = "waiting"]
  /\ Newest(r, mode = "manual" /\ kmode = "manual" /\ klook = look)
  /\ UNCHANGED <<wants, inside, step, fixture, known>>

(* mutant: the generation is compared once, before the first frame         *)
BeginStepComparesOnce(r) ==
  /\ stage[r] = "waiting" /\ (generation = captured[r] \/ step[r] > 0)
  /\ Lock!Begin(r)
  /\ stage' = [stage EXCEPT ![r] = "applying"]
  /\ UNCHANGED <<generation, locals, fixture, known, newest>>

(* A frame's transaction begins and nothing has moved the generation: its  *)
(* levels are not those the Device remembers, or an effect is on, which    *)
(* has them sent in any case.                                              *)
BeginStep(r) ==
  /\ stage[r] = "waiting" /\ generation = captured[r]
  /\ Lock!Begin(r)
  /\ stage' = [stage EXCEPT ![r] = "applying"]
  /\ UNCHANGED <<generation, locals, fixture, known, newest>>

(* mutant: a ramp that was overtaken tries again after its sleep           *)
InterruptedSleepsOn(r) ==
  /\ stage[r] = "waiting" /\ generation # captured[r] /\ Lock!MayBegin(r)
  /\ wants' = wants \ {r}
  /\ stage' = [stage EXCEPT ![r] = "sleeping"]
  /\ UNCHANGED <<inside, generation, locals, fixture, known, newest>>

(* It begins after the generation moved: the call returns True at once.    *)
Interrupted(r) ==
  /\ stage[r] = "waiting" /\ generation # captured[r] /\ Lock!MayBegin(r)
  /\ wants' = wants \ {r}
  /\ Returns(r)
  /\ UNCHANGED <<inside, generation, fixture, known, newest>>

(* A frame has succeeded; after the last one the call returns True.        *)
FrameDone(r) ==
  /\ shown' = IF settled' THEN NextFrame(r) ELSE None
  /\ IF step[r] + 1 < Steps
     THEN /\ step' = [step EXCEPT ![r] = @ + 1]
          /\ stage' = [stage EXCEPT ![r] = "sleeping"]
          /\ UNCHANGED <<captured, from, goal>>
     ELSE Returns(r)

(* The Device remembers the very levels of the frame, and no effect: it    *)
(* succeeds with nothing sent, whatever mode the fixture is in, and        *)
(* without an await.                                                       *)
SkipStep(r) ==
  /\ stage[r] = "waiting" /\ generation = captured[r] /\ Lock!MayBegin(r)
  /\ klook = NextFrame(r)
  /\ wants' = wants \ {r}
  /\ UNCHANGED settled /\ FrameDone(r)
  /\ UNCHANGED <<inside, generation, fixture, known, latest>>

(* The fixture is put in manual mode unless the Device believes it there.  *)
FrameMode == IF kmode = "manual" THEN mode ELSE "manual"

(* mutant: the frame is sent in whatever mode the fixture is               *)
ApplyStepInAnyMode(r) ==
  /\ stage[r] = "applying"
  /\ Lock!End(r)
  /\ mode' = mode
  /\ look' \in IF klook = look THEN {NextFrame(r)} ELSE Looks
  /\ kmode' = "manual" /\ klook' = NextFrame(r)
  /\ settled' = (settled \/ (FrameMode = "manual" /\ klook = look))
  /\ FrameDone(r)
  /\ UNCHANGED <<generation, latest>>

(* The frame is sent and taken.  When one channel alone differs from what  *)
(* the Device remembers, only that one is sent: the others show what the   *)
(* fixture has.                                                            *)
ApplyStep(r) ==
  /\ stage[r] = "applying"
  /\ Lock!End(r)
  /\ mode' = FrameMode
  /\ look' \in IF klook = look THEN {NextFrame(r)} ELSE Looks
  /\ kmode' = "manual" /\ klook' = NextFrame(r)
  /\ settled' = (settled \/ (FrameMode = "manual" /\ klook = look))
  /\ FrameDone(r)
  /\ UNCHANGED <<generation, latest>>

(* The frame fails, times out, or its caller is cancelled: what has been   *)
(* written may have reached the fixture.  A failure puts back what the     *)
(* Device remembered, a deadline does not.                                 *)
FailStep(r) ==
  /\ stage[r] = "applying"
  /\ Lock!End(r)
  /\ mode' \in {mode, FrameMode} /\ look' \in Looks
  /\ kmode' \in {kmode, "manual"} /\ klook' \in {klook, NextFrame(r)}
  /\ Returns(r)
  /\ settled' = FALSE /\ shown' = None
  /\ UNCHANGED <<generation, latest>>

(* asyncio.sleep(step_seconds) is over: the next frame asks for the lock.  *)
NextStep(r) ==
  /\ stage[r] = "sleeping"
  /\ Lock!Want(r)
  /\ stage' = [stage EXCEPT ![r] = "waiting"]
  /\ UNCHANGED <<generation, locals, fixture, known, newest>>

(* The caller is cancelled between two frames.                             *)
CancelRamp(r) ==
  /\ stage[r] \in {"starting", "waiting", "sleeping"}
  /\ wants' = wants \ {r}
  /\ Returns(r)
  /\ UNCHANGED <<inside, generation, fixture, known, newest>>

-----------------------------------------------------------------------------
(* The commands around the ramps.                                          *)
Ask(t) ==
  /\ t \in Commands \cup Background /\ generation < MaxAsked
  /\ Lock!Want(t)
  /\ UNCHANGED <<generation, stage, locals, fixture, known, newest>>

BeginCommand(c) ==
  /\ c \in wants /\ Lock!Begin(c)
  /\ Supersede
  /\ Newest(c, FALSE)
  /\ UNCHANGED <<stage, locals, fixture, known>>

(* It ends; it has written a mode or levels, with or without effect, and   *)
(* a deadline leaves the Device with what it did not get to write.         *)
EndCommand(c) ==
  /\ c \in Commands /\ Lock!End(c)
  /\ mode' \in Modes /\ look' \in Looks
  /\ kmode' \in Modes /\ klook' \in Looks
  /\ UNCHANGED <<generation, stage, locals, newest>>

BeginBackground(b) ==
  /\ b \in Background \cap wants /\ Lock!Begin(b)
  /\ Supersede
  /\ UNCHANGED <<stage, locals, fixture, known, newest>>

(* A clock sync, a state read, or a correction that found nothing to do.   *)
EndSilent(b) ==
  /\ b \in Background /\ Lock!End(b)
  /\ Learns
  /\ UNCHANGED <<generation, stage, locals, newest>>

(* The guardian puts the fixture back into the mode it expects; the answer *)
(* that confirms it may be missing.                                        *)
EndCorrection(b) ==
  /\ b \in Background /\ Lock!End(b)
  /\ mode' = "scheduled" /\ kmode' \in {kmode, "scheduled"}
  /\ klook' \in Looks
  /\ Newest(b, FALSE)
  /\ UNCHANGED <<generation, stage, locals, look>>

GiveUp(t) ==
  /\ t \in Commands \cup Background /\ Lock!GiveUp(t)
  /\ UNCHANGED <<generation, stage, locals, fixture, known, newest>>

(* The fixture reports its state between the transactions.                 *)
Report ==
  /\ inside = {}
  /\ Learns
  /\ UNCHANGED <<wants, inside, generation, stage, locals, newest>>

(* What a ramp does unless it is cancelled.                                *)
GoesOn(r) ==
  \/ StartRamp(r) \/ BeginStep(r) \/ SkipStep(r) \/ Interrupted(r)
  \/ ApplyStep(r) \/ FailStep(r) \/ NextStep(r)

RampNext(r) == AskRamp(r) \/ GoesOn(r) \/ CancelRamp(r)

OtherNext(t) ==
  \/ Ask(t) \/ GiveUp(t)
  \/ t \in Commands /\ BeginCommand(t)
  \/ EndCommand(t)
  \/ BeginBackground(t) \/ EndSilent(t) \/ EndCorrection(t)

Next ==
  \/ \E r \in Ramps : RampNext(r)
  \/ \E t \in Commands \cup Background : OtherNext(t)
  \/ Report

Spec == Init /\ [][Next]_vars

(* Timers fire, frames and commands end (their transaction has a           *)
(* deadline), and a user command that waits for the lock is served         *)
(* (CommandLock!UserServed): strong, since the lock is not always free.    *)
Fairness ==
  /\ \A r \in Ramps : SF_vars(GoesOn(r))
  /\ WF_vars(\E t \in Commands \cup Background :
               EndCommand(t) \/ EndSilent(t) \/ EndCorrection(t))

FairSpec == Spec /\ Fairness

-----------------------------------------------------------------------------
(* Types of the ramps' variables and of the device's generation.           *)
TypeOK ==
  /\ wants \subseteq Tasks
  /\ inside \subseteq Tasks
  /\ generation \in Nat
  /\ captured \in [Ramps -> Nat]
  /\ stage \in [Ramps -> Stage]
  /\ step \in [Ramps -> 0 .. Steps - 1]
  /\ from \in [Ramps -> Looks \cup {None}] /\ goal \in [Ramps -> Looks \cup {None}]
  /\ mode \in Modes /\ kmode \in Modes
  /\ look \in Looks /\ klook \in Looks
  /\ latest \in Tasks \cup {None} /\ settled \in BOOLEAN /\ shown \in Looks \cup {None}

(* A ramp never writes over the user: once a later command has begun, or   *)
(* the guardian has put the mode back, no frame of it is sent or counted.  *)
NewerCommandStands ==
  [][\A r \in Ramps : step'[r] > step[r] \/ r \in inside \ inside' => latest = r]_vars

(* What a ramp has shown stays until a later command or correction begins: *)
(* the fixture is in manual mode at the look of its last frame, whether    *)
(* that was sent or skipped; a ramp that completed left it at its target.  *)
(* It says nothing of a ramp that found the fixture in another mode, or at *)
(* levels the Device did not know, until a frame has settled that: nothing *)
(* is sent to a fixture in another mode while the Device remembers the     *)
(* levels of the frame.                                                    *)
FrameStays == shown # None => mode = "manual" /\ look = shown

(* Every ramp ends: completed, interrupted, failed or cancelled.           *)
RampEnds == \A r \in Ramps : stage[r] # "idle" ~> stage[r] = "idle"
=============================================================================
