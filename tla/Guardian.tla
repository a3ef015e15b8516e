------------------------------ MODULE Guardian ------------------------------
(***************************************************************************)
(* ScheduleGuardian (core/guardian.py): the check that supervises the mode *)
(* and the schedule of one fixture, and async_end_override, the user's     *)
(* "return to schedule".  Both run under the guardian's own lock; each of  *)
(* their steps is a background command of the Device with a deadline of    *)
(* its own, after which the connection is reset.  Around them are a user   *)
(* who sends commands to the same Device, the fixture, whose mode may also *)
(* change by itself, and the shutdown of Home Assistant.                   *)
(*                                                                         *)
(* The Device's command lock is taken at its word (PriorityExclusion,      *)
(* which CommandLock implements).                                          *)
(***************************************************************************)
EXTENDS Naturals

CONSTANTS Check, Restorer,    \* the tasks of async_check, async_end_override
          User,               \* the task of the user's commands
          Readers,            \* tasks of a schedule service that read it back
          None,               \* no state was read
          Expectations,       \* configurations of expected_mode considered
          Windows,            \* override_return_min: "grace", or 0, "forever"
          AlertAfter,         \* alert_after_failures
          UnreachableAlert,   \* UNREACHABLE_ALERT_THRESHOLD
          Cap                 \* bound: counters saturate here

ASSUME TasksDistinct ==
  Check # Restorer /\ User \notin {Check, Restorer} /\ Readers \cap {Check, Restorer, User} = {}
ASSUME ThresholdsNat ==
  /\ AlertAfter \in Nat \ {0} /\ UnreachableAlert \in Nat
  /\ Cap \in Nat /\ Cap >= AlertAfter /\ Cap > UnreachableAlert

ASSUME OptionsKnown ==
  /\ Expectations \subseteq {"scheduled", "manual", "unsupervised"}
  /\ Windows \subseteq {"grace", "forever"}

(* The modes of a fixture: "scheduled" stands for the Automatic or         *)
(* Professional mode that is expected, "other" for the one that is not.    *)
Modes == {"scheduled", "manual", "other"}
ASSUME NoneIsNoMode == None \notin Modes

(* The steps of a check that use the Device; "abort" is the reset after    *)
(* the deadline of the whole check.                                        *)
Steps == {"clock", "read", "ensure", "reread", "push"}
At == {"idle", "queued", "abort"} \cup Steps
Override == {"none", "grace", "expired", "forever"}

VARIABLES
  expected,      \* the options expected_mode and override_return_min, fixed
  window,        \* for the life of a guardian ("grace" or "forever")
  at,            \* where each guardian task stands
  failures, unreachable, override,           \* what the guardian records
  wants, inside,                             \* the Device's command lock
  mode, drifted, \* the fixture: its mode; its schedule is not the expected one
  known,         \* Device.values["mode"]
  closing,       \* Device.closing
  quiet,         \* nobody but the guardian's own checks acts any more
  held           \* history: a user's command put the fixture in manual mode

recorded == <<failures, unreachable>>
options == <<expected, window>>
fixture == <<mode, drifted, held>>
env == <<fixture, known, closing, quiet>>
vars == <<options, at, recorded, override, wants, inside, env>>

Guardians == {Check, Restorer}
Tasks == Guardians \cup {User} \cup Readers
Lock == INSTANCE PriorityExclusion WITH Priority <- {User}

Init ==
  /\ expected \in Expectations /\ window \in Windows
  /\ at = [t \in Guardians |-> "idle"]
  /\ failures = 0 /\ unreachable = 0 /\ override = "none"
  /\ Lock!AInit
  /\ mode \in Modes /\ drifted \in BOOLEAN /\ known = mode
  /\ closing = FALSE /\ quiet = FALSE
  /\ held = FALSE

Bump(n) == IF n < Cap THEN n + 1 ELSE n

(* expected_mode as a mode of the fixture.                                 *)
Wanted == IF expected = "manual" THEN "manual" ELSE "scheduled"

(* _priority_pending: a user command is queued for the Device or running.  *)
PriorityPending == User \in wants \cup inside

(* A step has timed out and the guardian awaits async_reset_connection.    *)
Resetting(t) == at[t] \in Steps \cup {"abort"} /\ t \notin wants \cup inside

(* The guardian's _check_lock is free.                                     *)
CheckLockFree == \A t \in Guardians : at[t] \in {"idle", "queued"}

Problem == failures >= AlertAfter \/ unreachable > UnreachableAlert

-----------------------------------------------------------------------------
(* The check's code between the end of one step, by which it leaves the    *)
(* Device, and the next: what becomes of at[Check], of the Device's lock   *)
(* and of what is recorded.  None of it awaits anything.                   *)

(* mutant: a check that ends during the shutdown is recorded like any      *)
FinishEvenClosing(verdict) ==
  /\ at' = [at EXCEPT ![Check] = "idle"]
  /\ inside' = inside \ {Check} /\ UNCHANGED wants
  /\ failures' = IF verdict = "deferred" THEN failures
                 ELSE IF verdict = "failed" THEN Bump(failures) ELSE 0
  /\ unreachable' = IF verdict = "deferred" THEN unreachable
                    ELSE IF verdict = "unreachable" THEN Bump(unreachable) ELSE 0

(* _finish: the two streaks behind Problem, which is what a verdict is for.*)
(* Nothing is recorded once the device is closing.                         *)
Finish(verdict) ==
  /\ at' = [at EXCEPT ![Check] = "idle"]
  /\ inside' = inside \ {Check} /\ UNCHANGED wants
  /\ IF closing
     THEN UNCHANGED recorded
     ELSE /\ failures' = IF verdict = "deferred" THEN failures
                         ELSE IF verdict = "failed" THEN Bump(failures) ELSE 0
          /\ unreachable' = IF verdict = "deferred" THEN unreachable
                            ELSE IF verdict = "unreachable" THEN Bump(unreachable) ELSE 0

(* The next step asks for the Device, and has it in the same breath when   *)
(* nobody holds or awaits it.  A closing Device refuses the step at once,  *)
(* and so every later one: the check ends without a record.                *)
AskFor(s) ==
  LET others == inside \ {Check}
      free == others = {} /\ wants = {}
  IN  /\ IF closing
         THEN /\ at' = [at EXCEPT ![Check] = "idle"]
              /\ inside' = others /\ UNCHANGED wants
         ELSE /\ at' = [at EXCEPT ![Check] = s]
              /\ inside' = IF free THEN {Check} ELSE others
              /\ wants' = IF free THEN wants ELSE wants \cup {Check}
      /\ UNCHANGED recorded

(* mutant: the check holds its lock and begins again with the clock        *)
StandAsideOrSpin(next) == IF PriorityPending THEN AskFor("clock") ELSE next

(* _deferred, unless no user command wants the Device.                     *)
StandAsideOr(next) == IF PriorityPending THEN Finish("deferred") ELSE next

(* The mode is settled: what is left is the schedule stored in the fixture,*)
(* which is not the expected one if d.                                     *)
Settle(s, d, verdict) ==
  IF expected = "scheduled" /\ s = "scheduled"
  THEN StandAsideOr(IF d THEN AskFor("push") ELSE Finish(verdict))
  ELSE Finish(verdict)

(* mutant: an override that has run out is granted again                   *)
JudgeForgiving(s, d) ==
  IF s = Wanted
  THEN override' = "none" /\ Settle(s, d, "ok")
  ELSE IF s = "manual" THEN override' = window /\ Finish("ok")
  ELSE UNCHANGED override /\ AskFor("ensure")

(* The fixture answered, and nobody is waiting: is it as expected?         *)
Judge(s, d) ==
  \/ /\ s = Wanted
     /\ override' = "none"
     /\ Settle(s, d, "ok")
  \/ /\ s # Wanted /\ expected = "manual"
     /\ override' = "none"
     /\ AskFor("ensure")
  \/ /\ expected = "scheduled" /\ s = "manual" /\ override # "expired"
     /\ override' = IF override = "none" THEN window ELSE override
     /\ Finish("ok")
  \/ /\ expected = "scheduled" /\ (s = "other" \/ (s = "manual" /\ override = "expired"))
     /\ override' = IF closing THEN "none" ELSE override
     /\ AskFor("ensure")

AfterClock == StandAsideOr(AskFor("read")) /\ UNCHANGED override

(* mutant: nobody looks for user commands between the read and its verdict *)
AfterReadHasty(s, d) ==
  /\ IF expected = "unsupervised" THEN Finish("paused") /\ UNCHANGED override
     ELSE IF s = None THEN Finish("unreachable") /\ UNCHANGED override
     ELSE Judge(s, d)

AfterRead(s, d) ==
  /\ IF expected = "unsupervised" THEN Finish("paused") /\ UNCHANGED override
     ELSE IF s = None THEN Finish("unreachable") /\ UNCHANGED override
     ELSE IF PriorityPending THEN Finish("deferred") /\ UNCHANGED override
     ELSE Judge(s, d)

(* The mode was corrected, or it was not; either way the override is over. *)
AfterEnsure(ok) ==
  /\ override' = "none"
  /\ IF ~ok THEN Finish("failed")
     ELSE IF expected = "manual" THEN Finish("corrected")
     ELSE AskFor("reread")

(* "or state": a reread that fails leaves the state that was read before   *)
(* the correction, which is not the one expected.                          *)
AfterReread(s, d) == Settle(s, d, "corrected") /\ UNCHANGED override

AfterPush(ok) ==
  /\ Finish(IF ok THEN "corrected" ELSE "failed")
  /\ UNCHANGED override

-----------------------------------------------------------------------------
(* A check or a return to schedule is called: by a timer, a connect, a     *)
(* service, a button.  It waits for the guardian's lock.                   *)
Call(t) ==
  /\ at[t] = "idle" /\ ~closing
  /\ t = Restorer => ~quiet
  /\ at' = [at EXCEPT ![t] = "queued"]
  /\ UNCHANGED <<options, recorded, override, wants, inside, env>>

CheckBegins ==
  /\ at[Check] = "queued" /\ CheckLockFree
  /\ IF closing
     THEN at' = [at EXCEPT ![Check] = "idle"] /\ UNCHANGED <<wants, inside, recorded>>
     ELSE StandAsideOr(AskFor("clock"))
  /\ UNCHANGED <<options, override, env>>

(* The Device's command lock passes to the guardian's step.                *)
StepBegins(t) ==
  /\ t \in wants
  /\ Lock!Begin(t)
  /\ UNCHANGED <<options, at, recorded, override, env>>

(* Task t runs the body of its step s, which ends now.                     *)
Ends(t, s) == at[t] = s /\ inside = {t}

(* async_sync_clock; what comes of it does not matter to the check.        *)
ClockEnds ==
  /\ Ends(Check, "clock")
  /\ AfterClock
  /\ UNCHANGED <<options, env>>

(* async_read_state: what the fixture answers, or nothing; or, when it is  *)
(* silent but the link is up, what the Device last heard from it.          *)
Readable(s, d) ==
  \/ s = mode /\ d = drifted
  \/ s \in {known, None}

ReadEnds(s, d) ==
  /\ \/ Ends(Check, "read") /\ AfterRead(s, d)
     \/ Ends(Check, "reread") /\ AfterReread(s, d)
  /\ Readable(s, d)
  /\ known' = IF s = None THEN known ELSE s
  /\ UNCHANGED <<options, fixture, closing, quiet>>

(* async_ensure_mode(Wanted): nothing is written when the mode last seen   *)
(* is the wanted one; a write that fails may have reached the fixture.     *)
EnsureMode(ok) ==
  /\ \/ /\ known = Wanted /\ ok
        /\ UNCHANGED <<mode, known>>
     \/ /\ known # Wanted /\ ok
        /\ mode' = Wanted /\ known' = Wanted
     \/ /\ known # Wanted /\ ~ok
        /\ mode' \in {mode, Wanted} /\ UNCHANGED known
  /\ held' = (held /\ mode' = mode)

EnsureEnds(ok) ==
  /\ Ends(Check, "ensure")
  /\ EnsureMode(ok)
  /\ AfterEnsure(ok)
  /\ UNCHANGED <<options, drifted, closing, quiet>>

(* async_set_native_auto_schedule or its Professional sibling: it writes   *)
(* the schedule, then the mode, and reads both back.                       *)
PushEnds(ok) ==
  /\ Ends(Check, "push")
  /\ AfterPush(ok)
  /\ IF ok
     THEN mode' = Wanted /\ known' = Wanted /\ drifted' = FALSE
     ELSE mode' \in {mode, Wanted} /\ known' = known /\ drifted' \in {drifted, FALSE}
  /\ held' = (held /\ mode' = mode)
  /\ UNCHANGED <<options, closing, quiet>>

(* A step of t is cut short wherever it stands: it leaves the Device, and  *)
(* what it was writing may have reached the fixture.                       *)
CutShort(t) ==
  /\ wants' = wants \ {t} /\ inside' = inside \ {t}
  /\ mode' \in {mode} \cup {m \in {Wanted} : t \in inside /\ at[t] \in {"ensure", "push"}}
  /\ drifted' \in {drifted} \cup {d \in {FALSE} : t \in inside /\ at[t] = "push"}
  /\ held' = (held /\ mode' = mode)

(* A step's deadline expires, whether it waits for the Device or uses it:  *)
(* the step is cancelled and the connection reset.                         *)
StepTimeout(t) ==
  /\ at[t] \in Steps /\ t \in wants \cup inside
  /\ CutShort(t)
  /\ UNCHANGED <<options, at, recorded, override, known, closing, quiet>>

(* The reset is done; the check goes on as after a failed step.            *)
ResetEnds ==
  /\ Resetting(Check)
  /\ \/ at[Check] = "clock" /\ AfterClock
     \/ at[Check] = "read" /\ AfterRead(None, drifted)
     \/ at[Check] = "ensure" /\ AfterEnsure(FALSE)
     \/ at[Check] = "reread" /\ AfterReread(None, drifted)
     \/ at[Check] = "push" /\ AfterPush(FALSE)
     \/ at[Check] = "abort" /\ Finish("unreachable") /\ UNCHANGED override
  /\ UNCHANGED <<options, env>>

(* mutant: the step goes on after the check has given up                   *)
CheckTimeoutKeepsStep ==
  /\ at[Check] \in Steps
  /\ at' = [at EXCEPT ![Check] = "abort"]
  /\ UNCHANGED <<options, recorded, override, wants, inside, env>>

(* The deadline of the whole check expires at whatever it awaits.          *)
CheckTimeout ==
  /\ at[Check] \in Steps
  /\ at' = [at EXCEPT ![Check] = "abort"]
  /\ CutShort(Check)
  /\ UNCHANGED <<options, recorded, override, known, closing, quiet>>

(* The task is cancelled (the entry is unloaded, the caller goes away).    *)
Cancelled(t) ==
  /\ at[t] # "idle" /\ ~quiet
  /\ at' = [at EXCEPT ![t] = "idle"]
  /\ CutShort(t)
  /\ UNCHANGED <<options, recorded, override, known, closing, quiet>>

-----------------------------------------------------------------------------
(* async_end_override.  With no schedule to return to it only forgets the  *)
(* override; otherwise it asks for the Device, without standing aside.     *)
EndBegins ==
  /\ at[Restorer] = "queued" /\ CheckLockFree
  /\ IF closing \/ override = "none" \/ expected # "scheduled"
     THEN /\ at' = [at EXCEPT ![Restorer] = "idle"]
          /\ override' = IF closing THEN override ELSE "none"
          /\ UNCHANGED <<wants, inside>>
     ELSE /\ at' = [at EXCEPT ![Restorer] = "ensure"]
          /\ IF inside = {} /\ wants = {}
             THEN inside' = {Restorer} /\ UNCHANGED wants
             ELSE wants' = wants \cup {Restorer} /\ UNCHANGED inside
          /\ UNCHANGED override
  /\ UNCHANGED <<options, recorded, env>>

(* Its outcome: a restore that failed leaves the override in place, and is *)
(* not recorded when the device is closing.                                *)
EndResult(ok) ==
  /\ at' = [at EXCEPT ![Restorer] = "idle"]
  /\ override' = IF ok THEN "none" ELSE override
  /\ IF ~ok /\ closing
     THEN UNCHANGED recorded
     ELSE failures' = (IF ok THEN 0 ELSE Bump(failures)) /\ UNCHANGED unreachable

EndEnsureEnds(ok) ==
  /\ Ends(Restorer, "ensure")
  /\ EnsureMode(ok)
  /\ EndResult(ok)
  /\ inside' = {}
  /\ UNCHANGED <<options, wants, drifted, closing, quiet>>

EndResetEnds ==
  /\ Resetting(Restorer)
  /\ EndResult(FALSE)
  /\ UNCHANGED <<options, wants, inside, env>>

-----------------------------------------------------------------------------
(* The rest of the world.                                                  *)

(* The user issues a command; a closing Device refuses it.                 *)
UserAsks ==
  /\ ~quiet /\ ~closing
  /\ Lock!Want(User)
  /\ UNCHANGED <<options, at, recorded, override, env>>

UserBegins ==
  /\ User \in wants
  /\ Lock!Begin(User)
  /\ UNCHANGED <<options, at, recorded, override, env>>

(* It ends, having set mode m (a colour or an effect sets manual) or not.  *)
(* The Device takes the mode it is asked for as read before it writes, and *)
(* forgets it when the write fails, but not when the deadline expires; a   *)
(* write that failed or timed out may have reached the fixture.            *)
UserEnds(m) ==
  /\ Lock!End(User)
  /\ mode' \in {mode, m}
  /\ known' \in {known, m}
  /\ held' = IF mode' = mode /\ known' = known THEN held
             ELSE mode' = "manual" /\ known' = "manual"
  /\ UNCHANGED <<options, at, recorded, override, drifted, closing, quiet>>

UserGivesUp ==
  /\ Lock!GiveUp(User)
  /\ UNCHANGED <<options, at, recorded, override, env>>

(* A service that wrote a schedule reads it back for the guardian to       *)
(* enforce, as background work (_async_capture_expected_schedule).         *)
ReaderAsks(r) ==
  /\ ~quiet /\ ~closing
  /\ Lock!Want(r)
  /\ UNCHANGED <<options, at, recorded, override, env>>

ReaderBegins(r) ==
  /\ r \in wants
  /\ Lock!Begin(r)
  /\ UNCHANGED <<options, at, recorded, override, env>>

ReaderEnds(r) ==
  /\ Lock!End(r)
  /\ \/ UNCHANGED <<drifted, known>>
     \/ drifted' \in {drifted, FALSE} /\ known' = mode
  /\ UNCHANGED <<options, at, recorded, override, mode, held, closing, quiet>>

(* The app, a button on the fixture or a power cut changes mode, schedule. *)
Drift(m, d) ==
  /\ ~quiet
  /\ mode' = m /\ drifted' = d
  /\ held' = (held /\ m = mode)
  /\ UNCHANGED <<options, at, recorded, override, wants, inside,
                 known, closing, quiet>>

(* An unsolicited notification tells the Device the fixture's mode.        *)
Notified ==
  /\ known' = mode
  /\ UNCHANGED <<options, at, recorded, override, wants, inside,
                 fixture, closing, quiet>>

(* override_until passes.                                                  *)
GraceExpires ==
  /\ override = "grace" /\ override' = "expired"
  /\ UNCHANGED <<options, at, recorded, wants, inside, env>>

(* The shutdown latch.                                                     *)
Close ==
  /\ ~closing /\ closing' = TRUE
  /\ UNCHANGED <<options, at, recorded, override, wants, inside,
                 fixture, known, quiet>>

(* From now on only the guardian's own checks act.                         *)
FallQuiet ==
  /\ ~quiet /\ quiet' = TRUE
  /\ UNCHANGED <<options, at, recorded, override, wants, inside,
                 fixture, known, closing>>

GuardianNext ==
  \/ \E t \in Guardians : Call(t) \/ StepBegins(t) \/ StepTimeout(t) \/ Cancelled(t)
  \/ CheckBegins \/ ClockEnds \/ ResetEnds \/ CheckTimeout
  \/ EndBegins \/ EndResetEnds
  \/ \E s \in Modes \cup {None}, d \in BOOLEAN : ReadEnds(s, d)
  \/ \E ok \in BOOLEAN : EnsureEnds(ok) \/ PushEnds(ok) \/ EndEnsureEnds(ok)

WorldNext ==
  \/ UserAsks \/ UserBegins \/ UserGivesUp
  \/ \E m \in Modes : UserEnds(m)
  \/ \E m \in Modes, d \in BOOLEAN : Drift(m, d)
  \/ \E r \in Readers : ReaderAsks(r) \/ ReaderBegins(r) \/ ReaderEnds(r)
  \/ Notified \/ GraceExpires \/ Close \/ FallQuiet

Next == GuardianNext \/ WorldNext

Spec == Init /\ [][Next]_vars

(* The interval timer calls the check, the loop serves the guardian's      *)
(* lock, every step and every reset ends (asyncio.timeout), and so do a    *)
(* user's command and a readback.                                          *)
CheckAdvances ==
  \/ ClockEnds \/ StepTimeout(Check) \/ ResetEnds
  \/ \E s \in Modes \cup {None}, d \in BOOLEAN : ReadEnds(s, d)
  \/ \E ok \in BOOLEAN : EnsureEnds(ok) \/ PushEnds(ok)

EndAdvances ==
  StepTimeout(Restorer) \/ EndResetEnds \/ \E ok \in BOOLEAN : EndEnsureEnds(ok)

Scheduling ==
  /\ WF_vars(Call(Check))
  /\ SF_vars(CheckBegins)
  /\ WF_vars(CheckAdvances)
  /\ WF_vars(EndAdvances)
  /\ WF_vars(UserBegins \/ \E m \in Modes : UserEnds(m))
  /\ \A r \in Readers : WF_vars(ReaderEnds(r))
  /\ WF_vars(GraceExpires)

(* The radio works often enough: a step that is tried again and again does *)
(* get the Device, read the fixture and correct it.                        *)
RadioWorks ==
  /\ SF_vars(StepBegins(Check))
  /\ SF_vars(ClockEnds)
  /\ SF_vars(\E s \in Modes, d \in BOOLEAN : s = mode /\ d = drifted /\ ReadEnds(s, d))
  /\ SF_vars(EnsureEnds(TRUE))

FairSpec == Spec /\ Scheduling /\ RadioWorks

-----------------------------------------------------------------------------
(* Types of the guardian's variables; a guardian task that waits for the   *)
(* Device or has it is at one of its steps.                                *)
TypeOK ==
  /\ expected \in Expectations /\ window \in Windows
  /\ at \in [Guardians -> At]
  /\ failures \in 0 .. Cap /\ unreachable \in 0 .. Cap
  /\ override \in Override
  /\ wants \subseteq Tasks /\ inside \subseteq Tasks
  /\ mode \in Modes /\ known \in Modes
  /\ drifted \in BOOLEAN /\ closing \in BOOLEAN
  /\ quiet \in BOOLEAN /\ held \in BOOLEAN
  /\ \A t \in Guardians \cap (wants \cup inside) : at[t] \in Steps

(* "It leaves the fixture in Manual for override_return_min" (README.md):  *)
(* a check takes the fixture out of a manual mode the user has commanded   *)
(* only when an override it granted has run out, never on the strength of  *)
(* a state that was read before the user's command ran.                    *)
NoUnarmedRestore ==
  [][held /\ ~held' /\ at[Check] = "ensure" /\ inside = {Check} /\ inside' # inside
       => override = "expired" \/ expected # "scheduled"]_vars

(* Refusals during the shutdown are no fault of the fixture: whatever was  *)
(* under way when the latch closed, no problem is raised after it.         *)
ShutdownRaisesNothing == [][closing /\ Problem' => Problem]_vars

(* Every check ends, however often users cut in and whatever hangs.        *)
CheckEnds == at[Check] # "idle" ~> at[Check] = "idle"

(* When the user and the world leave the fixture alone, it ends up in the  *)
(* mode expected of it, unless an override that never expires is on.       *)
SupervisionConverges ==
  quiet /\ expected # "unsupervised" ~>
    mode = Wanted \/ override = "forever" \/ closing
=============================================================================
