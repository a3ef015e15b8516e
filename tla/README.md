# TLA+ verification of the Fluval BLE integration

This directory holds a formal model of the concurrent core of the Home Assistant
integration for Fluval lights (`custom_components/fluvalble`): TLA+ modules
translated from the Python source, TLC configurations that check them on small
instances, and proofs, checked by TLAPS, that hold for every value of the
constants. `PROJECT.json` is the index: components, runs, the code lines each
definition stands for, the hazards the properties are aimed at, one plausible bug
("mutant") per property that makes TLC find the property violated, and the
theorems.

Paths below are relative to `src/`; `core/...` means
`custom_components/fluvalble/core/...`.

## 1. Inventory

Everything runs in one asyncio event loop, so code between two `await`s is atomic
and every `await` is a point where any other task may run and where the task may
be cancelled or timed out. That is the granularity of all modules: one action is
what a task does from one await to the next.

| Component | State it keeps | Operations | Hard behaviour | Correct when |
|---|---|---|---|---|
| Device command lock (`core/device.py` 590-715) | asyncio.Lock, owner, depth, `_priority_waiting`, the Event "no user waits" | `command_transaction`, `_async_acquire_command_lock`, nesting, deadline and reset | cancellation at every await; background work that stands aside; lost wakeups | one command at a time, users before background work, exact count, nobody stranded |
| Channel transitions (`core/device.py` 2047-2196) | `_command_generation`, a ramp's own copy, its levels and frame | `async_set_channels` with a transition time | frames interleave with every other command; a frame the Device remembers is skipped | no frame lands over a newer command; what a ramp has shown stays; every ramp ends |
| Schedule guardian engine (`core/guardian.py` 160-581) | override window, failure streaks, `_check_lock` | `async_check`, `async_end_override` | each of up to five steps may queue, hang, be cancelled or become stale | leaves a user's override alone, converges otherwise, alerts on repeated failure, silent in shutdown |
| Guardian runner (`core/guardian.py` 583-727) | interval timer, rerun flag, deferred retry | `start_runner`, connect trigger | a trigger during a check; retries replaced or cancelled | no deferral or connect is lost, timers do not stack, nothing survives unload |
| GATT session and held link (`core/client.py`) | `client`, `_broken`, `_session_initialized`, `_stopping`, `ping_time`, three locks, two tasks | `_ensure_client`, `_initialize_session`, `send_now`, `request_state`, `_ping_loop`, `stop` | four locks across two classes, drops, timeouts, cancellation | no link leaked, a held link comes back, no deadlock, stop is final |
| Device life cycle and reset (`core/device.py` 717-770, 900-1060, 3200-3250) | `client`, `closing`, `_resetting`, `connected` | `async_reset_connection`, `update_ble`, `set_connected`, `async_release_for_shutdown` | overlapping resets, advertisements during a reset | a Device has every live Client it made, its hold is re-armed, a latched Device has none |
| Entry life cycle (`__init__.py` 590-760, 1660-1800) | runtime data, the shutdown job list | setup, unload, `release_link` and resume, Stage-1 shutdown | unload racing a task; setup or resume spanning the one enumeration of the jobs | no link is left when Stage 1 is over |
| Schedule services and persistence (`__init__.py` 760-1660) | stored schedules, expected schedule | services, verified writes, capture by readback, the guardian's repush, migration | readbacks that lag, fail or are another write's | a confirmed write is held, a held one confirmed; what is enforced is what was written |
| Previews (`core/device.py` 2200-2330) | preview task, restore values, native preview's type and mode | `async_preview_schedule`, `async_preview_native_schedule`, `async_stop_preview` | cancelling a task that waits for the lock one holds; mode and packet that fail one by one | a stopped preview sends nothing more; the state before the preview returns |
| Silent-ghost release, recovery (`core/ghost.py`, `core/recovery.py`) | clock of the outage (it outlives the watcher), countdown, repair, remembered proxy; silence, pause, pass | `GhostLinkWatch`, `LinkWatcher` | reloads in the middle of an outage; a pass that outlives the silence | the repair is there when the outage has lasted the window; no sweep disconnects a link of our own; a ghost is freed |
| Wire protocols (`core/protocol.py`, `core/encryption.py`) | none | packet builders, decoders, XOR frames | numeric edges, shapes of values | a schedule's readback confirms what was encoded |
| Colour, effects, products, proxy affinity, discovery, config flow, entities, card | presentation and tables | - | - | not modelled, see section 7 |

How they interact: services and entities call public commands of the Device, each
a `command_transaction`; the guardian's steps are the same commands as background
work; the Device calls its Client, whose session callbacks call back into the
Device (the clock packets), under the Device's clock-sync lock; a drop of the
link reaches the Device through the status callback and the guardian's runner
through a connection listener; a command's deadline and a guardian step's
deadline both end in `async_reset_connection`, which stops the Client.

## 2. Modules

| Module | Models |
|---|---|
| `PriorityExclusion` | abstract specification: who wants and who has the Device |
| `CommandLock` | the Device's lock in detail; implements `PriorityExclusion` |
| `Transition` | ramps, other commands and guardian work, on top of `PriorityExclusion` |
| `Guardian` | check and end-override, user, readback, fixture, shutdown, on top of `PriorityExclusion` |
| `GuardianRunner` | what starts the guardian's checks and which triggers are dropped |
| `LinkSession` | the Client's tasks, its locks and the physical link |
| `Lifecycle` | entry, Devices and Clients: setup, unload, release, shutdown, reset |
| `LinkWatcher` | the unreachable repair of one fixture and its remembered proxy |
| `GhostRelease` | the clock of a silent fixture and the sweep of a proxy's handles |
| `Recovery` | composes `LinkWatcher` and `GhostRelease` with link, fixture, radio and entry |
| `Preview` | the editor's and the native previews and every command that stops one, on top of `PriorityExclusion` |
| `ScheduleCodec` | schedules as packets, as readbacks, and compared: pure operators |
| `ScheduleWrites` | verified writes, capture and repush, on top of `ScheduleCodec` |
| `*Proofs` (`CommandLock`, `Transition`, `Guardian` with `GuardianRunner`, `LinkSession`, `Lifecycle`, `Recovery`, `Preview`, `ScheduleWrites` with `ScheduleCodec`) | theorems and proofs |
| `MC*` | instances for TLC |

`Transition`, `Guardian` and `Preview` instantiate `PriorityExclusion` for the lock
rather than `CommandLock`: its promise is all they need, and that `CommandLock` keeps
it is both model-checked and proved (theorem `Refinement`). `Lifecycle` stands on
`LinkSession` in the same way: a Client there is live from its construction until
somebody calls its `stop()`, and that a stopped one stays without a link is
`LinkSession`'s `StoppedForGood`.

Every module writes a mutant of an operation right before the operation: the same
operation with a plausible bug, used by no specification. `PROJECT.json` says which
property notices which.

### CommandLock
`pc[t]` is where a task stands in `command_transaction`: `queued` for the lock as a
user, waiting for the `event` or `woken` by it as background work, `running`,
`resetting` after its deadline. `owner` and `depth` are the re-entrant
part; `queue` is the asyncio.Lock's FIFO, `waiting` and `idle` are
`_priority_waiting` and the Event. `RequestPriority`, `RequestBackground`,
`Granted`, `Resume`, `EnterNested`, `ExitNested`, `Finish`, `Deadline`, `ResetDone`, `CancelQueued`
and `CancelEvent` are its awaits. asyncio's own Lock and Event are modelled from
the way they are used, and marked external. The abstraction maps waiting tasks to
`wants` and the owner to `inside`.

### Transition
`generation` is `_command_generation`, `captured[r]` a ramp's local copy, `from[r]` and `goal[r]`
its levels, `stage` and `step` its position. All channels' levels are one value, a look;
`mode` and `look` are the fixture's (`look` that of its manual mode), `kmode` and `klook` what the
Device remembers in `values`; they come apart through deadlines, failed writes and the
schedule's levels in a status (`Learns`), and a `Report` may bring them together again. `StartRamp` is the
first transaction. Each frame's transaction begins with the comparison of the generations:
`Interrupted`, or `SkipStep` when the Device remembers the frame's very levels (nothing is sent, the
mode is not looked at, and the frame counts as done), or `BeginStep` for a frame that is sent,
with `ApplyStep` and `FailStep` as its ends. An effect that is on has a frame sent although
its levels are remembered: `BeginStep` is not restricted to other levels, and which of the two
happens then is left open. `NextStep` is the timer. Other
commands and the guardian's are a begin and an end; every begin moves the generation, as
`command_transaction` does. `latest` (history) says whose command is the newest, `settled` that
it is a ramp which has found, or with a frame put, the fixture in manual mode at
the levels the Device remembers, `shown` what its last frame was.

### Guardian
`at[t]` is the step a guardian task is at (`clock`, `read`, `ensure`, `reread`,
`push`, `abort`); it waits for the Device, has it, or awaits the reset after
a timeout, depending on `wants` and `inside`. A step's end and everything the check
computes up to its next await are one action (`ClockEnds`, `ReadEnds`,
`EnsureEnds`, `PushEnds`, with `AfterClock` ... `AfterPush`, `Judge`, `Settle`, `Finish` as
their parts). `override` abstracts the timestamp of an override to none / within
its window / expired / for ever; `known` is the mode the Device last heard
(`values["mode"]`), which may differ from the fixture's `mode`. `Drift` is the
fixture changing by itself, by the vendor app or after a power cut, and
`Notified` its telling so. `Close` is the shutdown latch.

### GuardianRunner
`phase[t]` is a task's call of `async_check` (or of `async_end_override`), the runner's
first or its second, `holder` who has `_check_lock`; whoever has a phase and not the
lock waits for it. `RunCheckSoon` is `_run_check_soon`, with its three outcomes, called by
`Interval`, `ConnectionChanged` and `RetryNow`; `RunnerEnds` is what
`_async_check_and_rearm` does after each of its calls, `Unload` is `_unsub`. `timers` counts
the one-shot timers Home Assistant still holds, `retry` says whether the runner can
reach one: they are kept apart so that a timer nobody can cancel would show. A lock that
was released is free for a moment before its next waiter takes it; triggers in that moment see
it unlocked and start a task, which is why several of the runner's tasks may exist. What a
check does is the module Guardian, whose one `Check` stands for whichever task
has the lock; here it ends, deferred or not. A spawned task runs at once up to its first await
(Home Assistant starts background tasks eagerly), so asking for the lock is part of the trigger.

### LinkSession
The Client's procedures call each other, so a task is a stack of frames. `turn` is
the task that runs between two awaits. A lock is held by the task with a frame in
`Scope[k]`: that is what `async with` means. `Unwinds` is cancellation, which
leaves every `async with` and runs the handlers that take `BaseException`.
`radio` is the physical link, "closing" once a disconnect was asked for; because a
fixture takes one controller (README.md:138), there is at most one. A frame
that works on a link that has gone holds "gone", so that a client which was replaced
is told from the current one. `Starts` are the operations a command may begin with; a clock sync that
had to make the Client does not connect first but asks for the clock lock at once (`core/device.py` 2811-2813).
Not in this module: the status callback and with it `Device.connected`, and the ghost release
except as an await (both in `Recovery`); notification decoding.

### Lifecycle
A setup makes a runtime, a runtime gets at most one Device, so the two share a number;
`client[r]` is `Device.client`, `live` the Clients nobody has told to stop, `ending`
those whose `stop()` is under way. `stage` is where the entry's setup or unload stands
between two awaits (`SetupBegins`, `SetupGoesOn`, `ForwardEnds`, `AbortEnds`; `UnloadBegins`,
`UnloadStops`, `UnloadEnds`), `resume` the timer of `release_link`. `StopBegins` sets the
process latch and Stage 1 lists its jobs; each `ReleaseJob` latches its Device and stops its
Client. `Command`, `Begins`, `EnsureClient`, `Reset`, `ResetEnds` are a command with
`_async_ensure_client` and `async_reset_connection`; the guardian's reset of its step's
deadline runs without the lock (`Locked`). `Advertisement` makes the Device or re-arms its hold.

### LinkWatcher, GhostRelease and Recovery
`LinkWatcher` holds what `recovery.py` writes: `down` is the entry of `LINK_DOWN_SINCE` in
`hass.data`, which a reload leaves in place, `timer` the countdown, `issue` the repair,
`holder` the proxy in the entry's options. `Reconcile` with `Returned` and `Missed` is
`reconcile`; a time that was written down is the number of ticks since. `GhostRelease` holds
`GhostLinkWatch`: `quiet`, `heard` and `next` decide whether a look at a silent fixture begins a
pass (`PassBegins`); a pass asks a proxy for one handle after the other (`CallAnswered`,
`CallFails`) and listens in between (`LightIsBack`, `ListenEnds`). A call that was given up on
is still with the proxy (`pending`, `LateCall`).

`Recovery` adds who calls them: `Says` is `set_connected`, with the reachability timer and the
notification of the watcher; `LinkUp`, `ConnectFails`, `Drop` and `Replaced` are the ways the Client
reports a link, or does not; `Setup`, `Leaves`, `Unloaded`, `Removed`, `Shutdown` are the entry's,
`Look` and its successors the supervisor's. `connected` (the Device's word) and `link` (the
fact) are kept apart, because they do come apart. `away` (history) counts how long the word has been no.

### Preview
`player` is the coroutine of the editor's preview, which takes the lock once per frame
(`PlayerAsks`, `PlayerBegins`, `PlayerSends`, `PlayerEnds`); `op[u]` the command of a user's task and
where it stands in it. `async_stop_preview` is `Halt` (cancel), `Joined` or `DeadlineSwallowed` (the
await of the cancelled task), `Restored`, `Quell`, `Home`, `Stopped`; every other preview, light
and selector run it first (`StopsFirst`). A native preview is `NativeMode`, `NativeSwitch`,
`NativeShow`. A write is the set of what it may leave behind in the fixture and in the Device's
values (`ChannelWrite`, `SwitchWrite`, `ModeWrite`): done, failed without effect, failed with effect, or cut by
a deadline with the values already changed and the fixture not. A command's `restore` is the argument of the stop it begins
with: true for the stop action, the previews, a plain `turn_on` and `turn_off`; `turn_off` goes on when
its stop failed (`StopFails`). Power is not part of a look. `Drift` is
the fixture or the app.

### ScheduleCodec and ScheduleWrites
The codec keeps the *shape* of a value, because the code tells shapes apart: a service passes
tuples, classic and FACEBD readbacks are dicts, Plant Pro readbacks "HH:MM" texts.
`AutoPacket`/`ProPacket` encode with the clamps of each protocol, `DecodedAuto`/`DecodedPro` decode,
`AutoMismatch`/`ProMismatch` compare. In `ScheduleWrites` `mem` is what the fixture stores, `old`
what it may still answer, `known` what the Device believes; `job[t]` is the write of the service
or the guardian: `Send`, `Activate`, up to `Polls` times `Verify`, once more from `Send`,
`WriteEnds`; then `Capture`. `GuardianReads` and `GuardianEnsures` are the guardian's way to a
repush. `Notified` and `AppWrites` are the fixture and the vendor's app.

## 3. Runs

| Run | Instance | Shows |
|---|---|---|
| `command_lock` | 3 user and 2 background tasks, nesting 3; 3,199 states | `SlotsMatch`; `NoStrandedWaiter`; refinement of `PriorityExclusion`; `UserServed`, `BackgroundServed` |
| `transition` | 2 ramps of 2 frames, 2 looks, 1 other command, 1 guardian task, 3 commands; 353 k states | `FrameStays`, `NewerCommandStands`, `RampEnds` |
| `guardian` | check, end-override, one user, one readback, all expectations and windows, threshold 2; 1.26 M states | `TypeOK`, `ShutdownRaisesNothing` |
| `guardian_live` | no readback, scheduled mode, finite window, threshold 1; 88 k states | `NoUnarmedRestore`, `CheckEnds`, `SupervisionConverges` |
| `guardian_runner` | 3 runner tasks, 2 services, unload, shutdown; 7,328 states | `OneTimer`, `DeferralRearmed`, `SilentAfterUnload`, `RerunServed` |
| `link_session` | FACEBD: all operations, stop, held or finite, 2 x 2 writes; 1.85 M states | `TypeOK`, `NoStrandedLink`, `StoppedForGood`, `HoldSupervised`, `NoCircularWait` |
| `link_session_live` | classic: send operations, held, 1 write; 64 k states | `HeldLinkReturns`, `CommandReturns` |
| `lifecycle` | 2 setups, 4 Clients, 1 user, the guardian's check, held; 392 k states | `ClientsOwned`, `ClosedForGood`, `ShutdownQuiet`, `ShutdownReleases`, `HoldRearmed` |
| `recovery` | 2 setups, 2 proxies of which 1 frees handles, held or finite, 2 handles; 941 k states | `TypeOK`, `ReturnTracked`, `RaisedExactly`, `SweepSparesOwnLink`, `GhostFreed` |
| `preview` | 1 user's task with one command after the other, the preview task, one look of a user's and one frame of the previewed schedule; 548 k states | `StoppedStaysStopped`, `StopRestores`, `StopReturns` |
| `schedule` | classic or FACEBD, service and guardian, 2 Auto and 1 Professional schedule, 2 polls; 1.07 M states | `ConfirmedHeld`, `ConfirmedWhenHeld`, `CapturedAsWritten` |
| `schedule_plant_pro` | the same on a Plant Pro | `ConfirmedWhenHeld` violated: the finding of section 6 |

**Bounds.** `MaxDepth` caps nesting: depth only counts, so 3 shows outer, inner and
the step between. Three users and two background tasks give a user behind a user
while a third arrives, and a background task overtaken while another holds the
lock. `MaxAsked` stops new commands from a generation on; three is enough for a
ramp, the ramp that replaces it and the command that interrupts it. `Steps` 2 gives
a first, a last and one sleep between them; two looks are enough for frames that are sent
and frames that are skipped, and for a memory that differs from the fixture. `Cap` lets the guardian's streaks saturate just above their
thresholds, beyond which the code does not tell values apart; `AlertAfter` and
`UnreachableAlert` are small so that they are reached. `WriteRetries` and
`Copies` have the code's values 2 and 2 in `link_session` and 1 and 1 in the
liveness run, whose cost is the number of states. Three `Runners` are one that checks, one that was started while the lock changed hands and
one more; a trigger that would need a fourth does not come. `Active` names the operations
that occur in a run. A write has two chunks instead of many. The Plant Pro
profile (`spp`) is in `LinkSession` and in no run: it combines the state read of the
classic fixtures with the verified write of the FACEBD ones. The FACEBD profile, whose
operations are the longest, has the large run, the classic one the liveness run. That one has send operations
only: that the clock sync does not block rests on `NoCircularWait`, and what a disconnect between
two attempts of a write leaves behind on `NoStrandedLink`, both of the large run and proved.

In `lifecycle`, `Setups` 2 is a setup and the one of a reload or a resume, `Built` 4 allows
each Device its Client and one after a reset; once the Clients are used up none is made,
which `HoldRearmed` makes an exception for. In `recovery`, `Window` 2, `Reachable` 1 and `Remembered` 1
keep the order of the code's 15 minutes, 5 minutes and Home Assistant's memory of an
advertisement, which is shorter than the window; `Retry` has two
pauses of different length, `Handles` 2 gives a first, a last and one listening between them; two
proxies, so that the remembered one may be the wrong one, one of which cannot free handles. In `preview` a
second user's task would only wait (the lock is `CommandLock`'s), and one element each of
`Looks` and `Frames` tells the state before a preview from the previewed one. In `schedule` a day of 6 minutes with ramps up to 2 and one channel beside
a level list of two has ramps and levels at their upper bounds (what lies beyond the validators refuse), a list
longer than the channels and unsorted points. The cut at midnight is not reached by the requests of the run: it is a
matter of the proofs alone (`MidnightNeverConfirmed`). Two Auto schedules that differ in a ramp tell a
stale readback from a current one. `Polls` 2 is one readback that lags and one that does not.

**Deadlock** is checked in `command_lock`, `link_session_live`, `recovery`, `preview` and the two `schedule`
runs. Elsewhere the system may really stop: all ramps done and no command left to ask for
(`transition`), Home Assistant shut down (`guardian*`, `lifecycle`), the entry unloaded
(`guardian_runner`), the Client stopped (`link_session`).

**`guardian_live` has no readback** (`Readers = {}`) because with one
`NoUnarmedRestore` does not hold: see `guardian` in section 6. The safety run `guardian` has it.

## 4. Fairness

- *CommandLock*: weak fairness of every task's next step. asyncio resumes what is ready in turn and its Lock wakes waiters in FIFO order; a
  running command ends because every transaction has a deadline.
- *Transition*: timers fire, frames and commands end (same deadline), and a
  user command that waits is served (`UserServed` of CommandLock, hence strong).
- *Guardian*, `Scheduling`: steps and resets end (each has a deadline), user commands
  end, an override window expires. `RadioWorks`: a step tried again and again
  succeeds, and reads what the fixture really is at, some time; without this no
  supervision can converge. No fairness is assumed of users, of drift, of the readback's coming, or of
  shutdown.
- *GuardianRunner*: a check ends (its overall deadline; `CheckEnds` of Guardian), the lock is
  handed on, and the interval, which fires for ever, does not fall into somebody's call
  every single time: only then can a rerun that a service's call left behind be served.
- *LinkSession*: every task goes on (strong, since nobody moves while another task
  is between two awaits), a link told to close goes, and a fixture that is connected to again
  and again answers once. Drops, failures and cancellations happen or not.
- *Lifecycle*: Home Assistant goes on with a setup, an unload and its Stage-1 jobs; a
  `stop()` and a reset end (`DISCONNECT_DEADLINE`); the fixture advertises. Commands, the end of a command,
  unload, release and shutdown happen or not.
- *Recovery*: time goes by, timers that are due fire, the supervisor goes round, and a call to a proxy ends by
  its deadline (all weak). `SF(Answer(h))`: a proxy that is asked for a handle again and again
  carries it out some time; a proxy that never does cannot free a ghost. Links, drops,
  power and advertisements happen or not.
- *Preview*: the preview task goes on (weak); a user's command goes on (strong, since it queues
  for a lock that is first come, first served).
- *ScheduleWrites* has no liveness property and assumes no fairness.

## 5. Proofs

TLAPS proves, for every value of the constants:

| Theorem | Statement |
|---|---|
| `CommandLockProofs!TypeCorrect` | `Spec => []TypeOK` |
| `CommandLockProofs!SlotAccounting` | `Spec => []SlotsMatch` |
| `CommandLockProofs!NoLostWakeup` | `Spec => []NoStrandedWaiter` |
| `CommandLockProofs!Refinement` | `Spec => ImplementsPromise` |
| `TransitionProofs!TypeCorrect` | `Spec => []TypeOK` |
| `TransitionProofs!RampStays` | `Spec => []FrameStays` |
| `TransitionProofs!RampYields` | `Spec => NewerCommandStands` |
| `GuardianProofs!TypeCorrect` | `Spec => []TypeOK` |
| `GuardianProofs!UserManualModeStands` | `Readers = {}` implies `Spec => NoUnarmedRestore` |
| `GuardianProofs!ShutdownIsSilent` | `Spec => ShutdownRaisesNothing` |
| `GuardianProofs!RunnerTypeCorrect` | `RunnerSpec => []RunnerTypeOK` |
| `GuardianProofs!TimersDoNotStack` | `RunnerSpec => []OneTimer` |
| `GuardianProofs!DeferralsAreRetried` | `RunnerSpec => []DeferralRearmed` |
| `GuardianProofs!ConnectsAreFollowed` | `RunnerSpec => []RerunFollows` |
| `GuardianProofs!UnloadSilences` | `RunnerSpec => SilentAfterUnload` |
| `LinkSessionProofs!TypeCorrect` | `Spec => []TypeOK` |
| `LinkSessionProofs!LinkNeverStranded` | `Spec => []NoStrandedLink` |
| `LinkSessionProofs!StopIsFinal` | `Spec => []StoppedForGood` |
| `LinkSessionProofs!HoldIsSupervised` | `Spec => []HoldSupervised` |
| `LinkSessionProofs!NoCircle` | `Spec => []NoCircularWait` |
| `LifecycleProofs!TypeCorrect` | `Spec => []TypeOK` |
| `LifecycleProofs!NoOrphanClient` | `Spec => []ClientsOwned` |
| `LifecycleProofs!LatchIsFinal` | `Spec => []ClosedForGood` |
| `LifecycleProofs!ShutdownIsQuiet` | `Spec => []ShutdownQuiet` |
| `RecoveryProofs!TypeCorrect` | `Spec => []TypeOK` |
| `RecoveryProofs!ReturnsAreTracked` | `Spec => []ReturnTracked` |
| `RecoveryProofs!RepairIsExact` | `Remembered < Window` implies `Spec => []RaisedExactly` |
| `RecoveryProofs!SweepsSpareOwnLink` | `Spec => SweepSparesOwnLink` |
| `PreviewProofs!TypeCorrect` | `Spec => []TypeOK` |
| `PreviewProofs!StopIsLasting` | `Spec => []StoppedStaysStopped` |
| `PreviewProofs!StopBringsBack` | `Spec => StopRestores` |
| `ScheduleWritesProofs!InsideDayConfirmed` | an Auto schedule whose ramps lie inside the day is confirmed by its own readback (classic, FACEBD) |
| `ScheduleWritesProofs!MidnightNeverConfirmed` | one with a ramp across midnight never is |
| `ScheduleWritesProofs!PlantProNeverConfirmed` | no Auto schedule on a Plant Pro ever is |
| `ScheduleWritesProofs!ConfirmedIsHeld` | without Plant Pro, `Spec => ConfirmedHeld` |
| `ScheduleWritesProofs!CaptureIsReadback` | without Plant Pro, `Spec => CapturedAsWritten` |
| `ScheduleWritesProofs!HeldIsConfirmed` | without Plant Pro and without ramps over midnight, `Spec => ConfirmedWhenHeld` |

Assumptions: the named ASSUMEs of the modules, which say that tasks are distinct from
the null value, that the kinds of task are disjoint and that bounds are numbers; for
the counting theorems, that the set of tasks is finite. TLC evaluates the
modules' assumptions in every run. In `ScheduleWrites` they say besides that what the services are asked
for passed their validators (`RequestsAssumption`) and that no packet or readback is the null value.
Five theorems assume more. `UserManualModeStands` has
no readbacks, for the reason in section 3. `RepairIsExact` needs that Home Assistant
forgets an advertisement within the window: `_outage_seconds` counts the silence of the radio as an
outage, so with a longer memory a repair could come before the Device had been
unconnected for the window. The three about writes exclude Plant Pro: its Auto readback confirms
nothing, and it is sent and stores levels of channels the fixture does not have, which no readback
compares. `HeldIsConfirmed` excludes ramps over midnight, because those are never confirmed; both
exclusions are theorems of their own (`PlantProNeverConfirmed`, `MidnightNeverConfirmed`).

*CommandLock.* The invariant is `IInv == TypeOK /\ OwnerInv /\ QueueInv /\ EventInv /\ SlotsMatch`:
the owner is exactly the task that runs or resets; the queue holds, once each, the
tasks that are queued; a background task waits for the Event only while it is not
set. `SlotsMatch` alone is not inductive: that `_release_priority_slot` counts down exactly
one needs the queue to list each user once and the running user to be the owner.
`NoStrandedWaiter` follows from `IInv`: when no owner exists a non-empty queue has a head, and a
task that waits for the Event implies, by the count, a user that is queued or
runs. Each action has a lemma. The refinement maps each step to a step of
`PriorityExclusion` or a stutter, with `MayBegin` from the queue and count parts.

*Transition.* `IInv` adds that one task at most is inside and that it is the one
whose stage says so; that a ramp which applies a frame found its generation unmoved
(`Applying`, `Pending`); and that a ramp which was overtaken has
a generation behind the device's (`Overtaken`). From the last two a frame can only land
while `latest` is the ramp itself. `FrameStays` needs `Settled` besides: while a ramp has settled the
fixture, the Device's mode and levels are the fixture's, so a frame that is skipped is one the
fixture shows. Of a ramp that has not settled it claims nothing, because the code gives nothing: a ramp
over remembered levels on a fixture in another mode sends nothing (section 6). Statuses keep
`Settled`, since in manual mode they carry the levels of that mode.

*GuardianRunner.* `RunnerInv` adds to the properties that whoever has the lock has ended the wait of
a deferral (`HolderServes`), that an owed rerun is noted and its runner still in its first
check (`RerunNoted`, of which `RerunFollows` is the visible part), and that an unloaded entry has no timer
(`TimerGone`). `DeferralRearmed` needs `HolderServes`: a timer that fires while
somebody has the lock starts nothing. A trigger's effect on the tasks is the lemma
`Triggering`, on top of `Asking` for the lock.

*Guardian.* `IInv` adds that at most one guardian task is past `_check_lock` and at most one task is inside
the Device (`LockInv`), that a mode the user commanded is the fixture's and the one last heard
(`HeldInv`), and, without readbacks, that a correction which was decided on never waits for
the Device (`EnsureReady`) and is one of an expired override if the user commanded
(`EnsureArmed`). Everything the check computes between two awaits comes to one of two things, it
ends or asks for a next step: the operator `Goes` says so once, one lemma per `After...` shows it,
and `GoesKeeps` does the invariant for all of them. `ShutdownIsSilent` follows because a step
that finds the latch records nothing.

*Lifecycle.* `IInv` adds that the stored runtime was made and only made runtimes have Devices
(`StageInv`), that a task that is not idle works on a Device that exists (`TaskInv`), that a live
Client is the one its Device has (`OwnInv`, of which `ClientsOwned` is the visible part), and that after Stage 1
the stored Device is latched unless its job is still to run (`LatchInv`). The last is why
`ShutdownQuiet` holds for a setup that spans the enumeration: it reads the process latch before
it makes anything. What each way to change Clients does is a lemma of its own (`NewClientOwned`, `DetachOwned`,
`FewerOwned`).

*Recovery.* `Standing` says that the watcher runs exactly while the entry is set up and Home Assistant is, and
that only then there is a link or the word of one; `PassInv` that only the supervisor of such an entry is in a
pass. With them `ReturnTracked` is inductive, and a sweep's next call finds `Supervised` and no link.
`RaisedExactly` needs `OutageInv`: while a held Device is not connected the process's clock *is* the
time it has been so (`DownInv`), over every unload and setup, and a running watcher has a timer
that fires no later than the window ends, or the repair (`Waits`). The core is the lemma `LookMisses`:
whoever makes the watcher look (a notification, a timer, a setup, an advertisement) leaves the
timer where it belongs.

*Preview.* `IInv` adds that a user's place tells whether it waits for the lock or has it (`PlaceInv`, `PlayerInv`), that a
stop which is past its cancellation has no task of the editor's preview beside it, since that
task needs the lock to come to its next frame and only the holder can start another (`HaltInv`), and that a native preview the Device
does not know of is a stray one (`ShowInv`). `StopRestores` adds `Turn`, which says what holds
while a command runs: of the two kinds of preview only one is on, and as long as no stop has succeeded the state to come back to
is with what the editor's preview has saved (`EditorHas`), with the mode a native preview has saved and the untouched
levels (`NativeHas`), or already with the fixture (`FixtureHas`); a command passes it from one to the other only at the
places `Passing`. The frames of the editor's preview cannot spoil it: they are sent only while the saved state is
there, and take the fixture to manual mode and nowhere else.

*LinkSession.* The procedures have levels (`Level`), and a frame lies only above frames whose calls reach
its level (`Reach`, `Nested`, `Fits`): that bounds the stacks and says which locks a task may have. `IInv` adds that
one task at most is connecting (`Alone`), that a frame which works on a live link implies that there is one
(`LiveInv`), and what holds of the link, the notifications, the latch and the supervisor between
each await and the next (`NotifyInv`, `StopInv`, `HoldInv`). A step changes the stack of the running task
in one of a few ways (a frame goes on, calls, returns or fades), and a lemma for each does the invariant for all the
procedures. `NoCircularWait` follows from one order in which everybody takes the four locks: initialisation, clock,
command, connection. A task that waits for one has only earlier ones (`LockOrder`), so in a circle the
holder of the latest lock awaited would wait for a later one still.

*ScheduleCodec.* What a sunrise, a sunset, a sleep time and levels come back as are four lemmas; the
encoder cuts a ramp at midnight, so the readback equals the request exactly when nothing was cut. For the
writes, `Codec` sums up what they need: a readback that confirms a request comes from that request's packet
(`AutoOnto`, `ProOnto`), and a readback that is captured and asked for again is encoded to the packet it came from
(`AutoAgain`, `ProAgain`; for Professional points, `CanonicalPoints` is a stable sort that leaves sorted points alone).

*ScheduleWrites.* `IInv` says what an undisturbed write knows of the fixture (`Sure`). Until it is confirmed, it is
`Fresh` (the fixture has settled, and what is known is true or is not what is asked for) or `Lagging` (the fixture
has the schedule, and neither its old one nor the known one confirms); once confirmed, it is `Proven`. A notification or
a readback moves a write from `Lagging` to `Fresh` but never back (`HearingKeeps`), a send the other way, which is
where `Codec` is needed (`SendingKeeps`), and a confirmation under either is a true one (`OpenConfirmed`). TLC
finds that without the condition of `Settled` at the beginning the old schedule would confirm.

Only model-checked: liveness under fairness (`UserServed`, `BackgroundServed`, `RampEnds`, `CheckEnds`, `SupervisionConverges`,
`RerunServed`, `HeldLinkReturns`, `CommandReturns`, `ShutdownReleases`, `HoldRearmed`, `GhostFreed`, `StopReturns`), which is out of
the prover's reach. Every invariant and every action property of the passing runs has its theorem.

## 6. Findings

`schedule_plant_pro` is a disagreement of code and documentation, with a counterexample;
`PROJECT.json` has the lines. `async_set_native_auto_schedule` (`core/device.py` 1576-1584)
promises that the write "compares it against what was requested; a mismatch retries the whole
write once before failing". A Plant Pro's readback has texts for times (`core/protocol.py` 720-728),
which the comparison does not understand: a schedule the fixture accepted, stored and
runs is written twice and reported as unverified, always (`PlantProNeverConfirmed`). For the same
reason the guardian's repush of a captured Plant Pro schedule is refused before it is sent (`core/device.py` 1591-1596).

Seen while modelling, without a run. Each is what the code does and the models say; whether it should is for the code's
authors.

*Guardian and ramps*
- A frame whose levels the Device remembers counts as done with nothing sent and without a look at the mode
  (`core/device.py` 2107-2109, `SkipStep`): a `set_channels` ramp to the levels of an earlier manual phase, on a
  fixture that has since gone to its schedule, completes and leaves the schedule running. `FrameStays`
  is therefore about ramps that have settled the fixture in manual mode.
- When a single channel differs from the remembered levels only that one is sent (2112-2114): if the memory is
  stale the other channels stay as the fixture has them, and the frame reports success.
- A guardian clock sync or state read between two frames of a ramp moves
  `_command_generation` and ends the ramp, though nobody gave a newer command (`core/device.py` 2078).
- A check's decision goes stale while it queues behind a schedule's readback and then a user command: it
  takes the fixture out of the manual mode just commanded. Without readbacks it cannot
  (`UserManualModeStands`).
- Restores of an expired override that fail again and again never raise the problem: a failed restore forgets the
  override, and the next check starts a new window and counts as OK (`core/guardian.py` 394).
- A guardian step's deadline also runs while it waits for the lock; on
  expiry it resets the connection under the user command it waits for (`core/guardian.py` 510).
- A connect during a service's check, during `async_end_override` or during the second of a runner's
  two checks is not followed by a check "as soon as it finishes" (`core/guardian.py` 635-638): the flag
  waits for the next interval's check, as `RerunServed` says; a retry timer that fires during
  `async_end_override` starts nothing and is not armed again.

*Link and connection status*
- With a finite `active_time` a link opened by a state read while no supervisor runs is never released
  (`core/client.py` 929).
- `_connect` and `ensure_connected` report "not connected" for a `BleakError` of the initialisation too, with the link
  still up (`core/client.py` 616-631, 685-701): the watcher then counts a live link as an outage, and the repair,
  "once this integration's own GATT link has been continuously down" (`core/recovery.py` 19), may come
  while it is up. `RaisedExactly` is therefore about the Device's word, not about the link.
- `_ensure_client` that replaces a link which timed out, and fails, reports nothing: `connected` stays
  true with no link until the next report (action `Replaced`). Likewise when the link drops during
  `start_notify`: the status callback still reports it (`core/client.py` 572), and `send_now`'s
  failure path (1096-1116) may report down after another task has reconnected.
- A link that the local adapter carries leaves an older proxy remembered, which the ghost release then asks.
- A ghost pass asks the proxy by handle number: a link that is just being made through the same proxy may
  be among them. `SweepSparesOwnLink` holds for links that are up. A ghost that formed before the first
  `session_started` is not swept.

*Life cycle*
- Unload sets no latch: neither `Device.closing` nor `runtime.closing` is set and `device.client` is not cleared
  (`__init__.py` 1667-1693), so an advertisement or a command that is still under way during its await
  may make a new Client on the Device that is being unloaded. It is owned by its Device (`ClientsOwned`) and
  released at shutdown only if that Device is still the entry's.
- Two overlapping resets share `_resetting`; the first to end clears it (`core/device.py` 742). An advertisement may then
  re-arm the hold while the second still stops its Client; no Client is lost by it.
- Unload stops previews (`__init__.py` 1677), but not ramps.

*Schedules*
- A ramp that crosses midnight is accepted by the services, cut by the encoder and never verified
  (`MidnightNeverConfirmed`): the service fails although the fixture stores the cut schedule.
- `expected_schedule` does not say whether it is an Auto or a Professional schedule; after the guarded mode
  changes, a repush of the other kind raises or is refused (`core/guardian.py` 523-535).
- Between a schedule write and the capture of its readback the guardian still enforces the previous schedule and
  may write it again; what is captured is then that one (`CapturedAsWritten` excludes it by `calm`).
- `request_state` returns False without raising when the fixture stays silent; the verification and `async_read_state` then use
  the cached values as if they were fresh (`core/device.py` 1691, 3094).
- `_async_save_schedule` and `_async_save_effect_schedule` each load, change and save the whole store
  (`__init__.py` 1457-1513) with awaits in between: two that overlap lose one of the updates.

*Previews*
- A write that failed but reached the fixture rolls the Device's values back; a stop then believes the fixture is at the saved levels and
  sends nothing (`ChannelWrite`'s shortcut). `StopRestores` makes the exception.
- When the first packet of a native preview fails but reached the fixture, the Device does not know of
  the preview, and a later stop does not end it (`stray`).
- `async_stop_preview` forgets the saved state before it puts it back (`core/device.py` 2303-2312): a stop that fails cannot be
  repeated. A preview that ends by itself leaves the saved state behind.
- `old_values` is a snapshot taken before the awaits of a write; rolling back to it also discards what notifications brought
  meanwhile.

## 7. Not modelled

- Presentation, tables and forms (entities except the transactions of light and mode selector, card, colour,
  effects, products, discovery, config flow, diagnostics): no state that interleaves, floating point or I/O.
- Proxy affinity: a preference within the scores of a library.
- Of the schedules: the Store of editor points and its legacy migration, timed-effect windows.
- Of the protocols: framing, XOR, CBOR, channel and mode packets, the clock packet.
- Of the entry: registry migrations, options updates, several entries in one `release_link`.
- With a finite `active_time`, the supervisor's looks at a ghost.
- Wall-clock amounts: deadlines, pauses and windows expire nondeterministically (in `Recovery`, in ticks), so
  the results hold for any values of them.

## 8. Plan

The modules planned for the integration's core are written. What is left, in order of importance:

1. The Store of editor points with its lost update and the legacy migration (`__init__.py` 1380-1660), on top of `ScheduleWrites`.
2. Timed-effect windows of `core/protocol.py` in `ScheduleCodec`.
3. `Recovery` with the supervisor's looks under a finite `active_time`.
