-------------------------- MODULE ScheduleWrites --------------------------
(***************************************************************************)
(* Writing a schedule into a fixture and keeping it there: the service     *)
(* actions (__init__.py) write one, have it read back and compared         *)
(* (core/device.py) and capture the readback as the schedule to enforce;   *)
(* the guardian's check (core/guardian.py) compares the fixture with it    *)
(* and writes it again.  Each command is one transaction of the device     *)
(* lock; between the service's write and its capture, and between the      *)
(* guardian's read and its write, others may run.  Who waits first does    *)
(* not matter here: any waiting task may be next.                          *)
(*                                                                         *)
(* A fixture answers a status read after a write with its previous         *)
(* schedule for a while, and a write it accepted may have been ignored.    *)
(***************************************************************************)
EXTENDS ScheduleCodec

CONSTANTS Kinds,        \* protocols the fixture may speak
          Channels,     \* channels of the fixture
          Autos, Pros,  \* the schedules the services are asked to write
          Polls,        \* readbacks of one attempt: len(SCHEDULE_VERIFY_SETTLE)
          Target        \* the mode the guardian enforces

ASSUME KindsAssumption == Kinds \subseteq Protocols
ASSUME ChannelsAssumption == Channels \in 1..Width
ASSUME PollsAssumption == Polls \in Nat \ {0}
ASSUME TargetAssumption == Target \in {"automatic", "professional"}
ASSUME RequestsAssumption == Autos \subseteq AutoRequests /\ Pros \subseteq ProRequests

(* None is no schedule, neither as a packet nor as a readback.             *)
ASSUME NoneAssumption ==
  \A p \in Kinds :
    /\ \A s \in Autos : LET m == AutoPacket(p, Channels, s) IN None \notin {m, DecodedAuto(p, m)}
    /\ \A s \in Pros :
         LET m == ProPacket(p, Channels, CanonicalPoints(s))
             r == DecodedPro(p, m) IN None \notin {m, r, CanonicalPoints(r)}

Whats == {"auto", "pro"}
Tasks == {"service", "guardian"}
ModeOf(w) == IF w = "auto" THEN "automatic" ELSE "professional"
WhatOf(m) == IF m = "automatic" THEN "auto" ELSE "pro"

VARIABLES
  kind,             \* the protocol of this fixture
  fmode, mem, old,  \* the fixture: mode, stored schedules, the ones before them
  kmode, known,     \* Device.values: mode and native schedules
  expected,         \* expected_schedule, in the options and in the guardian
  holder,           \* the task inside the device lock
  job,              \* what each task is at
  calm              \* history: nobody else touched the schedule of the task's job

fixture == <<fmode, mem, old>>
values == <<kmode, known>>
vars == <<kind, fixture, values, expected, holder, job, calm>>

Job(at, w, s) ==
  [at |-> at, what |-> w, req |-> s, again |-> TRUE, left |-> Polls, heard |-> "nothing"]
Rest == Job("idle", "auto", None)
Nothing == [what |-> "auto", value |-> None]

(* A schedule as its packet, as its readback, and compared.                *)
Packet(w, s) ==
  IF w = "auto" THEN AutoPacket(kind, Channels, s) ELSE ProPacket(kind, Channels, s)

Decoded(w, m) ==
  IF m = None THEN None ELSE IF w = "auto" THEN DecodedAuto(kind, m) ELSE DecodedPro(kind, m)

Mismatch(w, s, r) ==
  IF w = "auto" THEN AutoMismatch(s, r, Channels)
  ELSE ProMismatch(s, IF r = None THEN None ELSE CanonicalPoints(r), Channels)

Init ==
  /\ kind \in Kinds
  /\ fmode \in {"manual", "automatic"}
  /\ mem = [w \in Whats |-> None] /\ old = None
  /\ kmode = fmode /\ known = mem
  /\ expected = Nothing
  /\ holder = None
  /\ job = [t \in Tasks |-> Rest]
  /\ calm = [t \in Tasks |-> FALSE]

-----------------------------------------------------------------------------
(* A status answer reports the mode and, on a classic fixture, only the    *)
(* schedule of that mode; it may still be the previous one.                *)
Reported(m) ==
  [w \in Whats |-> IF m[w] = None \/ (kind = "classic" /\ fmode # ModeOf(w))
                   THEN known[w] ELSE Decoded(w, m[w])]

Hears(which) ==
  /\ kmode' = fmode
  /\ \/ which = "current" /\ known' = Reported(mem) /\ old' = None
     \/ which = "previous" /\ old # None /\ known' = Reported(old) /\ UNCHANGED old

(* request_state returns without an answer too: what was known stands.     *)
Asked(which) ==
  \/ which \in {"current", "previous"} /\ Hears(which)
  \/ which \in {"silence", "error"} /\ UNCHANGED <<values, old>>

Answers == {"current", "previous", "silence", "error"}

(* The fixture reports without being asked.                                *)
Notified ==
  /\ \E which \in {"current", "previous"} : Hears(which)
  /\ UNCHANGED <<kind, fmode, mem, expected, holder, job, calm>>

(* The app writes a schedule, or a button puts the fixture in manual mode. *)
AppWrites ==
  /\ \/ \E s \in Autos : mem' = [mem EXCEPT !["auto"] = Packet("auto", s)] /\ fmode' = "automatic"
     \/ fmode' = "manual" /\ UNCHANGED mem
  /\ calm' = [t \in Tasks |-> FALSE]
  /\ UNCHANGED <<kind, old, values, expected, holder, job>>

-----------------------------------------------------------------------------
(* async_set_native_auto_schedule and async_set_native_pro_schedule.       *)
Acceptable(w, s) ==
  IF w = "auto"
    THEN NormalizedTimeRamp(s.sunrise) # <<>> /\ NormalizedTimeRamp(s.sunset) # <<>>
    ELSE PointCountValid(kind, s)

Free(t) == holder = None /\ holder' = t
Leave == holder' = None

Done(t) == job' = [job EXCEPT ![t] = Rest]

(* A service is called with a validated schedule.                          *)
Call ==
  /\ job["service"].at = "idle"
  /\ \/ \E s \in Autos : job' = [job EXCEPT !["service"] = Job("queued", "auto", s)]
     \/ \E s \in Pros :
          job' = [job EXCEPT !["service"] = Job("queued", "pro", CanonicalPoints(s))]
  /\ UNCHANGED <<kind, fixture, values, expected, holder, calm>>

(* The fixture has settled, and what is known of it is true, or not what   *)
(* is asked for.                                                           *)
Settled(w, s) ==
  /\ old = None
  /\ known[w] = Decoded(w, mem[w]) \/ Mismatch(w, s, known[w]) # "none"

WriteBegins(t) ==
  /\ job[t].at = "queued"
  /\ holder = None
  /\ IF Acceptable(job[t].what, job[t].req)
       THEN /\ holder' = t
            /\ job' = [job EXCEPT ![t].at = "send"]
            /\ calm' = [calm EXCEPT ![t] = Settled(job[t].what, job[t].req)]
       ELSE Done(t) /\ UNCHANGED <<holder, calm>>
  /\ UNCHANGED <<kind, fixture, values, expected>>

(* The packet of the schedule: accepted and stored, accepted and ignored,  *)
(* or failed with or without an effect.                                    *)
Send(t) ==
  /\ job[t].at = "send"
  /\ \/ /\ mem' = [mem EXCEPT ![job[t].what] = Packet(job[t].what, job[t].req)]
        /\ old' = IF mem' = mem THEN old ELSE mem
     \/ UNCHANGED <<mem, old>>
  /\ calm' = [calm EXCEPT ![CHOOSE o \in Tasks : o # t] = FALSE]
  /\ \/ job' = [job EXCEPT ![t].at = "mode"] /\ UNCHANGED holder
     \/ Done(t) /\ Leave
  /\ UNCHANGED <<kind, fmode, values, expected>>

(* The packet of the mode that runs the schedule is confirmed by its own   *)
(* readback, which an unanswered one replaces by what was known.           *)
Activate(t) ==
  LET m == ModeOf(job[t].what) IN
  /\ job[t].at = "mode"
  /\ \/ /\ fmode' = m \/ (kmode = m /\ UNCHANGED fmode)
        /\ kmode' = m
        /\ job' = [job EXCEPT ![t].at = "verify"] /\ UNCHANGED holder
     \/ /\ fmode' \in {fmode, m} /\ kmode' \in {kmode, fmode'}
        /\ Done(t) /\ Leave
  /\ UNCHANGED <<kind, mem, old, known, expected, calm>>

(* mutant: a readback that failed confirms                                 *)
ConfirmsLoosely(j, which) == which = "error" \/ Mismatch(j.what, j.req, known'[j.what]) = "none"

(* One readback of the verification confirms unless it failed.             *)
Confirms(j, which) == which # "error" /\ Mismatch(j.what, j.req, known'[j.what]) = "none"

(* The polls of an attempt; then the whole write is tried once more.       *)
Verify(t) ==
  LET j == job[t] IN
  /\ j.at = "verify"
  /\ \E which \in Answers :
       /\ Asked(which)
       /\ \/ /\ Confirms(j, which)
             /\ job' = [job EXCEPT ![t] = [j EXCEPT !.at = "confirmed"]]
          \/ /\ ~Confirms(j, which)
             /\ job' = [job EXCEPT ![t] =
                  IF j.left > 1 THEN [j EXCEPT !.left = @ - 1]
                  ELSE IF j.again THEN [j EXCEPT !.at = "send", !.left = Polls, !.again = FALSE]
                  ELSE [j EXCEPT !.at = "unverified", !.heard = which]]
  /\ UNCHANGED <<kind, fmode, mem, expected, holder, calm>>

(* The write returns: the service goes on to the capture, the guardian's   *)
(* check is over.                                                          *)
WriteEnds(t) ==
  /\ job[t].at \in {"confirmed", "unverified"}
  /\ Leave
  /\ IF job[t].at = "confirmed" THEN kmode' = ModeOf(job[t].what) ELSE UNCHANGED kmode
  /\ IF job[t].at = "confirmed" /\ t = "service"
       THEN job' = [job EXCEPT ![t].at = "capture"]
       ELSE Done(t)
  /\ UNCHANGED <<kind, fixture, known, expected, calm>>

(* SCHEDULE_COMMAND_DEADLINE, or the deadline of the guardian's step.      *)
Deadline(t) ==
  /\ job[t].at \in {"queued", "send", "mode", "verify"}
  /\ IF holder = t THEN Leave ELSE UNCHANGED holder
  /\ Done(t)
  /\ UNCHANGED <<kind, fixture, values, expected, calm>>

-----------------------------------------------------------------------------
(* mutant: the capture keeps the validated input instead of the readback   *)
CaptureOfInput ==
  /\ job["service"].at = "capture" /\ holder = None
  /\ UNCHANGED <<values, old>>
  /\ expected' = [what |-> job["service"].what, value |-> job["service"].req]
  /\ Done("service")
  /\ UNCHANGED <<kind, fmode, mem, holder, calm>>

(* _async_capture_expected_schedule, a transaction of its own: only the    *)
(* schedule of the mode the fixture is known to be in is captured.         *)
Capture ==
  /\ job["service"].at = "capture" /\ holder = None
  /\ \E which \in Answers :
       /\ Asked(which)
       /\ LET w == job["service"].what IN
          expected' = IF which # "error" /\ kmode' = ModeOf(w) /\ known'[w] # None
                      THEN [what |-> w, value |-> known'[w]] ELSE expected
  /\ Done("service")
  /\ UNCHANGED <<kind, fmode, mem, holder, calm>>

-----------------------------------------------------------------------------
(* The guardian's check: read; bring the mode back, and read again;        *)
(* compare, and write the expected schedule again.  The schedule it has    *)
(* does not say of which kind it is: written as the other kind it raises   *)
(* or is refused, and the check has failed.                                *)
Drifted == expected # Nothing /\ known'[expected.what] # expected.value

Repush ==
  Job("queued", expected.what, IF expected.what = "auto" THEN expected.value
                               ELSE CanonicalPoints(expected.value))

Reconciled == IF Drifted /\ expected.what = WhatOf(Target) THEN Repush ELSE Rest

GuardianReads ==
  /\ job["guardian"].at \in {"idle", "reread"} /\ holder = None
  /\ \E which \in Answers :
       /\ Asked(which)
       /\ job' = [job EXCEPT !["guardian"] =
                    IF which = "error" THEN Rest
                    ELSE IF kmode' = Target THEN Reconciled
                    ELSE IF @.at = "idle" THEN Job("ensure", "auto", None) ELSE Rest]
  /\ UNCHANGED <<kind, fmode, mem, expected, holder, calm>>

(* async_ensure_mode, unless a manual override is still in its grace.      *)
GuardianEnsures ==
  /\ job["guardian"].at = "ensure" /\ holder = None
  /\ \/ /\ kmode = Target /\ UNCHANGED <<fmode, kmode>>
        /\ job' = [job EXCEPT !["guardian"].at = "reread"]
     \/ /\ kmode # Target /\ fmode' = Target /\ kmode' = Target
        /\ job' = [job EXCEPT !["guardian"].at = "reread"]
     \/ /\ kmode # Target /\ fmode' \in {fmode, Target} /\ UNCHANGED kmode
        /\ Done("guardian")
  /\ UNCHANGED <<kind, mem, old, known, expected, holder, calm>>

-----------------------------------------------------------------------------
Write(t) == WriteBegins(t) \/ Send(t) \/ Activate(t) \/ Verify(t) \/ WriteEnds(t) \/ Deadline(t)

Next ==
  \/ Call \/ Capture
  \/ GuardianReads \/ GuardianEnsures
  \/ \E t \in Tasks : Write(t)
  \/ Notified \/ AppWrites

Spec == Init /\ [][Next]_vars

-----------------------------------------------------------------------------
(* The docstring of the write: a readback confirms it, a successful write  *)
(* is not trusted.  When a write returns that nobody else disturbed, the   *)
(* fixture holds the schedule.                                             *)
ConfirmedHeld ==
  [][\A t \in Tasks :
       job[t].at = "confirmed" /\ WriteEnds(t) /\ calm[t]
         => mem[job[t].what] = Packet(job[t].what, job[t].req)]_vars

(* The other way round: a write is not refused as unverified when its last *)
(* readback brought the current state of a fixture that holds the schedule *)
(* and runs it.                                                            *)
ConfirmedWhenHeld ==
  [][\A t \in Tasks :
       Verify(t) /\ job'[t].at = "unverified" /\ job'[t].heard = "current"
         => ~ /\ mem[job[t].what] = Packet(job[t].what, job[t].req)
              /\ fmode = ModeOf(job[t].what)]_vars

(* What a service captures to be enforced is the readback of what it wrote *)
(* - a fixture that still holds it is no drift to the next check - unless  *)
(* another write or the app came between.                                  *)
CapturedAsWritten ==
  [][Capture /\ calm["service"] /\ expected' # expected
       => /\ expected'.value = Decoded(expected'.what, mem[expected'.what])
          /\ Mismatch(expected'.what, job["service"].req, expected'.value) = "none"]_vars
=============================================================================
