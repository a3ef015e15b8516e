---------------------------- MODULE LinkSession ----------------------------
(***************************************************************************)
(* Client (core/client.py): the GATT link of one fixture.  Its tasks are   *)
(* connect_task, the supervisor (ping_task), one command of the Device at  *)
(* a time (command_transaction sees to that) and stop().  They share the   *)
(* procedures _ensure_client, _initialize_session, send_now, request_state *)
(* and _write_packet, under four locks: the Client's connection,           *)
(* initialization and command locks, and the Device's clock-sync lock,     *)
(* which the callbacks of an initialization take.                          *)
(*                                                                         *)
(* A task is a stack of frames, innermost first; a frame says what the     *)
(* procedure awaits, or which of its calls is running.  A task runs until  *)
(* it awaits, and nobody else moves meanwhile: turn is the task that runs. *)
(* A lock is held by the task that has a frame in its Scope.               *)
(*                                                                         *)
(* The fixture takes one controller, so there is at most one physical link;*)
(* a frame that works on it holds "live" until the link goes, then "gone". *)
(* Left out: the status, activity and statistics callbacks, which only     *)
(* report the link to the Device; send() and disconnect(), which nothing   *)
(* calls; the release of a silent ghost, but for the await it is.          *)
(***************************************************************************)
EXTENDS Naturals, Sequences

CONSTANTS None,                  \* no link, no task
          Holds,                 \* the values of active_time = 0 considered
          Profiles,              \* the GATT profiles considered
          WriteRetries, Copies,  \* WRITE_RETRIES, UNVERIFIED_WRITE_COPIES
          Active                 \* the operations that occur: see Operations

Tasks == {"connect", "supervisor", "command", "stop"}

ASSUME OptionsKnown ==
  /\ None \notin Tasks \cup {"live", "gone"}
  /\ Holds \subseteq BOOLEAN /\ Profiles \subseteq {"facebd", "spp", "classic"}
  /\ WriteRetries \in Nat \ {0} /\ Copies \in Nat \ {0}
  /\ Active \subseteq {"prepare", "sync", "send", "read", "stop"}

(* mutant: the supervisor initializes the session under the command lock   *)
ScopeOfCycle == [
  connection |-> {"ensure.stale", "ensure.connect", "ensure.notify", "ensure.abort",
                  "ensure.cancel"},
  init |-> {"init.wake", "init.ready", "init.gap", "init.write", "init.read", "init.zone"},
  clock |-> {"clock.send", "zone.send", "sync.send", "sync.read", "sync.zone"},
  command |-> {"send.ensure", "send.gap", "send.write", "send.settle", "send.verify",
               "send.drop", "loop.ensure", "loop.init", "loop.drop"}]

(* The frames that hold each lock, and those that wait for one.            *)
Scope == [
  connection |-> {"ensure.stale", "ensure.connect", "ensure.notify", "ensure.abort",
                  "ensure.cancel"},
  init |-> {"init.wake", "init.ready", "init.gap", "init.write", "init.read", "init.zone"},
  clock |-> {"clock.send", "zone.send", "sync.send", "sync.read", "sync.zone"},
  command |-> {"send.ensure", "send.gap", "send.write", "send.settle", "send.verify",
               "send.drop", "loop.ensure", "loop.drop"}]
Waits == [
  connection |-> {"ensure.lock"},
  init |-> {"init.lock"},
  clock |-> {"clock.lock", "zone.lock", "sync.lock"},
  command |-> {"send.lock", "loop.lock", "loop.idle"}]
Locks == DOMAIN Scope

Places == (UNION {Scope[k] \cup Waits[k] : k \in Locks}) \cup
  {"connect.ensure", "connect.init", "loop.top", "loop.init", "loop.beat",
   "write", "write.last", "write.drop", "read.ensure", "read.gap", "read.write", "read.notify",
   "prepare.ensure", "prepare.init", "command.prepare", "command.send", "command.read",
   "sync.prepare", "stop.supervisor", "stop.connect", "stop.notify", "stop.drop"}

VARIABLES
  hold, profile,      \* active_time = 0; the profile: both fixed
  stack, turn, res,   \* the tasks; the one that runs; what its last call returned
  client, radio,      \* Client.client; the physical link
  broken, sess,       \* _broken, _session_initialized
  warm, stopping      \* time.time() < ping_time; _stopping

options == <<hold, profile>>
tasks == <<stack, turn, res>>
link == <<client, radio, broken, sess>>
life == <<warm, stopping>>
vars == <<options, tasks, link, life>>

(* n counts the writes of a send_now, and is 0 in any other frame.         *)
Frame(at, l) == [at |-> at, link |-> l, n |-> 0]
Attempt(at, n) == [at |-> at, link |-> None, n |-> n]
Frames == [at : Places, link : {None, "live", "gone"}, n : 0 .. WriteRetries * Copies]
Top(t) == Head(stack[t])

(* A Client starts its connect_task as it is made.                         *)
ConnectCall == <<Frame("ensure.lock", None), Frame("connect.ensure", None)>>

Init ==
  /\ hold \in Holds /\ profile \in Profiles
  /\ stack = [t \in Tasks |-> IF t = "connect" THEN ConnectCall ELSE <<>>]
  /\ turn = None /\ res = "ok"
  /\ client = None /\ radio = "down" /\ broken = FALSE /\ sess = FALSE
  /\ warm = FALSE /\ stopping = FALSE

-----------------------------------------------------------------------------
(* How a task moves.                                                       *)
HasLock(t, k) == \E i \in DOMAIN stack[t] : stack[t][i].at \in Scope[k]
Free(k) == \A t \in Tasks : ~HasLock(t, k)

(* What t awaits at a place is over; a call made there has returned; t     *)
(* takes lock k, at once or after a wait.                                  *)
Awaits(t, at) == turn = None /\ stack[t] # <<>> /\ Top(t).at = at
Resumes(t, at) == turn = t /\ Top(t).at = at
Acquires(t, at, k) == turn \in {None, t} /\ stack[t] # <<>> /\ Top(t).at = at /\ Free(k)

(* t goes on to await f; asks for a lock at f; makes a call and resumes at *)
(* f; returns r, s being the stacks without the callee; ends altogether.   *)
To(t, f) == stack' = [stack EXCEPT ![t] = <<f>> \o Tail(@)] /\ turn' = None /\ res' = "ok"
Asks(t, f) == stack' = [stack EXCEPT ![t] = <<f>> \o Tail(@)] /\ turn' = t /\ res' = "ok"
Calls(t, f, callee) ==
  stack' = [stack EXCEPT ![t] = callee \o <<f>> \o Tail(@)] /\ turn' = t /\ res' = "ok"
ReturnsTo(s, t, r) ==
  /\ stack' = s
  /\ turn' = IF s[t] = <<>> THEN None ELSE t
  /\ res' = IF s[t] = <<>> THEN "ok" ELSE r
Popped(t) == [stack EXCEPT ![t] = Tail(@)]
Returns(t, r) == ReturnsTo(Popped(t), t, r)
ReturnsLink(t, l) ==
  ReturnsTo([stack EXCEPT ![t] = <<[Head(Tail(@)) EXCEPT !.link = l]>> \o Tail(Tail(@))], t, "ok")
Ends(t) == stack' = [stack EXCEPT ![t] = <<>>] /\ turn' = None /\ res' = "ok"

(* The lock is taken: t awaits it.                                         *)
Yields(t) ==
  /\ turn = t
  /\ \E k \in Locks : Top(t).at \in Waits[k] /\ ~Free(k)
  /\ turn' = None
  /\ UNCHANGED <<options, stack, res, link, life>>

(* ping(): a supervisor runs (and the idle deadline moves on).             *)
Pinged(s) ==
  IF s["supervisor"] # <<>> THEN s
  ELSE [s EXCEPT !["supervisor"] = <<Frame("loop.top", None)>>]

(* A disconnect is asked for.  It is awaited for a bounded time only, so   *)
(* the link may outlast the wait: LinkDown ends it.                        *)
Closing(l) == radio' = IF l = "live" THEN "closing" ELSE radio
Forgets == client' = None /\ sess' = FALSE /\ Closing(client)

-----------------------------------------------------------------------------
(* _ensure_client.                                                         *)
EnsureBegins(t) ==
  /\ Acquires(t, "ensure.lock", "connection")
  /\ \/ stopping /\ Returns(t, "error") /\ UNCHANGED link
     \/ ~stopping /\ client = "live" /\ ~broken /\ ReturnsLink(t, client) /\ UNCHANGED link
     \/ /\ ~stopping /\ (client = None \/ broken)
        /\ Forgets /\ broken' = FALSE
        /\ To(t, Frame(IF client = None THEN "ensure.connect" ELSE "ensure.stale", None))
  /\ UNCHANGED <<options, life>>

EnsureStale(t) ==
  /\ Awaits(t, "ensure.stale")
  /\ To(t, Frame("ensure.connect", None))
  /\ UNCHANGED <<options, link, life>>

(* mutant: the Client is not asked again whether it has been stopped       *)
EnsureConnectsStopped(t) ==
  /\ Awaits(t, "ensure.connect") /\ radio = "down"
  /\ \/ client' = "live" /\ radio' = "up" /\ To(t, Frame("ensure.notify", "live"))
     \/ UNCHANGED client /\ radio' = "closing" /\ To(t, Frame("ensure.abort", None))
  /\ UNCHANGED <<options, broken, sess, life>>

(* A link is up.  It is dropped again when the Client has been stopped     *)
(* meanwhile, or its characteristics cannot be resolved.                   *)
EnsureConnects(t) ==
  /\ Awaits(t, "ensure.connect") /\ radio = "down"
  /\ \/ /\ ~stopping
        /\ client' = "live" /\ radio' = "up"
        /\ To(t, Frame("ensure.notify", "live"))
     \/ /\ UNCHANGED client /\ radio' = "closing"
        /\ To(t, Frame("ensure.abort", None))
  /\ UNCHANGED <<options, broken, sess, life>>

EnsureFails(t) ==
  /\ Awaits(t, "ensure.connect")
  /\ broken' \in {broken, TRUE}
  /\ Returns(t, "error")
  /\ UNCHANGED <<options, client, radio, sess, life>>

(* The subscriptions are made; BleakErrors among them are ignored, so the  *)
(* link that is returned may be gone.                                      *)
EnsureSubscribed(t) ==
  /\ Awaits(t, "ensure.notify")
  /\ broken' = FALSE
  /\ ReturnsLink(t, Top(t).link)
  /\ UNCHANGED <<options, client, radio, sess, life>>

(* mutant: the link that could not be subscribed is only forgotten         *)
EnsureAbortsForgetful(t) ==
  /\ Awaits(t, "ensure.notify")
  /\ client' = None /\ UNCHANGED radio
  /\ To(t, Frame("ensure.abort", None))
  /\ UNCHANGED <<options, broken, sess, life>>

EnsureAborts(t) ==
  /\ Awaits(t, "ensure.notify")
  /\ client' = None /\ Closing(Top(t).link)
  /\ To(t, Frame("ensure.abort", None))
  /\ UNCHANGED <<options, broken, sess, life>>

EnsureReleased(t) ==
  /\ Awaits(t, "ensure.abort")
  /\ Returns(t, "error")
  /\ UNCHANGED <<options, link, life>>

Ensure(t) ==
  \/ EnsureStale(t) \/ EnsureConnects(t) \/ EnsureFails(t)
  \/ EnsureSubscribed(t) \/ EnsureAborts(t) \/ EnsureReleased(t)

-----------------------------------------------------------------------------
(* _write_packet: a packet goes in chunks, each to the client of that      *)
(* moment; two chunks stand for any number.  Without a client it raises    *)
(* an AttributeError, here "crash".                                        *)
CallsWrite(t, f) ==
  IF client = None
  THEN stack' = [stack EXCEPT ![t] = <<f>> \o Tail(@)] /\ turn' = t /\ res' = "crash"
  ELSE /\ stack' = [stack EXCEPT ![t] = <<Frame("write", client), f>> \o Tail(@)]
       /\ turn' = None /\ res' = "ok"

WriteEnds(t) ==
  /\ Awaits(t, "write") \/ Awaits(t, "write.last")
  /\ \/ Top(t).link = "live" /\ Returns(t, "ok")
     \/ Returns(t, "error")
     \/ client = None /\ Returns(t, "crash")
     \/ /\ Top(t).at = "write" /\ client \notin {None, Top(t).link}
        /\ To(t, Frame("write.last", client))
  /\ UNCHANGED <<options, link, life>>

WriteTimesOut(t) ==
  /\ Awaits(t, "write") \/ Awaits(t, "write.last")
  /\ broken' = TRUE /\ Closing(Top(t).link)
  /\ To(t, Frame("write.drop", None))
  /\ UNCHANGED <<options, client, sess, life>>

WriteDropped(t) ==
  /\ Awaits(t, "write.drop")
  /\ Returns(t, "error")
  /\ UNCHANGED <<options, link, life>>

(* request_state: "ok" when the fixture answered as expected, else "no".   *)
ReadCall == <<Frame("ensure.lock", None), Frame("read.ensure", None)>>

ReadEnsured(t) ==
  /\ Resumes(t, "read.ensure")
  /\ IF res = "ok" THEN To(t, Frame("read.gap", None)) ELSE Returns(t, "error")
  /\ UNCHANGED <<options, link, life>>

ReadAsks(t) ==
  /\ Awaits(t, "read.gap")
  /\ broken' \in {broken, TRUE}
  /\ IF profile = "facebd"
     THEN \E r \in {"ok", "no"} : Returns(t, r)
     ELSE CallsWrite(t, Frame("read.write", None))
  /\ UNCHANGED <<options, client, radio, sess, life>>

ReadWritten(t) ==
  /\ Resumes(t, "read.write")
  /\ IF res = "ok" THEN To(t, Frame("read.notify", None)) ELSE Returns(t, "error")
  /\ UNCHANGED <<options, link, life>>

ReadNotified(t) ==
  /\ Awaits(t, "read.notify")
  /\ \E r \in {"ok", "no"} : Returns(t, r)
  /\ UNCHANGED <<options, link, life>>

Transfer(t) ==
  \/ WriteEnds(t) \/ WriteTimesOut(t) \/ WriteDropped(t)
  \/ ReadEnsured(t) \/ ReadAsks(t) \/ ReadWritten(t) \/ ReadNotified(t)

-----------------------------------------------------------------------------
(* _initialize_session, with the callbacks of the Device it calls.         *)
InitBegins(t) ==
  /\ Acquires(t, "init.lock", "init")
  /\ \/ Top(t).link = client /\ sess /\ Returns(t, "ok")
     \/ Top(t).link # client /\ Returns(t, "no")
     \/ Top(t).link = client /\ ~sess /\ To(t, Frame("init.wake", None))
  /\ UNCHANGED <<options, link, life>>

InitWakes(t) ==
  /\ Awaits(t, "init.wake")
  /\ broken' \in {broken, TRUE}
  /\ Calls(t, Frame("init.ready", None), <<Frame("clock.lock", None)>>)
  /\ UNCHANGED <<options, client, radio, sess, life>>

(* _async_on_client_ready: the clock is set, unless it has been.           *)
ClockBegins(t) ==
  /\ Acquires(t, "clock.lock", "clock")
  /\ \/ Returns(t, "ok")
     \/ Calls(t, Frame("clock.send", None), <<Frame("send.lock", None)>>)
  /\ UNCHANGED <<options, link, life>>

InitReadied(t) ==
  /\ Resumes(t, "init.ready")
  /\ IF profile = "classic"
     THEN To(t, Frame("init.gap", None))
     ELSE Calls(t, Frame("init.read", None), ReadCall)
  /\ UNCHANGED <<options, link, life>>

InitWrites(t) ==
  /\ Awaits(t, "init.gap")
  /\ CallsWrite(t, Frame("init.write", None))
  /\ UNCHANGED <<options, link, life>>

InitRead(t) ==
  /\ Resumes(t, "init.write") \/ Resumes(t, "init.read")
  /\ IF res \in {"ok", "no"}
     THEN Calls(t, Frame("init.zone", None), <<Frame("zone.lock", None)>>)
     ELSE Returns(t, "error")
  /\ UNCHANGED <<options, link, life>>

(* _async_on_client_state_ready: the time zone follows, on FACEBD only.    *)
ZoneBegins(t) ==
  /\ Acquires(t, "zone.lock", "clock")
  /\ \/ Returns(t, "ok")
     \/ profile = "facebd" /\ Calls(t, Frame("zone.send", None), <<Frame("send.lock", None)>>)
  /\ UNCHANGED <<options, link, life>>

CallbackSent(t) ==
  /\ Resumes(t, "clock.send") \/ Resumes(t, "zone.send")
  /\ Returns(t, "ok")
  /\ UNCHANGED <<options, link, life>>

(* The session counts as initialized whichever link is up by now, if any.  *)
InitDone(t) ==
  /\ Resumes(t, "init.zone")
  /\ sess' = TRUE
  /\ Returns(t, "ok")
  /\ UNCHANGED <<options, client, radio, broken, life>>

Initialize(t) ==
  \/ InitWakes(t) \/ InitReadied(t) \/ InitWrites(t)
  \/ InitRead(t) \/ CallbackSent(t) \/ InitDone(t)

-----------------------------------------------------------------------------
(* send_now: up to Copies copies, each in up to WriteRetries attempts.     *)
SendBegins(t) ==
  /\ Acquires(t, "send.lock", "command")
  /\ Calls(t, Frame("send.ensure", None), <<Frame("ensure.lock", None)>>)
  /\ UNCHANGED <<options, link, life>>

(* A failed command drops whatever link the Client has by then.            *)
SendFails(t) ==
  /\ Forgets
  /\ IF client = None THEN Returns(t, "no") ELSE To(t, Frame("send.drop", None))
  /\ UNCHANGED <<broken, warm>>

SendSucceeds(t) ==
  /\ warm' = TRUE
  /\ ReturnsTo(Pinged(Popped(t)), t, "ok")
  /\ UNCHANGED link

SendEnsured(t) ==
  /\ Resumes(t, "send.ensure")
  /\ \/ res = "ok" /\ To(t, Attempt("send.gap", 1)) /\ UNCHANGED <<link, warm>>
     \/ res = "error" /\ SendFails(t)
  /\ UNCHANGED <<options, stopping>>

(* The wake read before the first write may time out.                      *)
SendWrites(t) ==
  /\ Awaits(t, "send.gap")
  /\ broken' \in {broken, broken \/ Top(t).n = 1}
  /\ CallsWrite(t, Attempt("send.write", Top(t).n))
  /\ UNCHANGED <<options, client, radio, sess, life>>

(* Only the commands of the Device are verified, not its clock packets.    *)
Verifies(t) == profile # "classic" /\ stack[t][2].at = "command.send"

(* mutant: one attempt more than there are                                 *)
SendWrittenOnceMore(t) ==
  /\ Resumes(t, "send.write")
  /\ \/ res = "ok" /\ SendSucceeds(t)
     \/ res = "error" /\ To(t, Attempt("send.gap", Top(t).n + 1)) /\ UNCHANGED <<link, warm>>
  /\ UNCHANGED <<options, stopping>>

(* mutant: the attempts are not counted                                    *)
SendWrittenForever(t) ==
  /\ Resumes(t, "send.write")
  /\ \/ res = "ok" /\ SendSucceeds(t)
     \/ res = "error" /\ To(t, Attempt("send.gap", Top(t).n)) /\ UNCHANGED <<link, warm>>
     \/ res = "crash" /\ SendFails(t)
  /\ UNCHANGED <<options, stopping>>

SendWritten(t) ==
  /\ Resumes(t, "send.write")
  /\ LET n == Top(t).n IN
       \/ /\ res = "ok" /\ Verifies(t)
          /\ To(t, Attempt("send.settle", n)) /\ UNCHANGED <<link, warm>>
       \/ res = "ok" /\ ~Verifies(t) /\ SendSucceeds(t)
       \/ /\ res = "error" /\ n % WriteRetries # 0
          /\ To(t, Attempt("send.gap", n + 1)) /\ UNCHANGED <<link, warm>>
       \/ (res = "crash" \/ (res = "error" /\ n % WriteRetries = 0)) /\ SendFails(t)
  /\ UNCHANGED <<options, stopping>>

(* The update that confirms the write may have come, or is asked for.      *)
SendSettles(t) ==
  /\ Awaits(t, "send.settle")
  /\ \/ SendSucceeds(t)
     \/ Calls(t, Attempt("send.verify", Top(t).n), ReadCall) /\ UNCHANGED <<link, warm>>
  /\ UNCHANGED <<options, stopping>>

SendVerified(t) ==
  /\ Resumes(t, "send.verify")
  /\ LET lastCopy == Top(t).n > (Copies - 1) * WriteRetries IN
       \/ res = "error" /\ SendFails(t)
       \/ (res = "ok" \/ (res = "no" /\ lastCopy)) /\ SendSucceeds(t)
       \/ /\ res = "no" /\ ~lastCopy
          /\ To(t, Attempt("send.gap", WriteRetries + 1)) /\ UNCHANGED <<link, warm>>
  /\ UNCHANGED <<options, stopping>>

SendDropped(t) ==
  /\ Awaits(t, "send.drop")
  /\ Returns(t, "no")
  /\ UNCHANGED <<options, link, life>>

Send(t) ==
  \/ SendEnsured(t) \/ SendWrites(t) \/ SendWritten(t)
  \/ SendSettles(t) \/ SendVerified(t) \/ SendDropped(t)

-----------------------------------------------------------------------------
(* mutant: only an initialized link starts the supervisor                  *)
ConnectEndsUnheld(ok) ==
  IF ~stopping /\ ok
  THEN warm' = TRUE /\ ReturnsTo(Pinged(Popped("connect")), "connect", "ok")
  ELSE UNCHANGED warm /\ Returns("connect", "ok")

(* _connect: an initialized link, or a hold, starts the supervisor.        *)
ConnectEnds(ok) ==
  IF ~stopping /\ (ok \/ hold)
  THEN warm' = TRUE /\ ReturnsTo(Pinged(Popped("connect")), "connect", "ok")
  ELSE UNCHANGED warm /\ Returns("connect", "ok")

ConnectEnsured ==
  /\ Resumes("connect", "connect.ensure")
  /\ IF res = "ok"
     THEN /\ Calls("connect", Frame("connect.init", None),
                   <<Frame("init.lock", Top("connect").link)>>)
          /\ UNCHANGED warm
     ELSE ConnectEnds(FALSE)
  /\ UNCHANGED <<options, link, stopping>>

ConnectInitialized ==
  /\ Resumes("connect", "connect.init")
  /\ ConnectEnds(res = "ok")
  /\ UNCHANGED <<options, link, stopping>>

Connect == ConnectEnsured \/ ConnectInitialized

(* _ping_loop, the supervisor: the test of its while, after which it may   *)
(* free a ghost; the pause after a cycle, a back-off if it failed.         *)
LoopAgain(t) == IF warm /\ ~stopping THEN To(t, Frame("loop.lock", None)) ELSE Ends(t)
LoopPauses(t) == IF warm /\ ~stopping THEN To(t, Frame("loop.top", None)) ELSE Ends(t)

LoopTop(t) ==
  /\ Awaits(t, "loop.top")
  /\ LoopAgain(t)
  /\ UNCHANGED <<options, link, life>>

LoopBegins(t) ==
  /\ Acquires(t, "loop.lock", "command")
  /\ Calls(t, Frame("loop.ensure", None), <<Frame("ensure.lock", None)>>)
  /\ UNCHANGED <<options, link, life>>

(* mutant: the supervisor gives up when it cannot connect                  *)
LoopEnsuredGivesUp(t) ==
  /\ Resumes(t, "loop.ensure")
  /\ IF res = "ok"
     THEN Calls(t, Frame("loop.init", Top(t).link), <<Frame("init.lock", Top(t).link)>>)
     ELSE Ends(t)
  /\ UNCHANGED <<options, link, life>>

LoopEnsured(t) ==
  /\ Resumes(t, "loop.ensure")
  /\ IF res = "ok"
     THEN Calls(t, Frame("loop.init", Top(t).link), <<Frame("init.lock", Top(t).link)>>)
     ELSE LoopPauses(t)
  /\ UNCHANGED <<options, link, life>>

(* The heartbeat goes on as long as link l is the Client's, up to the idle *)
(* deadline.                                                               *)
Heartbeat(t, l) ==
  \/ stopping /\ Ends(t)
  \/ ~stopping /\ l # client /\ LoopAgain(t)
  \/ ~stopping /\ l = client /\ warm /\ To(t, Frame("loop.beat", l))
  \/ ~stopping /\ l = client /\ ~warm /\ Asks(t, Frame("loop.idle", None))

LoopInitialized(t) ==
  /\ Resumes(t, "loop.init")
  /\ IF res = "ok" THEN Heartbeat(t, Top(t).link) ELSE LoopPauses(t)
  /\ UNCHANGED <<options, link, life>>

LoopBeats(t) ==
  /\ Awaits(t, "loop.beat")
  /\ broken' \in {broken, TRUE}
  /\ Heartbeat(t, Top(t).link)
  /\ UNCHANGED <<options, client, radio, sess, life>>

(* The idle disconnect waits for the command in flight, which may have     *)
(* moved the deadline.                                                     *)
LoopIdles(t) ==
  /\ Acquires(t, "loop.idle", "command")
  /\ \/ warm /\ LoopAgain(t) /\ UNCHANGED link
     \/ /\ ~warm /\ Forgets /\ UNCHANGED broken
        /\ IF client = None THEN LoopPauses(t) ELSE To(t, Frame("loop.drop", None))
  /\ UNCHANGED <<options, life>>

LoopDropped(t) ==
  /\ Awaits(t, "loop.drop")
  /\ LoopPauses(t)
  /\ UNCHANGED <<options, link, life>>

Supervise(t) ==
  \/ LoopTop(t) \/ LoopBegins(t) \/ LoopEnsured(t) \/ LoopInitialized(t)
  \/ LoopBeats(t) \/ LoopIdles(t) \/ LoopDropped(t)

-----------------------------------------------------------------------------
(* What the Device asks of its Client: ensure_connected and send_now, the  *)
(* clock sync, send_now alone, request_state.                              *)
PrepareCall == <<Frame("ensure.lock", None), Frame("prepare.ensure", None)>>
Operations == [
  prepare |-> PrepareCall \o <<Frame("command.prepare", None)>>,
  sync |-> PrepareCall \o <<Frame("sync.prepare", None)>>,
  send |-> <<Frame("send.lock", None), Frame("command.send", None)>>,
  read |-> ReadCall \o <<Frame("command.read", None)>>]

(* A clock sync that has had to make the Client asks for the clock lock at *)
(* once: connect_task has not run yet.                                     *)
Starts ==
  {Operations[o] : o \in Active \ {"stop"}} \cup
  (IF "sync" \in Active /\ stack["connect"] = ConnectCall
   THEN {<<Frame("sync.lock", None)>>} ELSE {})

CommandBegins ==
  /\ turn = None /\ stack["command"] = <<>> /\ ~stopping
  /\ \E s \in Starts : stack' = [stack EXCEPT !["command"] = s]
  /\ turn' = "command" /\ res' = "ok"
  /\ UNCHANGED <<options, link, life>>

(* ensure_connected.                                                       *)
PrepareEnsured(t) ==
  /\ Resumes(t, "prepare.ensure")
  /\ IF res = "ok"
     THEN Calls(t, Frame("prepare.init", None), <<Frame("init.lock", Top(t).link)>>)
     ELSE Returns(t, "no")
  /\ UNCHANGED <<options, link, life>>

PrepareInitialized(t) ==
  /\ Resumes(t, "prepare.init")
  /\ Returns(t, IF res = "ok" THEN "ok" ELSE "no")
  /\ UNCHANGED <<options, link, life>>

CommandPrepared(t) ==
  /\ Resumes(t, "command.prepare")
  /\ IF res = "ok"
     THEN Calls(t, Frame("command.send", None), <<Frame("send.lock", None)>>)
     ELSE Ends(t)
  /\ UNCHANGED <<options, link, life>>

(* A classic fixture confirms by its state (_async_confirm_classic_state). *)
CommandSent(t) ==
  /\ Resumes(t, "command.send")
  /\ \/ Ends(t)
     \/ /\ profile = "classic" /\ res = "ok"
        /\ Calls(t, Frame("command.read", None), ReadCall)
  /\ UNCHANGED <<options, link, life>>

CommandRead(t) ==
  /\ Resumes(t, "command.read")
  /\ Ends(t)
  /\ UNCHANGED <<options, link, life>>

(* async_sync_clock: a link is brought up before the clock lock is taken,  *)
(* which an initialization takes under the initialization lock.            *)
SyncPrepared(t) ==
  /\ Resumes(t, "sync.prepare")
  /\ IF res = "ok" THEN Asks(t, Frame("sync.lock", None)) ELSE Ends(t)
  /\ UNCHANGED <<options, link, life>>

SyncBegins(t) ==
  /\ Acquires(t, "sync.lock", "clock")
  /\ \/ Ends(t)
     \/ Calls(t, Frame("sync.send", None), <<Frame("send.lock", None)>>)
  /\ UNCHANGED <<options, link, life>>

SyncSent(t) ==
  /\ Resumes(t, "sync.send")
  /\ IF res = "ok" THEN Calls(t, Frame("sync.read", None), ReadCall) ELSE Ends(t)
  /\ UNCHANGED <<options, link, life>>

SyncRead(t) ==
  /\ Resumes(t, "sync.read")
  /\ \/ Ends(t)
     \/ profile = "facebd" /\ Calls(t, Frame("sync.zone", None), <<Frame("send.lock", None)>>)
  /\ UNCHANGED <<options, link, life>>

SyncZoned(t) ==
  /\ Resumes(t, "sync.zone")
  /\ Ends(t)
  /\ UNCHANGED <<options, link, life>>

Command(t) ==
  \/ PrepareEnsured(t) \/ PrepareInitialized(t) \/ CommandPrepared(t)
  \/ CommandSent(t) \/ CommandRead(t)
  \/ SyncPrepared(t) \/ SyncBegins(t) \/ SyncSent(t) \/ SyncRead(t) \/ SyncZoned(t)

-----------------------------------------------------------------------------
(* t is cancelled at what it awaits: every frame unwinds, but a link that  *)
(* is being subscribed is disconnected first.                              *)
Unwinds(t) ==
  /\ turn = None /\ stack[t] # <<>>
  /\ \/ /\ Top(t).at = "ensure.notify"
        /\ client' = None /\ Closing(Top(t).link)
        /\ To(t, Frame("ensure.cancel", None))
     \/ Top(t).at # "ensure.notify" /\ Ends(t) /\ UNCHANGED <<client, radio>>
  /\ UNCHANGED <<options, broken, sess, life>>

CancelEnds(t) ==
  /\ Awaits(t, "ensure.cancel")
  /\ Ends(t)
  /\ UNCHANGED <<options, link, life>>

(* The transaction's deadline, or the caller's cancellation.               *)
CommandCancelled == Unwinds("command")

(* stop(): the supervisor is cancelled, then connect_task, each awaited;   *)
(* then _safe_disconnect.  The Device has let go of the Client before, so  *)
(* no command begins any more, but one may still be running.               *)
StopBegins ==
  /\ "stop" \in Active /\ turn = None /\ ~stopping
  /\ stopping' = TRUE /\ warm' = FALSE
  /\ stack' = [stack EXCEPT !["stop"] = <<Frame("stop.supervisor", None)>>]
  /\ UNCHANGED <<options, turn, res, link>>

StopCancels ==
  \/ Awaits("stop", "stop.supervisor") /\ Unwinds("supervisor")
  \/ Awaits("stop", "stop.connect") /\ Unwinds("connect")

StopGoesOn ==
  /\ \/ /\ Awaits("stop", "stop.supervisor") /\ stack["supervisor"] = <<>>
        /\ To("stop", Frame("stop.connect", None))
     \/ /\ Awaits("stop", "stop.connect") /\ stack["connect"] = <<>>
        /\ To("stop", Frame("stop.notify", None))
  /\ UNCHANGED <<options, link, life>>

StopDrops ==
  /\ Awaits("stop", "stop.notify")
  /\ Forgets
  /\ To("stop", Frame("stop.drop", None))
  /\ UNCHANGED <<options, broken, life>>

StopEnds ==
  /\ Awaits("stop", "stop.drop")
  /\ Ends("stop")
  /\ UNCHANGED <<options, link, life>>

Stop == StopCancels \/ StopGoesOn \/ StopDrops \/ StopEnds

(* The link goes down, by itself or because it was asked to: the Client    *)
(* hears of it (_on_disconnected) if it is still its current one, and a    *)
(* hold starts the supervisor, should it have ended.                       *)
Lost ==
  [t \in Tasks |-> [i \in DOMAIN stack[t] |->
     IF stack[t][i].link = "live" THEN [stack[t][i] EXCEPT !.link = "gone"] ELSE stack[t][i]]]

LinkDown ==
  /\ turn = None /\ radio # "down"
  /\ radio' = "down"
  /\ \/ /\ client = None
        /\ stack' = Lost /\ UNCHANGED <<client, sess, warm>>
     \/ /\ client = "live"
        /\ client' = None /\ sess' = FALSE
        /\ IF hold /\ ~stopping
           THEN stack' = Pinged(Lost) /\ warm' = (warm \/ stack["supervisor"] = <<>>)
           ELSE stack' = Lost /\ UNCHANGED warm
  /\ UNCHANGED <<options, turn, res, broken, stopping>>

(* active_time seconds without a command have passed.                      *)
IdleDeadline ==
  /\ turn = None /\ warm /\ ~hold
  /\ warm' = FALSE
  /\ UNCHANGED <<options, tasks, link, stopping>>

-----------------------------------------------------------------------------
Calling(t) ==
  \/ EnsureBegins(t) \/ InitBegins(t) \/ ClockBegins(t) \/ ZoneBegins(t) \/ SendBegins(t)
  \/ Yields(t) \/ CancelEnds(t)
  \/ Ensure(t) \/ Transfer(t) \/ Initialize(t) \/ Send(t)

Next ==
  \/ \E t \in Tasks \ {"stop"} : Calling(t)
  \/ Connect \/ Supervise("supervisor") \/ Command("command") \/ Stop
  \/ CommandBegins \/ CommandCancelled \/ StopBegins
  \/ LinkDown \/ IdleDeadline

(* A step of task t.                                                       *)
Step(t) ==
  \/ t # "stop" /\ Calling(t)
  \/ t = "connect" /\ Connect
  \/ t = "supervisor" /\ Supervise(t)
  \/ t = "command" /\ Command(t)
  \/ t = "stop" /\ Stop

Spec == Init /\ [][Next]_vars

(* The event loop runs every ready task, its locks are handed over in      *)
(* order, an awaited operation ends (each has a deadline), a link that was *)
(* told to close does, and a fixture that is asked again and again answers.*)
Fairness ==
  /\ \A t \in Tasks : SF_vars(Step(t))
  /\ SF_vars(LinkDown /\ radio = "closing")
  /\ SF_vars((\E t \in Tasks : EnsureConnects(t)) /\ client' = "live")
FairSpec == Spec /\ Fairness

-----------------------------------------------------------------------------
(* Types; the Client's link exists; the running task has something to run. *)
TypeOK ==
  /\ hold \in Holds /\ profile \in Profiles
  /\ stack \in [Tasks -> Seq(Frames)]
  /\ turn \in Tasks \cup {None} /\ res \in {"ok", "no", "error", "crash"}
  /\ client \in {None, "live"} /\ radio \in {"down", "up", "closing"}
  /\ {broken, sess, warm, stopping} \subseteq BOOLEAN
  /\ client = "live" => radio # "down"
  /\ turn # None => stack[turn] # <<>>

(* No link is stranded: one that is up, and was not told to close, is the  *)
(* one the Client knows, whoever failed, timed out or was cancelled while  *)
(* it came up.  A link nobody knows would block the fixture's only slot.   *)
NoStrandedLink == radio = "up" => client = "live"

(* Once stop() has returned the Client has no link and gets none, not even *)
(* from a connect that was under way when the latch closed.                *)
StoppedForGood == stopping /\ stack["stop"] = <<>> => client = None

(* "the loop never gives up while the entry is loaded" (_ping_loop): a held*)
(* link has its supervisor from the end of the first connect on, however   *)
(* that ended and whatever failed since.                                   *)
HoldSupervised == hold /\ ~stopping /\ stack["connect"] = <<>> => stack["supervisor"] # <<>>

(* No tasks wait for each other's locks in a circle ("a lock-order         *)
(* inversion: both sides wait on each other", async_sync_clock), nor does  *)
(* one wait for a lock it holds itself.                                    *)
Waiting == {t \in Tasks : stack[t] # <<>> /\ \E k \in Locks : Top(t).at \in Waits[k]}
WaitsFor(t, u) == \E k \in Locks : Top(t).at \in Waits[k] /\ HasLock(u, k)
NoCircularWait ==
  \A S \in (SUBSET Waiting) \ {{}} : \E t \in S : \A u \in S : ~WaitsFor(t, u)

(* A held link that is lost comes back, again and again, for as long as    *)
(* the Client is not stopped.                                              *)
HeldLinkReturns == hold => []<>(client = "live" \/ stopping)

(* A command of the Device returns, without its deadline's help: no lock   *)
(* it waits for is kept for ever, and its retries end.                     *)
CommandReturns == stack["command"] # <<>> ~> stack["command"] = <<>>
=============================================================================
