---------------------------- MODULE CommandLock ----------------------------
(***************************************************************************)
(* Device.command_transaction (core/device.py): the lock every public      *)
(* command of one light runs under.  It is an asyncio.Lock with FIFO       *)
(* waiters, to which the Device adds a count of user commands that want    *)
(* the device (_priority_waiting) and an Event that is set while there are *)
(* none (_priority_idle).  A background acquirer that is handed the lock   *)
(* while a user command wants it gives it straight back and waits on the   *)
(* Event.                                                                  *)
(*                                                                         *)
(* asyncio is single-threaded: an action here is what runs between two     *)
(* awaits.  Deadlines and cancellation may strike at any await.            *)
(***************************************************************************)
EXTENDS Naturals, Sequences, FiniteSets

CONSTANTS Tasks,     \* the asyncio tasks that issue commands
          Priority,  \* those issuing user-initiated commands (priority=True)
          None,      \* no task: the lock is free
          MaxDepth   \* bound on nested transactions of one task

ASSUME TasksFinite == IsFiniteSet(Tasks)
ASSUME PrioritySubset == Priority \subseteq Tasks
ASSUME NoneIsNoTask == None \notin Tasks
ASSUME DepthBound == MaxDepth \in Nat \ {0}

VARIABLES pc,        \* where each task stands in command_transaction
          owner,     \* _command_transaction_owner, None while unlocked
          depth,     \* _command_transaction_depth
          queue,     \* the lock's waiters, first in line first
          waiting,   \* _priority_waiting
          idle       \* whether the Event _priority_idle is set

vars == <<pc, owner, depth, queue, waiting, idle>>

(* "event": awaiting _priority_idle; "woken": its wait() was released;     *)
(* "queued": awaiting the lock; "running": inside the transaction's body;  *)
(* "resetting": past its deadline, awaiting async_reset_connection.        *)
PC == {"idle", "event", "woken", "queued", "running", "resetting"}
Holding == {"running", "resetting"}
Waiting == {"event", "woken", "queued"}

Init ==
  /\ pc = [t \in Tasks |-> "idle"]
  /\ owner = None
  /\ depth = 0
  /\ queue = <<>>
  /\ waiting = 0
  /\ idle = TRUE

-----------------------------------------------------------------------------
(* asyncio.Lock and asyncio.Event, as the Device uses them.                *)

(* Lock.acquire() returns at once only when nobody holds or awaits it.     *)
LockFree == owner = None /\ queue = <<>>

(* The head of the line resumes holding the lock.                          *)
AtHead(t) == owner = None /\ queue # <<>> /\ Head(queue) = t

(* A cancelled waiter takes itself out of the line.                        *)
RemovedAt(q, i) == [j \in 1 .. Len(q) - 1 |-> IF j < i THEN q[j] ELSE q[j + 1]]

(* Event.set() releases every task awaiting it, even if the Event is       *)
(* cleared again before that task next runs.                               *)
Released(f) == [t \in Tasks |-> IF f[t] = "event" THEN "woken" ELSE f[t]]

-----------------------------------------------------------------------------
(* The body of the transaction begins.                                     *)
Enter(t) ==
  /\ pc' = [pc EXCEPT ![t] = "running"]
  /\ owner' = t
  /\ depth' = 1

(* A background acquirer got the lock while a user command wants it: it    *)
(* releases it in the same step and waits for the Event.                   *)
StandAside(t) ==
  /\ pc' = [pc EXCEPT ![t] = IF idle THEN "woken" ELSE "event"]
  /\ UNCHANGED <<owner, depth>>

(* mutant: the acquirer does not look at the count again                   *)
BackgroundGrantedUnchecked(t) == Enter(t)

(* What a background acquirer does with a lock it has just been given.     *)
BackgroundGranted(t) == IF waiting = 0 THEN Enter(t) ELSE StandAside(t)

(* mutant: the last user command leaves without setting the Event          *)
ReleaseSlotSilently(f) ==
  /\ waiting' = IF waiting > 0 THEN waiting - 1 ELSE 0
  /\ pc' = f
  /\ UNCHANGED idle

(* Giving up one priority reservation, f being where the tasks stand.      *)
ReleaseSlot(f) ==
  /\ waiting' = IF waiting > 0 THEN waiting - 1 ELSE 0
  /\ IF waiting' = 0
     THEN idle' = TRUE /\ pc' = Released(f)
     ELSE pc' = f /\ UNCHANGED idle

-----------------------------------------------------------------------------
(* A user command: it reserves its slot first, then takes or awaits the    *)
(* lock.                                                                   *)
RequestPriority(t) ==
  /\ t \in Priority /\ pc[t] = "idle"
  /\ waiting' = waiting + 1
  /\ idle' = FALSE
  /\ IF LockFree
     THEN Enter(t) /\ UNCHANGED queue
     ELSE /\ pc' = [pc EXCEPT ![t] = "queued"]
          /\ queue' = Append(queue, t)
          /\ UNCHANGED <<owner, depth>>

(* lock.acquire() of a background task.                                    *)
AcquireBackground(t) ==
  /\ IF LockFree
     THEN BackgroundGranted(t) /\ UNCHANGED queue
     ELSE /\ pc' = [pc EXCEPT ![t] = "queued"]
          /\ queue' = Append(queue, t)
          /\ UNCHANGED <<owner, depth>>
  /\ UNCHANGED <<waiting, idle>>

(* Background work first stands behind user commands, then asks.           *)
RequestBackground(t) ==
  /\ t \in Tasks \ Priority /\ pc[t] = "idle"
  /\ IF waiting > 0 /\ ~idle
     THEN /\ pc' = [pc EXCEPT ![t] = "event"]
          /\ UNCHANGED <<owner, depth, queue, waiting, idle>>
     ELSE AcquireBackground(t)

(* A background task whose wait on the Event is over asks for the lock     *)
(* without looking at the count again.                                     *)
Resume(t) == pc[t] = "woken" /\ AcquireBackground(t)

(* The released lock passes to the first waiter.                           *)
Granted(t) ==
  /\ AtHead(t)
  /\ queue' = Tail(queue)
  /\ IF t \in Priority THEN Enter(t) ELSE BackgroundGranted(t)
  /\ UNCHANGED <<waiting, idle>>

-----------------------------------------------------------------------------
(* A nested command of the task that owns the transaction rides it.        *)
EnterNested(t) ==
  /\ owner = t /\ pc[t] = "running" /\ depth < MaxDepth
  /\ depth' = depth + 1
  /\ UNCHANGED <<pc, owner, queue, waiting, idle>>

ExitNested(t) ==
  /\ owner = t /\ pc[t] = "running" /\ depth > 1
  /\ depth' = depth - 1
  /\ UNCHANGED <<pc, owner, queue, waiting, idle>>

(* mutant: the slot survives a transaction whose connection was reset      *)
LeaveKeepsSlot(t) ==
  /\ owner' = None
  /\ depth' = 0
  /\ pc' = [pc EXCEPT ![t] = "idle"]
  /\ UNCHANGED <<queue, waiting, idle>>

(* mutant: the lock itself is not released                                 *)
LeaveKeepsLock(t) ==
  /\ pc' = [pc EXCEPT ![t] = "idle"]
  /\ UNCHANGED <<owner, depth, queue, waiting, idle>>

(* The transaction's finally clause.                                       *)
Leave(t) ==
  /\ owner' = None
  /\ depth' = 0
  /\ IF t \in Priority
     THEN ReleaseSlot([pc EXCEPT ![t] = "idle"])
     ELSE pc' = [pc EXCEPT ![t] = "idle"] /\ UNCHANGED <<waiting, idle>>
  /\ UNCHANGED queue

(* The body returns, raises or is cancelled.                               *)
Finish(t) == pc[t] = "running" /\ Leave(t)

(* The deadline expires: the nested commands unwind, and the connection is *)
(* reset while the lock is held.                                           *)
Deadline(t) ==
  /\ pc[t] = "running"
  /\ pc' = [pc EXCEPT ![t] = "resetting"]
  /\ depth' = 1
  /\ UNCHANGED <<owner, queue, waiting, idle>>

(* The reset returns or is cancelled; the TimeoutError goes on.            *)
ResetDone(t) == pc[t] = "resetting" /\ Leave(t)

(* mutant: only the body's finally clause gives the reservation back       *)
CancelQueuedKeepsSlot(t) ==
  /\ pc[t] = "queued"
  /\ \E i \in 1 .. Len(queue) : queue[i] = t /\ queue' = RemovedAt(queue, i)
  /\ pc' = [pc EXCEPT ![t] = "idle"]
  /\ UNCHANGED <<owner, depth, waiting, idle>>

(* The caller is cancelled while it stands in line for the lock: its       *)
(* priority reservation, if it has one, goes with it.                      *)
CancelQueued(t) ==
  /\ pc[t] = "queued"
  /\ \E i \in 1 .. Len(queue) : queue[i] = t /\ queue' = RemovedAt(queue, i)
  /\ IF t \in Priority
     THEN ReleaseSlot([pc EXCEPT ![t] = "idle"])
     ELSE pc' = [pc EXCEPT ![t] = "idle"] /\ UNCHANGED <<waiting, idle>>
  /\ UNCHANGED <<owner, depth>>

(* A background caller is cancelled while it awaits the Event.             *)
CancelEvent(t) ==
  /\ pc[t] \in {"event", "woken"}
  /\ pc' = [pc EXCEPT ![t] = "idle"]
  /\ UNCHANGED <<owner, depth, queue, waiting, idle>>

Next ==
  \E t \in Tasks :
    \/ RequestPriority(t)
    \/ RequestBackground(t)
    \/ Resume(t)
    \/ Granted(t)
    \/ EnterNested(t)
    \/ ExitNested(t)
    \/ Finish(t)
    \/ Deadline(t)
    \/ ResetDone(t)
    \/ CancelQueued(t)
    \/ CancelEvent(t)

Spec == Init /\ [][Next]_vars

(* The event loop runs every task that is ready, a body ends or meets its  *)
(* deadline (asyncio.timeout), and Client.stop() is bounded at every await.*)
(* Nobody is obliged to issue a command, to nest one or to be cancelled.   *)
Fairness ==
  \A t \in Tasks :
    /\ WF_vars(Granted(t))
    /\ WF_vars(Resume(t))
    /\ WF_vars(Finish(t) \/ Deadline(t))
    /\ WF_vars(ResetDone(t))

FairSpec == Spec /\ Fairness

-----------------------------------------------------------------------------
(* Types of the variables of Device's command lock.                        *)
TypeOK ==
  /\ pc \in [Tasks -> PC]
  /\ owner \in Tasks \cup {None}
  /\ depth \in 0 .. MaxDepth
  /\ queue \in Seq(Tasks)
  /\ waiting \in Nat
  /\ idle \in BOOLEAN

(* The user commands that want the device: queued for it or running.       *)
Wanting == {t \in Priority : pc[t] \in Holding \cup {"queued"}}

(* priority_waiting, which the guardian reads between its steps, is the    *)
(* number of user commands queued or running whatever was cancelled, timed *)
(* out or reset, and the Event tells background work the same thing.       *)
SlotsMatch ==
  /\ waiting = Cardinality(Wanting)
  /\ idle <=> (waiting = 0)

(* No lost wakeup: whenever some command waits, another one is running, or *)
(* a waiter is about to run - releasing, standing aside and cancelling     *)
(* never leave everybody waiting for each other.                           *)
NoStrandedWaiter ==
  (\E t \in Tasks : pc[t] \in Waiting) =>
    \E t \in Tasks : pc[t] \in Holding \cup {"woken"} \/ AtHead(t)

(* The lock gives the Device what PriorityExclusion promises: one command  *)
(* at a time, and no background command while a user command wants or has  *)
(* the device.                                                             *)
Promise == INSTANCE PriorityExclusion WITH
  wants <- {t \in Tasks : pc[t] \in Waiting},
  inside <- {t \in Tasks : pc[t] \in Holding}

ImplementsPromise == Promise!ASpec

(* A user's command that waits for the lock gets it, or its caller gives   *)
(* up: the guardian cannot starve it.                                      *)
UserServed == \A t \in Priority : pc[t] = "queued" ~> pc[t] # "queued"

(* Once the user stops pressing buttons, waiting background work runs.     *)
BackgroundServed ==
  <>[](waiting = 0) =>
    \A t \in Tasks \ Priority : pc[t] \in Waiting ~> pc[t] \notin Waiting
=============================================================================
