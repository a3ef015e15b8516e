------------------------- MODULE CommandLockProofs -------------------------
(***************************************************************************)
(* Proofs about CommandLock for every set of tasks: type correctness, the  *)
(* accounting of the user commands, freedom from lost wakeups, and the     *)
(* refinement of PriorityExclusion.                                        *)
(***************************************************************************)
EXTENDS CommandLock, FiniteSetTheorems, SequenceTheorems, TLAPS

-----------------------------------------------------------------------------
(* The inductive invariant.                                                *)

(* Exactly the owner is inside.                                            *)
OwnerInv == \A t \in Tasks : pc[t] \in Holding <=> owner = t

(* The line holds each queued task exactly once.                           *)
QueueInv ==
  /\ \A i \in 1 .. Len(queue) : pc[queue[i]] = "queued"
  /\ \A t \in Tasks : pc[t] = "queued" => \E i \in 1 .. Len(queue) : queue[i] = t
  /\ \A i, j \in 1 .. Len(queue) : queue[i] = queue[j] => i = j

(* Only background tasks use the Event, and only while it is cleared.      *)
EventInv ==
  /\ \A t \in Tasks : pc[t] = "event" => waiting > 0
  /\ \A t \in Priority : pc[t] \notin {"event", "woken"}

IInv == TypeOK /\ OwnerInv /\ QueueInv /\ EventInv /\ SlotsMatch

-----------------------------------------------------------------------------
(* The user commands that want the device form a finite set.               *)
LEMMA WantingFinite == IsFiniteSet(Wanting)
  <1>1. Wanting \subseteq Tasks
    BY PrioritySubset DEF Wanting
  <1>2. QED
    BY <1>1, TasksFinite, FS_Subset

(* Taking a waiter out of the line shortens it and keeps the others.       *)
LEMMA RemovedAtProperties ==
  ASSUME NEW q \in Seq(Tasks), NEW i \in 1 .. Len(q)
  PROVE  /\ RemovedAt(q, i) \in Seq(Tasks)
         /\ Len(RemovedAt(q, i)) = Len(q) - 1
         /\ \A j \in 1 .. Len(q) - 1 :
              RemovedAt(q, i)[j] = IF j < i THEN q[j] ELSE q[j + 1]
  <1> DEFINE n == Len(q) - 1
  <1>1. n \in Nat
    BY LenProperties
  <1>2. \A j \in 1 .. n : (IF j < i THEN q[j] ELSE q[j + 1]) \in Tasks
    BY ElementOfSeq
  <1>3. RemovedAt(q, i) \in [1 .. n -> Tasks]
    BY <1>2 DEF RemovedAt
  <1>4. QED
    BY <1>1, <1>3, SeqDef DEF RemovedAt

(* Returning a reservation: the count stays exact, the Event stays in step *)
(* with it, and no task but those the Event releases moves.                *)
LEMMA ReleaseSlotEffect ==
  ASSUME NEW t \in Priority, TypeOK, SlotsMatch, EventInv, t \in Wanting,
         ReleaseSlot([pc EXCEPT ![t] = "idle"])
  PROVE  /\ pc' \in [Tasks -> PC]
         /\ pc'[t] = "idle"
         /\ \A u \in Tasks \ {t} :
              pc'[u] = pc[u] \/ (pc[u] = "event" /\ pc'[u] = "woken")
         /\ waiting' \in Nat /\ idle' \in BOOLEAN
         /\ SlotsMatch'
         /\ EventInv'
  <1> DEFINE f == [pc EXCEPT ![t] = "idle"]
  <1>1. t \in Tasks
    BY PrioritySubset
  <1>2. f \in [Tasks -> PC] /\ f[t] = "idle" /\ \A u \in Tasks \ {t} : f[u] = pc[u]
    BY <1>1 DEF TypeOK, PC
  <1>3. pc' = f \/ pc' = Released(f)
    BY DEF ReleaseSlot
  <1>4. /\ pc' \in [Tasks -> PC]
        /\ pc'[t] = "idle"
        /\ \A u \in Tasks \ {t} :
             pc'[u] = pc[u] \/ (pc[u] = "event" /\ pc'[u] = "woken")
    BY <1>1, <1>2, <1>3 DEF Released, PC
  <1>5. Wanting' = Wanting \ {t}
    BY <1>1, <1>4, PrioritySubset DEF Wanting, Holding
  <1>6. Cardinality(Wanting') = Cardinality(Wanting) - 1
    BY <1>5, WantingFinite, FS_RemoveElement
  <1>7. Cardinality(Wanting) \in Nat /\ Cardinality(Wanting') \in Nat
    BY <1>5, WantingFinite, FS_CardinalityType, FS_RemoveElement
  <1>8. waiting' = Cardinality(Wanting')
    BY <1>6, <1>7 DEF ReleaseSlot, SlotsMatch
  <1>9. idle' \in BOOLEAN /\ (idle' <=> (waiting' = 0))
    <2>1. CASE waiting' = 0
      BY <2>1 DEF ReleaseSlot
    <2>2. CASE waiting' # 0
      <3>1. UNCHANGED idle
        BY <2>2 DEF ReleaseSlot
      <3>2. waiting # 0
        BY <2>2 DEF ReleaseSlot, TypeOK
      <3>3. QED
        BY <2>2, <3>1, <3>2 DEF SlotsMatch, TypeOK
    <2>3. QED
      BY <2>1, <2>2
  <1>10. \A u \in Tasks : pc'[u] = "event" => waiting' > 0
    <2> SUFFICES ASSUME NEW u \in Tasks, pc'[u] = "event"
                 PROVE  waiting' > 0
      OBVIOUS
    <2>1. pc' # Released(f)
      BY DEF Released
    <2>2. waiting' # 0
      BY <2>1 DEF ReleaseSlot
    <2>3. QED
      BY <2>2, <1>7, <1>8
  <1>11. \A u \in Priority : pc'[u] \notin {"event", "woken"}
    BY <1>4, PrioritySubset DEF EventInv
  <1>12. QED
    BY <1>4, <1>7, <1>8, <1>9, <1>10, <1>11 DEF SlotsMatch, EventInv

-----------------------------------------------------------------------------
(* Each kind of step preserves the invariant.                              *)

(* A user command that starts to want the device is one more reservation.  *)
LEMMA SlotTaken ==
  ASSUME NEW t \in Priority, TypeOK, SlotsMatch, pc[t] = "idle",
         waiting' = waiting + 1, idle' = FALSE,
         pc' = [pc EXCEPT ![t] = "running"] \/ pc' = [pc EXCEPT ![t] = "queued"]
  PROVE  SlotsMatch'
  <1>1. t \in Tasks /\ t \notin Wanting
    BY PrioritySubset DEF Wanting, Holding
  <1>2. Wanting' = Wanting \cup {t}
    BY <1>1, PrioritySubset DEF Wanting, Holding, TypeOK
  <1>3. Cardinality(Wanting') = Cardinality(Wanting) + 1
    BY <1>1, <1>2, WantingFinite, FS_AddElement
  <1>4. QED
    BY <1>3 DEF SlotsMatch, TypeOK

(* Steps that leave the user commands where they are.                      *)
LEMMA SlotsKept ==
  ASSUME TypeOK, SlotsMatch, UNCHANGED <<waiting, idle>>,
         \A u \in Priority : pc'[u] \in Holding \cup {"queued"}
                               <=> pc[u] \in Holding \cup {"queued"}
  PROVE  SlotsMatch'
  <1>1. Wanting' = Wanting
    BY DEF Wanting
  <1>2. QED
    BY <1>1 DEF SlotsMatch

(* Joining the line.                                                       *)
LEMMA QueueJoined ==
  ASSUME NEW t \in Tasks, TypeOK, QueueInv, pc[t] # "queued",
         pc' = [pc EXCEPT ![t] = "queued"], queue' = Append(queue, t)
  PROVE  QueueInv' /\ queue' \in Seq(Tasks)
  <1>1. \A i \in 1 .. Len(queue) : queue[i] \in Tasks /\ queue[i] # t
    BY DEF QueueInv, TypeOK
  <1>2. /\ queue' \in Seq(Tasks)
        /\ Len(queue') = Len(queue) + 1
        /\ \A i \in 1 .. Len(queue) : queue'[i] = queue[i]
        /\ queue'[Len(queue) + 1] = t
    BY AppendProperties DEF TypeOK
  <1>3. Len(queue) \in Nat
    BY LenProperties DEF TypeOK
  <1>4. \A i \in 1 .. Len(queue') : i \in 1 .. Len(queue) \/ i = Len(queue) + 1
    BY <1>2, <1>3
  <1>5. \A i \in 1 .. Len(queue') : pc'[queue'[i]] = "queued"
    BY <1>1, <1>2, <1>4 DEF QueueInv, TypeOK
  <1>6. \A u \in Tasks : pc'[u] = "queued" => \E i \in 1 .. Len(queue') : queue'[i] = u
    <2> SUFFICES ASSUME NEW u \in Tasks, pc'[u] = "queued"
                 PROVE  \E i \in 1 .. Len(queue') : queue'[i] = u
      OBVIOUS
    <2>1. CASE u = t
      BY <2>1, <1>2, <1>3
    <2>2. CASE u # t
      <3>1. PICK i \in 1 .. Len(queue) : queue[i] = u
        BY <2>2 DEF QueueInv, TypeOK
      <3>2. QED
        BY <3>1, <1>2, <1>3
    <2>3. QED
      BY <2>1, <2>2
  <1>7. \A i, j \in 1 .. Len(queue') : queue'[i] = queue'[j] => i = j
    BY <1>1, <1>2, <1>4 DEF QueueInv
  <1>8. QED
    BY <1>2, <1>5, <1>6, <1>7 DEF QueueInv

(* Leaving the line: from its head when granted, from anywhere when        *)
(* cancelled.                                                              *)
LEMMA QueueLeft ==
  ASSUME TypeOK, QueueInv, NEW i \in 1 .. Len(queue),
         pc' \in [Tasks -> PC], pc'[queue[i]] # "queued",
         \A u \in Tasks \ {queue[i]} : pc'[u] = "queued" <=> pc[u] = "queued",
         queue' \in Seq(Tasks), Len(queue') = Len(queue) - 1,
         \A j \in 1 .. Len(queue) - 1 :
           queue'[j] = IF j < i THEN queue[j] ELSE queue[j + 1]
  PROVE  QueueInv'
  <1>1. Len(queue) \in Nat
    BY LenProperties DEF TypeOK
  <1>2. \A j \in 1 .. Len(queue) : queue[j] \in Tasks
    BY DEF TypeOK
  <1> DEFINE from(j) == IF j < i THEN j ELSE j + 1
  <1>3. \A j \in 1 .. Len(queue') :
          from(j) \in 1 .. Len(queue) /\ from(j) # i /\ queue'[j] = queue[from(j)]
    BY <1>1
  <1>4. \A j \in 1 .. Len(queue') : pc'[queue'[j]] = "queued"
    BY <1>2, <1>3 DEF QueueInv
  <1>5. \A u \in Tasks : pc'[u] = "queued" => \E j \in 1 .. Len(queue') : queue'[j] = u
    <2> SUFFICES ASSUME NEW u \in Tasks, pc'[u] = "queued"
                 PROVE  \E j \in 1 .. Len(queue') : queue'[j] = u
      OBVIOUS
    <2>1. PICK k \in 1 .. Len(queue) : queue[k] = u
      BY DEF QueueInv
    <2>2. k # i
      BY <2>1
    <2>3. CASE k < i
      <3>1. k \in 1 .. Len(queue')
        BY <2>3, <1>1
      <3>2. queue'[k] = u
        BY <2>1, <2>3, <3>1, <1>1
      <3>3. QED
        BY <3>1, <3>2
    <2>4. CASE k > i
      <3>1. k - 1 \in 1 .. Len(queue') /\ ~(k - 1 < i)
        BY <2>4, <1>1
      <3>2. queue'[k - 1] = u
        BY <2>1, <2>4, <3>1, <1>1
      <3>3. QED
        BY <3>1, <3>2
    <2>5. QED
      BY <2>2, <2>3, <2>4
  <1>6. \A j, k \in 1 .. Len(queue') : queue'[j] = queue'[k] => j = k
    BY <1>1, <1>3 DEF QueueInv
  <1>7. QED
    BY <1>4, <1>5, <1>6 DEF QueueInv

(* Steps that change neither the line nor who is in it.                    *)
LEMMA QueueKept ==
  ASSUME TypeOK, QueueInv, UNCHANGED queue,
         \A u \in Tasks : pc'[u] = "queued" <=> pc[u] = "queued"
  PROVE  QueueInv'
  <1>1. \A j \in 1 .. Len(queue) : queue[j] \in Tasks
    BY DEF TypeOK
  <1>2. QED
    BY <1>1 DEF QueueInv

(* A background acquirer that is given the lock enters or stands aside.    *)
LEMMA BackgroundGrantedEffect ==
  ASSUME NEW t \in Tasks \ Priority, TypeOK, OwnerInv, EventInv, SlotsMatch,
         owner = None, BackgroundGranted(t), UNCHANGED <<waiting, idle>>
  PROVE  /\ pc' \in [Tasks -> PC] /\ pc'[t] # "queued"
         /\ \A u \in Tasks \ {t} : pc'[u] = pc[u]
         /\ owner' \in Tasks \cup {None} /\ depth' \in 0 .. MaxDepth
         /\ OwnerInv' /\ EventInv' /\ SlotsMatch'
  <1>1. /\ pc' \in [Tasks -> PC] /\ pc'[t] \in {"running", "event", "woken"}
        /\ \A u \in Tasks \ {t} : pc'[u] = pc[u]
        /\ owner' \in Tasks \cup {None} /\ depth' \in 0 .. MaxDepth
    BY DepthBound DEF BackgroundGranted, Enter, StandAside, TypeOK, PC
  <1>2. OwnerInv'
    BY NoneIsNoTask DEF BackgroundGranted, Enter, StandAside, OwnerInv, Holding, TypeOK
  <1>3. EventInv'
    <2>1. pc'[t] = "event" => waiting' > 0
      BY DEF BackgroundGranted, Enter, StandAside, TypeOK
    <2>2. QED
      BY <1>1, <2>1, PrioritySubset DEF EventInv
  <1>4. SlotsMatch'
    <2>1. \A u \in Priority : pc'[u] = pc[u]
      BY <1>1, PrioritySubset
    <2>2. QED
      BY <2>1, SlotsKept
  <1>5. QED
    BY <1>1, <1>2, <1>3, <1>4

LEMMA RequestPriorityStep ==
  ASSUME IInv, NEW t \in Tasks, RequestPriority(t)
  PROVE  IInv'
  <1> USE DEF IInv
  <1>1. CASE LockFree
    <2>1. TypeOK'
      <3>1. waiting' \in Nat
        BY DEF RequestPriority, TypeOK
      <3>2. idle' \in BOOLEAN
        BY Zenon DEF RequestPriority
      <3>3. QED
        BY <1>1, <3>1, <3>2, DepthBound DEF RequestPriority, Enter, TypeOK, PC
    <2>2. OwnerInv'
      BY <1>1, NoneIsNoTask DEF RequestPriority, LockFree, Enter, OwnerInv, Holding, TypeOK
    <2>3. QueueInv'
      BY <1>1, QueueKept DEF RequestPriority, Enter, TypeOK
    <2>4. EventInv'
      BY <1>1, PrioritySubset DEF RequestPriority, Enter, EventInv, TypeOK
    <2>5. SlotsMatch'
      BY <1>1, SlotTaken DEF RequestPriority, Enter
    <2>6. QED
      BY <2>1, <2>2, <2>3, <2>4, <2>5
  <1>2. CASE ~LockFree
    <2>1. QueueInv' /\ queue' \in Seq(Tasks)
      BY <1>2, QueueJoined DEF RequestPriority
    <2>2. TypeOK'
      <3>1. waiting' \in Nat
        BY DEF RequestPriority, TypeOK
      <3>2. idle' \in BOOLEAN
        BY Zenon DEF RequestPriority
      <3>3. QED
        BY <1>2, <2>1, <3>1, <3>2 DEF RequestPriority, TypeOK, PC
    <2>3. OwnerInv'
      BY <1>2 DEF RequestPriority, OwnerInv, Holding, TypeOK
    <2>4. EventInv'
      BY <1>2, PrioritySubset DEF RequestPriority, EventInv, TypeOK
    <2>5. SlotsMatch'
      BY <1>2, SlotTaken DEF RequestPriority
    <2>6. QED
      BY <2>1, <2>2, <2>3, <2>4, <2>5
  <1>3. QED
    BY <1>1, <1>2

LEMMA AcquireBackgroundStep ==
  ASSUME IInv, NEW t \in Tasks \ Priority, pc[t] \in {"idle", "woken"}, AcquireBackground(t)
  PROVE  IInv'
  <1> USE DEF IInv
  <1>1. CASE LockFree
    <2>1. owner = None /\ BackgroundGranted(t) /\ UNCHANGED <<queue, waiting, idle>>
      BY <1>1 DEF AcquireBackground, LockFree
    <2>2. QueueInv'
      BY <2>1, BackgroundGrantedEffect, QueueKept
    <2>3. QED
      BY <2>1, <2>2, BackgroundGrantedEffect DEF TypeOK
  <1>2. CASE ~LockFree
    <2>1. /\ pc' = [pc EXCEPT ![t] = "queued"] /\ queue' = Append(queue, t)
          /\ UNCHANGED <<owner, depth, waiting, idle>>
      BY <1>2 DEF AcquireBackground
    <2>2. QueueInv' /\ queue' \in Seq(Tasks)
      BY <2>1, QueueJoined
    <2>3. TypeOK'
      BY <2>1, <2>2 DEF TypeOK, PC
    <2>4. OwnerInv'
      BY <2>1 DEF OwnerInv, Holding, TypeOK
    <2>5. EventInv'
      BY <2>1 DEF EventInv, TypeOK
    <2>6. SlotsMatch'
      BY <2>1, SlotsKept DEF TypeOK
    <2>7. QED
      BY <2>2, <2>3, <2>4, <2>5, <2>6
  <1>3. QED
    BY <1>1, <1>2

LEMMA RequestBackgroundStep ==
  ASSUME IInv, NEW t \in Tasks, RequestBackground(t)
  PROVE  IInv'
  <1> USE DEF IInv
  <1>1. CASE waiting > 0 /\ ~idle
    <2>1. pc' = [pc EXCEPT ![t] = "event"] /\ UNCHANGED <<owner, depth, queue, waiting, idle>>
      BY <1>1 DEF RequestBackground
    <2>2. t \in Tasks \ Priority /\ pc[t] = "idle"
      BY DEF RequestBackground
    <2>3. TypeOK'
      BY <2>1 DEF TypeOK, PC
    <2>4. OwnerInv' /\ EventInv'
      BY <1>1, <2>1, <2>2 DEF OwnerInv, EventInv, Holding, TypeOK
    <2>5. QueueInv'
      BY <2>1, <2>2, QueueKept DEF TypeOK
    <2>6. SlotsMatch'
      BY <2>1, <2>2, SlotsKept DEF TypeOK
    <2>7. QED
      BY <2>3, <2>4, <2>5, <2>6
  <1>2. CASE ~(waiting > 0 /\ ~idle)
    BY <1>2, AcquireBackgroundStep DEF RequestBackground
  <1>3. QED
    BY <1>1, <1>2

LEMMA ResumeStep ==
  ASSUME IInv, NEW t \in Tasks, Resume(t)
  PROVE  IInv'
  <1>1. t \notin Priority
    BY DEF IInv, EventInv, Resume
  <1>2. QED
    BY <1>1, AcquireBackgroundStep DEF Resume

LEMMA GrantedStep ==
  ASSUME IInv, NEW t \in Tasks, Granted(t)
  PROVE  IInv'
  <1> USE DEF IInv
  <1>1. /\ owner = None /\ queue # <<>> /\ Head(queue) = t /\ queue' = Tail(queue)
        /\ UNCHANGED <<waiting, idle>>
    BY DEF Granted, AtHead
  <1>2. 1 \in 1 .. Len(queue) /\ queue[1] = t /\ pc[t] = "queued"
    BY <1>1, EmptySeq, LenProperties, HeadTailProperties DEF TypeOK, QueueInv
  <1>3. /\ queue' \in Seq(Tasks) /\ Len(queue') = Len(queue) - 1
        /\ \A j \in 1 .. Len(queue) - 1 :
             queue'[j] = IF j < 1 THEN queue[j] ELSE queue[j + 1]
    BY <1>1, HeadTailProperties DEF TypeOK
  <1>4. /\ pc' \in [Tasks -> PC] /\ pc'[t] # "queued"
        /\ \A u \in Tasks \ {t} : pc'[u] = pc[u]
        /\ owner' \in Tasks \cup {None} /\ depth' \in 0 .. MaxDepth
        /\ OwnerInv' /\ EventInv' /\ SlotsMatch'
    <2>1. CASE t \in Priority
      <3>1. Enter(t)
        BY <2>1 DEF Granted
      <3>2. OwnerInv'
        BY <1>1, <3>1, NoneIsNoTask DEF Enter, OwnerInv, Holding, TypeOK
      <3>3. EventInv'
        BY <1>1, <3>1, PrioritySubset DEF Enter, EventInv, TypeOK
      <3>4. SlotsMatch'
        BY <1>1, <1>2, <3>1, PrioritySubset, SlotsKept DEF Enter, Holding, TypeOK
      <3>5. QED
        BY <3>1, <3>2, <3>3, <3>4, DepthBound DEF Enter, TypeOK, PC
    <2>2. CASE t \notin Priority
      BY <1>1, <2>2, BackgroundGrantedEffect DEF Granted
    <2>3. QED
      BY <2>1, <2>2
  <1>5. QueueInv'
    BY <1>2, <1>3, <1>4, QueueLeft
  <1>6. QED
    BY <1>1, <1>3, <1>4, <1>5 DEF TypeOK

(* The finally clause of a transaction, whoever it belongs to.             *)
LEMMA LeaveStep ==
  ASSUME IInv, NEW t \in Tasks, pc[t] \in Holding, Leave(t)
  PROVE  IInv'
  <1> USE DEF IInv
  <1>1. owner = t /\ owner' = None /\ depth' = 0 /\ UNCHANGED queue
    BY DEF Leave, OwnerInv
  <1>2. CASE t \in Priority
    <2>1. t \in Wanting
      BY <1>2 DEF Wanting
    <2>2. /\ pc' \in [Tasks -> PC]
          /\ pc'[t] = "idle"
          /\ \A u \in Tasks \ {t} :
               pc'[u] = pc[u] \/ (pc[u] = "event" /\ pc'[u] = "woken")
          /\ waiting' \in Nat /\ idle' \in BOOLEAN
          /\ SlotsMatch'
          /\ EventInv'
      BY <1>2, <2>1, ReleaseSlotEffect DEF Leave
    <2>3. OwnerInv'
      BY <1>1, <2>2, NoneIsNoTask DEF OwnerInv, Holding
    <2>4. QueueInv'
      BY <1>1, <2>2, QueueKept DEF Holding
    <2>5. QED
      BY <1>1, <2>2, <2>3, <2>4, DepthBound DEF TypeOK
  <1>3. CASE t \notin Priority
    <2>1. pc' = [pc EXCEPT ![t] = "idle"] /\ UNCHANGED <<waiting, idle>>
      BY <1>3 DEF Leave
    <2>2. TypeOK'
      BY <1>1, <2>1, DepthBound DEF TypeOK, PC
    <2>3. OwnerInv'
      BY <1>1, <2>1, NoneIsNoTask DEF OwnerInv, Holding, TypeOK
    <2>4. QueueInv'
      BY <1>1, <2>1, QueueKept DEF Holding, TypeOK
    <2>5. EventInv'
      BY <2>1 DEF EventInv, TypeOK
    <2>6. SlotsMatch'
      BY <1>3, <2>1, SlotsKept DEF TypeOK
    <2>7. QED
      BY <2>2, <2>3, <2>4, <2>5, <2>6
  <1>4. QED
    BY <1>2, <1>3

LEMMA CancelQueuedStep ==
  ASSUME IInv, NEW t \in Tasks, CancelQueued(t)
  PROVE  IInv'
  <1> USE DEF IInv
  <1>1. PICK i \in 1 .. Len(queue) : queue[i] = t /\ queue' = RemovedAt(queue, i)
    BY DEF CancelQueued
  <1>2. pc[t] = "queued" /\ UNCHANGED <<owner, depth>>
    BY DEF CancelQueued
  <1>3. /\ queue' \in Seq(Tasks) /\ Len(queue') = Len(queue) - 1
        /\ \A j \in 1 .. Len(queue) - 1 :
             queue'[j] = IF j < i THEN queue[j] ELSE queue[j + 1]
    BY <1>1, RemovedAtProperties DEF TypeOK
  <1>4. /\ pc' \in [Tasks -> PC]
        /\ pc'[t] = "idle"
        /\ \A u \in Tasks \ {t} :
             pc'[u] = pc[u] \/ (pc[u] = "event" /\ pc'[u] = "woken")
        /\ waiting' \in Nat /\ idle' \in BOOLEAN
        /\ SlotsMatch' /\ EventInv'
    <2>1. CASE t \in Priority
      <3>1. t \in Wanting
        BY <1>2, <2>1 DEF Wanting
      <3>2. QED
        BY <2>1, <3>1, ReleaseSlotEffect DEF CancelQueued
    <2>2. CASE t \notin Priority
      <3>1. pc' = [pc EXCEPT ![t] = "idle"] /\ UNCHANGED <<waiting, idle>>
        BY <2>2 DEF CancelQueued
      <3>2. SlotsMatch'
        BY <2>2, <3>1, SlotsKept DEF TypeOK
      <3>3. EventInv'
        BY <3>1 DEF EventInv, TypeOK
      <3>4. QED
        BY <3>1, <3>2, <3>3 DEF TypeOK, PC
    <2>3. QED
      BY <2>1, <2>2
  <1>5. OwnerInv'
    BY <1>2, <1>4 DEF OwnerInv, Holding
  <1>6. QueueInv'
    BY <1>1, <1>3, <1>4, QueueLeft
  <1>7. QED
    BY <1>2, <1>3, <1>4, <1>5, <1>6 DEF TypeOK

(* The remaining steps touch neither the line nor the reservations.        *)
LEMMA LocalStep ==
  ASSUME IInv, NEW t \in Tasks,
         EnterNested(t) \/ ExitNested(t) \/ Deadline(t) \/ CancelEvent(t)
  PROVE  IInv'
  <1> USE DEF IInv
  <1>1. UNCHANGED <<owner, queue, waiting, idle>>
    BY DEF EnterNested, ExitNested, Deadline, CancelEvent
  <1>2. /\ pc' \in [Tasks -> PC] /\ depth' \in 0 .. MaxDepth
        /\ \A u \in Tasks :
             \/ pc'[u] = pc[u]
             \/ pc[u] = "running" /\ pc'[u] = "resetting"
             \/ pc[u] \in {"event", "woken"} /\ pc'[u] = "idle"
    BY DepthBound DEF EnterNested, ExitNested, Deadline, CancelEvent, TypeOK, PC
  <1>3. OwnerInv'
    BY <1>1, <1>2 DEF OwnerInv, Holding
  <1>4. QueueInv'
    BY <1>1, <1>2, QueueKept
  <1>5. EventInv'
    BY <1>1, <1>2, PrioritySubset DEF EventInv
  <1>6. SlotsMatch'
    <2>1. \A u \in Priority : pc'[u] \in Holding \cup {"queued"}
                               <=> pc[u] \in Holding \cup {"queued"}
      BY <1>2, PrioritySubset DEF Holding
    <2>2. QED
      BY <1>1, <2>1, SlotsKept
  <1>7. QED
    BY <1>1, <1>2, <1>3, <1>4, <1>5, <1>6 DEF TypeOK

-----------------------------------------------------------------------------
(* The invariant holds from the start and every step preserves it.         *)
LEMMA InitIInv == Init => IInv
  <1> SUFFICES ASSUME Init PROVE IInv
    OBVIOUS
  <1>1. TypeOK
    BY DepthBound DEF Init, TypeOK, PC
  <1>2. OwnerInv
    BY NoneIsNoTask DEF Init, OwnerInv, Holding
  <1>3. QueueInv
    BY DEF Init, QueueInv
  <1>4. EventInv
    BY PrioritySubset DEF Init, EventInv
  <1>5. SlotsMatch
    <2>1. Wanting = {}
      BY PrioritySubset DEF Init, Wanting, Holding
    <2>2. QED
      BY <2>1, FS_EmptySet DEF Init, SlotsMatch
  <1>6. QED
    BY <1>1, <1>2, <1>3, <1>4, <1>5 DEF IInv

LEMMA StutterIInv == IInv /\ UNCHANGED vars => IInv'
  <1> SUFFICES ASSUME IInv, UNCHANGED vars PROVE IInv'
    OBVIOUS
  <1> USE DEF IInv, vars
  <1>1. TypeOK' /\ OwnerInv' /\ QueueInv' /\ EventInv'
    BY DEF TypeOK, OwnerInv, QueueInv, EventInv
  <1>2. SlotsMatch'
    BY SlotsKept
  <1>3. QED
    BY <1>1, <1>2

LEMMA NextIInv == IInv /\ [Next]_vars => IInv'
  <1> SUFFICES ASSUME IInv, [Next]_vars PROVE IInv'
    OBVIOUS
  <1>1. CASE UNCHANGED vars
    BY <1>1, StutterIInv
  <1>2. ASSUME NEW t \in Tasks, RequestPriority(t) PROVE IInv'
    BY <1>2, RequestPriorityStep
  <1>3. ASSUME NEW t \in Tasks, RequestBackground(t) PROVE IInv'
    BY <1>3, RequestBackgroundStep
  <1>4. ASSUME NEW t \in Tasks, Resume(t) PROVE IInv'
    BY <1>4, ResumeStep
  <1>5. ASSUME NEW t \in Tasks, Granted(t) PROVE IInv'
    BY <1>5, GrantedStep
  <1>6. ASSUME NEW t \in Tasks, Finish(t) \/ ResetDone(t) PROVE IInv'
    BY <1>6, LeaveStep DEF Finish, ResetDone, Holding
  <1>7. ASSUME NEW t \in Tasks, CancelQueued(t) PROVE IInv'
    BY <1>7, CancelQueuedStep
  <1>8. ASSUME NEW t \in Tasks,
               EnterNested(t) \/ ExitNested(t) \/ Deadline(t) \/ CancelEvent(t)
        PROVE  IInv'
    BY <1>8, LocalStep
  <1>9. QED
    BY <1>1, <1>2, <1>3, <1>4, <1>5, <1>6, <1>7, <1>8 DEF Next

THEOREM Invariance == Spec => []IInv
  BY InitIInv, NextIInv, PTL DEF Spec

(* The variables of the command lock keep their types: among others, the   *)
(* nesting depth stays in its bound and _priority_waiting never needs the  *)
(* max(0, ...) the code guards it with to stay a natural number.           *)
THEOREM TypeCorrect == Spec => []TypeOK
  <1>1. IInv => TypeOK
    BY DEF IInv
  <1>2. QED
    BY <1>1, Invariance, PTL

(* priority_waiting counts exactly the user commands queued or running.    *)
THEOREM SlotAccounting == Spec => []SlotsMatch
  <1>1. IInv => SlotsMatch
    BY DEF IInv
  <1>2. QED
    BY <1>1, Invariance, PTL

(* No lost wakeup: somebody can always move while somebody waits.          *)
LEMMA IInvNoStranded == IInv => NoStrandedWaiter
  <1> SUFFICES ASSUME IInv, NEW t \in Tasks, pc[t] \in Waiting
               PROVE  \E u \in Tasks : pc[u] \in Holding \cup {"woken"} \/ AtHead(u)
    BY DEF NoStrandedWaiter
  <1> USE DEF IInv
  <1>1. ASSUME NEW u \in Tasks, pc[u] = "queued"
        PROVE  \E v \in Tasks : pc[v] \in Holding \cup {"woken"} \/ AtHead(v)
    <2>1. PICK i \in 1 .. Len(queue) : queue[i] = u
      BY <1>1 DEF QueueInv
    <2>2. queue # <<>> /\ Head(queue) \in Tasks
      BY <2>1, EmptySeq, HeadTailProperties DEF TypeOK
    <2>3. CASE owner = None
      BY <2>2, <2>3 DEF AtHead
    <2>4. CASE owner # None
      BY <2>4 DEF OwnerInv, TypeOK
    <2>5. QED
      BY <2>3, <2>4
  <1>2. CASE pc[t] = "event"
    <2>1. Wanting # {}
      BY <1>2, FS_EmptySet DEF EventInv, SlotsMatch
    <2>2. PICK u \in Priority : pc[u] \in Holding \cup {"queued"}
      BY <2>1 DEF Wanting
    <2>3. QED
      BY <2>2, <1>1, PrioritySubset
  <1>3. QED
    BY <1>1, <1>2 DEF Waiting

THEOREM NoLostWakeup == Spec => []NoStrandedWaiter
  BY Invariance, IInvNoStranded, PTL

-----------------------------------------------------------------------------
(* The refinement: what each kind of step does to who waits and who is     *)
(* inside.                                                                 *)
WaitingSet == {t \in Tasks : pc[t] \in Waiting}
InsideSet == {t \in Tasks : pc[t] \in Holding}

LEMMA MappedVariables ==
  /\ Promise!avars = <<WaitingSet, InsideSet>>
  /\ Promise!AInit <=> (WaitingSet = {} /\ InsideSet = {})
  BY DEF Promise!avars, Promise!AInit, WaitingSet, InsideSet

(* While nobody owns the lock nobody is inside, and while the count is     *)
(* zero no user command waits.                                             *)
LEMMA FreeMeansEmpty ==
  ASSUME IInv
  PROVE  /\ owner = None => InsideSet = {}
         /\ waiting = 0 => WaitingSet \cap Priority = {}
  <1>1. owner = None => InsideSet = {}
    BY NoneIsNoTask DEF IInv, OwnerInv, InsideSet
  <1>2. waiting = 0 => WaitingSet \cap Priority = {}
    <2> SUFFICES ASSUME waiting = 0 PROVE WaitingSet \cap Priority = {}
      OBVIOUS
    <2>1. Cardinality(Wanting) = 0
      BY DEF IInv, SlotsMatch
    <2>2. Wanting = {}
      BY <2>1, WantingFinite, FS_EmptySet
    <2>3. QED
      BY <2>2 DEF IInv, EventInv, Wanting, WaitingSet, Waiting
  <1>3. QED
    BY <1>1, <1>2

LEMMA WantStep ==
  ASSUME IInv, NEW t \in Tasks, pc[t] = "idle", UNCHANGED InsideSet,
         WaitingSet' = WaitingSet \cup {t}
  PROVE  Promise!ANext
  <1>1. t \notin WaitingSet \cup InsideSet
    BY DEF WaitingSet, InsideSet, Waiting, Holding
  <1>2. Promise!Want(t)
    BY <1>1 DEF Promise!Want, WaitingSet, InsideSet
  <1>3. QED
    BY <1>2 DEF Promise!ANext

LEMMA BeginStep ==
  ASSUME IInv, NEW t \in Tasks, owner = None, t \in Priority \/ waiting = 0,
         WaitingSet' = WaitingSet \ {t}, InsideSet' = {t}
  PROVE  Promise!ANext
  <1>1. InsideSet = {} /\ (t \in Priority \/ WaitingSet \cap Priority = {})
    BY FreeMeansEmpty
  <1>2. Promise!MayBegin(t)
    BY <1>1 DEF Promise!MayBegin, WaitingSet, InsideSet
  <1>3. Promise!Begin(t)
    BY <1>1, <1>2 DEF Promise!Begin, WaitingSet, InsideSet
  <1>4. QED
    BY <1>3 DEF Promise!ANext

LEMMA EndStep ==
  ASSUME NEW t \in Tasks, t \in InsideSet,
         InsideSet' = InsideSet \ {t}, UNCHANGED WaitingSet
  PROVE  Promise!ANext
  <1>1. Promise!End(t)
    BY DEF Promise!End, WaitingSet, InsideSet
  <1>2. QED
    BY <1>1 DEF Promise!ANext

LEMMA GiveUpStep ==
  ASSUME NEW t \in Tasks, t \in WaitingSet,
         WaitingSet' = WaitingSet \ {t}, UNCHANGED InsideSet
  PROVE  Promise!ANext
  <1>1. Promise!GiveUp(t)
    BY DEF Promise!GiveUp, WaitingSet, InsideSet
  <1>2. QED
    BY <1>1 DEF Promise!ANext

(* A task enters: nobody was inside, so it is the only one now.            *)
LEMMA EnterMaps ==
  ASSUME IInv, NEW t \in Tasks, owner = None, Enter(t)
  PROVE  WaitingSet' = WaitingSet \ {t} /\ InsideSet' = {t}
  <1>1. \A u \in Tasks : pc'[u] = IF u = t THEN "running" ELSE pc[u]
    BY DEF IInv, TypeOK, Enter
  <1>2. InsideSet = {}
    BY FreeMeansEmpty
  <1>3. QED
    BY <1>1, <1>2 DEF WaitingSet, InsideSet, Waiting, Holding

(* A background acquirer given a free lock begins, or goes on waiting; if  *)
(* it was not waiting yet the count is zero and it begins.                 *)
LEMMA BackgroundGrantedMaps ==
  ASSUME IInv, NEW t \in Tasks \ Priority, owner = None, BackgroundGranted(t),
         pc[t] = "idle" => waiting = 0, pc[t] \in Waiting \cup {"idle"}
  PROVE  Promise!ANext \/ UNCHANGED <<WaitingSet, InsideSet>>
  <1>1. CASE waiting = 0
    <2>1. Enter(t)
      BY <1>1 DEF BackgroundGranted
    <2>2. QED
      BY <1>1, <2>1, EnterMaps, BeginStep
  <1>2. CASE waiting # 0
    <2>1. StandAside(t) /\ pc[t] \in Waiting
      BY <1>2 DEF BackgroundGranted
    <2>2. /\ \A u \in Tasks \ {t} : pc'[u] = pc[u]
          /\ pc'[t] \in {"event", "woken"}
      BY <2>1 DEF StandAside, IInv, TypeOK
    <2>3. UNCHANGED <<WaitingSet, InsideSet>>
      BY <2>1, <2>2 DEF WaitingSet, InsideSet, Waiting, Holding
    <2>4. QED
      BY <2>3
  <1>3. QED
    BY <1>1, <1>2

(* Queueing for the lock: a new caller wants it, a woken one goes on       *)
(* waiting.                                                                *)
LEMMA QueuedMaps ==
  ASSUME IInv, NEW t \in Tasks, pc' = [pc EXCEPT ![t] = "queued"],
         pc[t] \in {"idle", "woken"}
  PROVE  Promise!ANext \/ UNCHANGED <<WaitingSet, InsideSet>>
  <1>1. \A u \in Tasks : pc'[u] = IF u = t THEN "queued" ELSE pc[u]
    BY DEF IInv, TypeOK
  <1>2. UNCHANGED InsideSet
    BY <1>1 DEF InsideSet, Holding
  <1>3. WaitingSet' = WaitingSet \cup {t}
    BY <1>1 DEF WaitingSet, Waiting
  <1>4. CASE pc[t] = "idle"
    BY <1>2, <1>3, <1>4, WantStep
  <1>5. CASE pc[t] = "woken"
    <2>1. t \in WaitingSet
      BY <1>5 DEF WaitingSet, Waiting
    <2>2. QED
      BY <1>2, <1>3, <2>1
  <1>6. QED
    BY <1>4, <1>5

LEMMA AcquireBackgroundMaps ==
  ASSUME IInv, NEW t \in Tasks \ Priority, AcquireBackground(t),
         pc[t] = "woken" \/ (pc[t] = "idle" /\ waiting = 0)
  PROVE  Promise!ANext \/ UNCHANGED <<WaitingSet, InsideSet>>
  <1>1. CASE LockFree
    BY <1>1, BackgroundGrantedMaps DEF AcquireBackground, LockFree, Waiting
  <1>2. CASE ~LockFree
    BY <1>2, QueuedMaps DEF AcquireBackground
  <1>3. QED
    BY <1>1, <1>2

(* A step after which only t, and waiters the Event released, have moved.  *)
LEMMA IdledMaps ==
  ASSUME IInv, NEW t \in Tasks, pc[t] \in Holding \cup Waiting,
         pc'[t] = "idle",
         \A u \in Tasks \ {t} :
           pc'[u] = pc[u] \/ (pc[u] = "event" /\ pc'[u] = "woken")
  PROVE  Promise!ANext
  <1>1. WaitingSet' = WaitingSet \ {t} /\ InsideSet' = InsideSet \ {t}
    BY DEF WaitingSet, InsideSet, Waiting, Holding
  <1>2. CASE pc[t] \in Holding
    <2>1. t \in InsideSet /\ t \notin WaitingSet
      BY <1>2 DEF WaitingSet, InsideSet, Waiting, Holding
    <2>2. QED
      BY <1>1, <2>1, EndStep
  <1>3. CASE pc[t] \in Waiting
    <2>1. t \in WaitingSet /\ t \notin InsideSet
      BY <1>3 DEF WaitingSet, InsideSet, Waiting, Holding
    <2>2. QED
      BY <1>1, <2>1, GiveUpStep
  <1>4. QED
    BY <1>2, <1>3

LEMMA ReleaseSlotMoves ==
  ASSUME IInv, NEW t \in Tasks, ReleaseSlot([pc EXCEPT ![t] = "idle"])
  PROVE  /\ pc'[t] = "idle"
         /\ \A u \in Tasks \ {t} :
              pc'[u] = pc[u] \/ (pc[u] = "event" /\ pc'[u] = "woken")
  BY DEF ReleaseSlot, Released, IInv, TypeOK

LEMMA StepMaps ==
  ASSUME IInv, [Next]_vars
  PROVE  Promise!ANext \/ UNCHANGED <<WaitingSet, InsideSet>>
  <1>1. CASE UNCHANGED vars
    BY <1>1 DEF vars, WaitingSet, InsideSet
  <1>2. ASSUME NEW t \in Tasks, RequestPriority(t)
        PROVE  Promise!ANext \/ UNCHANGED <<WaitingSet, InsideSet>>
    <2>1. t \in Priority /\ pc[t] = "idle"
      BY <1>2 DEF RequestPriority
    <2>2. CASE LockFree
      BY <1>2, <2>1, <2>2, EnterMaps, BeginStep DEF RequestPriority, LockFree
    <2>3. CASE ~LockFree
      BY <1>2, <2>1, <2>3, QueuedMaps DEF RequestPriority
    <2>4. QED
      BY <2>2, <2>3
  <1>3. ASSUME NEW t \in Tasks, RequestBackground(t)
        PROVE  Promise!ANext \/ UNCHANGED <<WaitingSet, InsideSet>>
    <2>1. t \in Tasks \ Priority /\ pc[t] = "idle"
      BY <1>3 DEF RequestBackground
    <2>2. CASE waiting > 0 /\ ~idle
      <3>1. \A u \in Tasks : pc'[u] = IF u = t THEN "event" ELSE pc[u]
        BY <1>3, <2>2 DEF RequestBackground, IInv, TypeOK
      <3>2. UNCHANGED InsideSet /\ WaitingSet' = WaitingSet \cup {t}
        BY <2>1, <3>1 DEF WaitingSet, InsideSet, Waiting, Holding
      <3>3. QED
        BY <2>1, <3>2, WantStep
    <2>3. CASE ~(waiting > 0 /\ ~idle)
      <3>1. waiting = 0
        BY <2>3 DEF IInv, TypeOK, SlotsMatch
      <3>2. QED
        BY <1>3, <2>1, <2>3, <3>1, AcquireBackgroundMaps DEF RequestBackground
    <2>4. QED
      BY <2>2, <2>3
  <1>4. ASSUME NEW t \in Tasks, Resume(t)
        PROVE  Promise!ANext \/ UNCHANGED <<WaitingSet, InsideSet>>
    <2>1. t \notin Priority /\ pc[t] = "woken"
      BY <1>4 DEF Resume, IInv, EventInv
    <2>2. QED
      BY <1>4, <2>1, AcquireBackgroundMaps DEF Resume
  <1>5. ASSUME NEW t \in Tasks, Granted(t)
        PROVE  Promise!ANext \/ UNCHANGED <<WaitingSet, InsideSet>>
    <2>1. owner = None /\ queue # <<>> /\ Head(queue) = t
      BY <1>5 DEF Granted, AtHead
    <2>2. pc[t] = "queued"
      BY <2>1, EmptySeq, LenProperties, HeadTailProperties DEF IInv, TypeOK, QueueInv
    <2>3. CASE t \in Priority
      BY <1>5, <2>1, <2>3, EnterMaps, BeginStep DEF Granted
    <2>4. CASE t \notin Priority
      BY <1>5, <2>1, <2>2, <2>4, BackgroundGrantedMaps DEF Granted, Waiting
    <2>5. QED
      BY <2>3, <2>4
  <1>6. ASSUME NEW t \in Tasks, Finish(t) \/ ResetDone(t)
        PROVE  Promise!ANext
    <2>1. pc[t] \in Holding /\ Leave(t)
      BY <1>6 DEF Finish, ResetDone, Holding
    <2>2. CASE t \in Priority
      BY <2>1, <2>2, ReleaseSlotMoves, IdledMaps DEF Leave
    <2>3. CASE t \notin Priority
      <3>1. pc' = [pc EXCEPT ![t] = "idle"]
        BY <2>1, <2>3 DEF Leave
      <3>2. QED
        BY <2>1, <3>1, IdledMaps DEF IInv, TypeOK
    <2>4. QED
      BY <2>2, <2>3
  <1>7. ASSUME NEW t \in Tasks, CancelQueued(t)
        PROVE  Promise!ANext
    <2>1. pc[t] \in Waiting
      BY <1>7 DEF CancelQueued, Waiting
    <2>2. CASE t \in Priority
      BY <1>7, <2>1, <2>2, ReleaseSlotMoves, IdledMaps DEF CancelQueued
    <2>3. CASE t \notin Priority
      <3>1. pc' = [pc EXCEPT ![t] = "idle"]
        BY <1>7, <2>3 DEF CancelQueued
      <3>2. QED
        BY <2>1, <3>1, IdledMaps DEF IInv, TypeOK
    <2>4. QED
      BY <2>2, <2>3
  <1>8. ASSUME NEW t \in Tasks, CancelEvent(t)
        PROVE  Promise!ANext
    <2>1. pc[t] \in Waiting /\ pc' = [pc EXCEPT ![t] = "idle"]
      BY <1>8 DEF CancelEvent, Waiting
    <2>2. QED
      BY <2>1, IdledMaps DEF IInv, TypeOK
  <1>9. ASSUME NEW t \in Tasks, EnterNested(t) \/ ExitNested(t) \/ Deadline(t)
        PROVE  UNCHANGED <<WaitingSet, InsideSet>>
    <2>1. \A u \in Tasks :
            \/ pc'[u] = pc[u]
            \/ pc[u] = "running" /\ pc'[u] = "resetting"
      BY <1>9 DEF EnterNested, ExitNested, Deadline, IInv, TypeOK
    <2>2. QED
      BY <2>1 DEF WaitingSet, InsideSet, Waiting, Holding
  <1>10. QED
    BY <1>1, <1>2, <1>3, <1>4, <1>5, <1>6, <1>7, <1>8, <1>9 DEF Next

(* The Device's lock keeps the promise of PriorityExclusion for any number *)
(* of tasks: one command at a time, and no background command begins while *)
(* a user's command wants or has the device.                               *)
THEOREM Refinement == Spec => ImplementsPromise
  <1>1. Init => Promise!AInit
    <2> SUFFICES ASSUME Init PROVE Promise!AInit
      OBVIOUS
    <2>1. WaitingSet = {} /\ InsideSet = {}
      BY DEF Init, WaitingSet, InsideSet, Waiting, Holding
    <2>2. QED
      BY <2>1, MappedVariables
  <1>2. IInv /\ [Next]_vars => [Promise!ANext]_(Promise!avars)
    BY StepMaps DEF Promise!avars, WaitingSet, InsideSet
  <1>3. QED
    BY <1>1, <1>2, Invariance, PTL DEF Spec, ImplementsPromise, Promise!ASpec
=============================================================================
