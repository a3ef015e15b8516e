-------------------------- MODULE LifecycleProofs --------------------------
(***************************************************************************)
(* Theorems about Lifecycle: who owns the Clients that may connect, and    *)
(* that a latch, once set, stays effective, for any number of setups,      *)
(* Clients and user tasks.                                                 *)
(***************************************************************************)
EXTENDS Lifecycle, TLAPS

(* The stored runtime exists from the moment a setup made it until the     *)
(* entry is gone, and a Device belongs to a runtime that was made.         *)
StageInv ==
  /\ stage = "static" => runtimes + 1 \in Runtimes
  /\ stage \notin {"out", "static"} => cur # None
  /\ cur # None => cur \in 1 .. runtimes
  /\ made \subseteq 1 .. runtimes

(* A task that is not idle works on a Device that exists.                  *)
TaskInv == \A t \in Tasks : at[t] # "idle" => on[t] \in made

(* A live Client is the one its Device has; only a Device has a Client or  *)
(* a latch.                                                                *)
OwnInv ==
  /\ \A c \in live : owner[c] \in made /\ client[owner[c]] = c
  /\ \A r \in Runtimes \ made : client[r] = None
  /\ closing \subseteq made

(* The process is latched once Stage 1 has begun; the stored runtime's     *)
(* Device is latched once its job has run.                                 *)
LatchInv ==
  /\ stage1 => shutting
  /\ jobs # {} => stage1
  /\ stage1 /\ cur \in made \ jobs => cur \in closing

IInv == TypeOK /\ StageInv /\ TaskInv /\ OwnInv /\ LatchInv /\ ClosedForGood

-----------------------------------------------------------------------------
(* What each way to change the Clients does to them.                       *)

LinkTypes ==
  /\ client \in [Runtimes -> Clients \cup {None}]
  /\ owner \in [Clients -> Runtimes \cup {None}]
  /\ live \subseteq Clients
  /\ ending \subseteq Clients

(* A new Client, for a Device that has none and is not latched, is owned   *)
(* by it, and nobody else's ownership changes.                             *)
LEMMA NewClientOwned ==
  ASSUME LinkTypes, OwnInv, ClosedForGood, made \subseteq Runtimes,
         NEW r \in Runtimes, client[r] = None, r \notin closing, NewClient(r),
         made' = made \cup {r}, closing' = closing
  PROVE  LinkTypes' /\ OwnInv' /\ ClosedForGood'
<1>1. PICK c \in Clients :
         /\ owner[c] = None
         /\ client' = [client EXCEPT ![r] = c]
         /\ owner' = [owner EXCEPT ![c] = r]
         /\ live' = live \cup {c}
         /\ ending' = ending
  BY DEF NewClient
<1>2. LinkTypes'
  BY <1>1 DEF LinkTypes
<1>3. None \notin Runtimes /\ None \notin Clients
  BY LifecycleAssumption DEF LifecycleAssumption, Runtimes, Clients
<1>4. c \notin live
  BY <1>1, <1>3 DEF OwnInv
<1>5. ASSUME NEW d \in live' PROVE owner'[d] \in made' /\ client'[owner'[d]] = d
  <2>1. CASE d = c
    BY <2>1, <1>1 DEF LinkTypes
  <2>2. CASE d # c
    <3>1. d \in live /\ owner'[d] = owner[d]
      BY <2>2, <1>1, <1>5 DEF LinkTypes
    <3>2. owner[d] # r
      BY <3>1, <1>3 DEF OwnInv, LinkTypes
    <3> QED BY <3>1, <3>2, <1>1 DEF OwnInv, LinkTypes
  <2> QED BY <2>1, <2>2
<1>6. \A q \in Runtimes \ made' : client'[q] = None
  BY <1>1 DEF OwnInv, LinkTypes
<1>7. ASSUME NEW d \in live' PROVE owner'[d] \notin closing'
  BY <1>1, <1>4, <1>7 DEF ClosedForGood, LinkTypes
<1> QED BY <1>2, <1>5, <1>6, <1>7 DEF OwnInv, ClosedForGood

(* Detaching a Device's Client leaves that Device with no live one.        *)
LEMMA DetachOwned ==
  ASSUME LinkTypes, OwnInv, ClosedForGood,
         NEW r \in Runtimes, Detach(r), made' = made,
         closing' \subseteq closing \cup {r}, closing' \subseteq made
  PROVE  LinkTypes' /\ OwnInv' /\ ClosedForGood'
<1>1. LinkTypes'
  BY DEF LinkTypes, Detach
<1>2. ASSUME NEW d \in live' PROVE d \in live /\ owner[d] # r
  BY <1>2 DEF Detach, OwnInv
<1>3. OwnInv'
  BY <1>2 DEF OwnInv, Detach, LinkTypes
<1>4. ClosedForGood'
  BY <1>2 DEF ClosedForGood, Detach
<1> QED BY <1>1, <1>3, <1>4

(* Fewer live Clients and no new latch: ownership is not disturbed.        *)
LEMMA FewerOwned ==
  ASSUME OwnInv, ClosedForGood, live' \subseteq live,
         UNCHANGED <<client, owner, made, closing>>
  PROVE  OwnInv' /\ ClosedForGood'
BY DEF OwnInv, ClosedForGood

-----------------------------------------------------------------------------
(* A task that ends, by itself or cancelled, is idle.                      *)
LEMMA EndsKeeps ==
  ASSUME TypeOK, TaskInv, NEW t \in Tasks, Ends(t), made \subseteq made'
  PROVE  /\ at' \in [Tasks -> {"idle", "queued", "inside", "reset"}]
         /\ on' \in [Tasks -> Runtimes \cup {None}]
         /\ stopping' \in [Tasks -> Clients \cup {None}]
         /\ TaskInv'
BY DEF TypeOK, TaskInv, Ends

(* The end of the entry: its guardian task is idle, the others go on.      *)
LEMMA GoneKeeps ==
  ASSUME TypeOK, TaskInv, EntryGone, made' = made
  PROVE  /\ stage' = "out" /\ cur' = None
         /\ at' \in [Tasks -> {"idle", "queued", "inside", "reset"}]
         /\ on' \in [Tasks -> Runtimes \cup {None}]
         /\ stopping' \in [Tasks -> Clients \cup {None}]
         /\ resetting' \subseteq Runtimes
         /\ TaskInv'
BY DEF TypeOK, TaskInv, EntryGone, Tasks

LEMMA RuntimesAreNumbers == Runtimes \subseteq Nat /\ None \notin Runtimes
BY LifecycleAssumption DEF LifecycleAssumption, Runtimes

LEMMA LinksTyped == TypeOK => LinkTypes
BY DEF TypeOK, LinkTypes

LEMMA InitHolds == ASSUME Init PROVE IInv
<1>1. TypeOK
  BY LifecycleAssumption DEF LifecycleAssumption, Init, TypeOK
<1>2. StageInv /\ LatchInv
  BY DEF Init, StageInv, LatchInv
<1>3. TaskInv
  BY DEF Init, TaskInv
<1>4. OwnInv /\ ClosedForGood
  BY DEF Init, OwnInv, ClosedForGood
<1> QED BY <1>1, <1>2, <1>3, <1>4 DEF IInv

(* The release of a runtime: its latch and its Device's links.             *)
LEMMA ReleaseKeeps ==
  ASSUME IInv, NEW r \in Runtimes, Release(r), made' = made
  PROVE  /\ LinkTypes' /\ OwnInv' /\ ClosedForGood'
         /\ refusing' \subseteq Runtimes /\ resetting' \subseteq Runtimes
         /\ closing' \subseteq Runtimes
         /\ awaited' \in [Runtimes -> Clients \cup {None}]
         /\ shutting' = TRUE
         /\ closing \subseteq closing'
         /\ r \in made => r \in closing'
<1>1. CASE r \in made
  <2>1. Detach(r) /\ closing' = closing \cup {r}
    BY <1>1 DEF Release
  <2>2. closing' \subseteq made
    BY <1>1, <2>1 DEF IInv, OwnInv
  <2>3. LinkTypes' /\ OwnInv' /\ ClosedForGood'
    BY <2>1, <2>2, LinksTyped, DetachOwned DEF IInv
  <2> QED BY <1>1, <2>1, <2>3 DEF Release, IInv, TypeOK
<1>2. CASE r \notin made
  <2>1. UNCHANGED <<closing, links, awaited, resetting>>
    BY <1>2 DEF Release
  <2>2. LinkTypes' /\ OwnInv' /\ ClosedForGood'
    BY <2>1, LinksTyped DEF IInv, LinkTypes, OwnInv, ClosedForGood, links
  <2> QED BY <1>2, <2>1, <2>2 DEF Release, IInv, TypeOK
<1> QED BY <1>1, <1>2

-----------------------------------------------------------------------------
(* What unload and an aborted set-up come to.                              *)
LEMMA GoneStep ==
  ASSUME IInv, EntryGone,
         UNCHANGED <<runtimes, made, links, latches>>,
         resume' \in {"no", "asked", "armed"},
         awaited' \in [Runtimes -> Clients \cup {None}]
  PROVE  IInv'
<1>1. made' = made
  OBVIOUS
<1>2. /\ stage' = "out" /\ cur' = None /\ resetting' \subseteq Runtimes
      /\ at' \in [Tasks -> {"idle", "queued", "inside", "reset"}]
      /\ on' \in [Tasks -> Runtimes \cup {None}]
      /\ stopping' \in [Tasks -> Clients \cup {None}] /\ TaskInv'
  BY <1>1, GoneKeeps DEF IInv
<1>3. TypeOK'
  BY <1>2 DEF IInv, TypeOK, links, latches
<1>4. StageInv'
  BY <1>2 DEF IInv, StageInv
<1>5. OwnInv' /\ ClosedForGood'
  BY DEF IInv, OwnInv, ClosedForGood, links, latches
<1>6. None \notin made
  BY RuntimesAreNumbers DEF IInv, TypeOK
<1>7. LatchInv'
  BY <1>2, <1>6 DEF IInv, LatchInv, latches
<1> QED BY <1>2, <1>3, <1>4, <1>5, <1>7 DEF IInv

(* Set-up and unload.                                                      *)
LEMMA EntryStep ==
  ASSUME IInv,
         \/ SetupBegins \/ SetupGoesOn \/ ForwardEnds \/ AbortEnds
         \/ UnloadBegins \/ UnloadStops \/ UnloadEnds \/ ResumeFires \/ StopBegins
  PROVE  IInv'
<1> USE DEF IInv
<1>t. TypeOK /\ StageInv /\ TaskInv /\ OwnInv /\ LatchInv /\ ClosedForGood /\ LinkTypes
  BY LinksTyped
<1>n. made \subseteq Runtimes
  BY <1>t DEF TypeOK
<1>1. CASE SetupBegins
  BY <1>1, <1>t DEF SetupBegins, TypeOK, StageInv, TaskInv, OwnInv, LatchInv, ClosedForGood,
     links, tasks, latches, Runtimes
<1>2. CASE SetupGoesOn
  <2>1. CASE shutting
    BY <1>2, <2>1, <1>t DEF SetupGoesOn, TypeOK, StageInv, TaskInv, OwnInv, LatchInv,
       ClosedForGood, links, tasks, latches
  <2>2. CASE ~shutting
    <3> DEFINE r == runtimes + 1
    <3>1. /\ stage' = "forward" /\ runtimes' = r /\ cur' = r /\ r \in Runtimes
          /\ CreateDevice(r) \/ UNCHANGED <<made, links>>
          /\ UNCHANGED <<resume, resetting, awaited, tasks, latches>>
      BY <1>2, <2>2, <1>t DEF SetupGoesOn, StageInv
    <3>2. r \notin made /\ runtimes \in Nat
      BY <1>t DEF StageInv, TypeOK
    <3>3. client[r] = None /\ r \notin closing
      BY <1>t, <3>1, <3>2 DEF OwnInv
    <3> HIDE DEF r
    <3>4. (made' = made \/ made' = made \cup {r}) /\ LinkTypes' /\ OwnInv' /\ ClosedForGood'
      <4>1. CASE UNCHANGED <<made, links>>
        BY <4>1, <3>1, <1>t DEF LinkTypes, OwnInv, ClosedForGood, links, latches
      <4>2. CASE CreateDevice(r) /\ Hold
        <5>1. NewClient(r) /\ made' = made \cup {r} /\ closing' = closing
          BY <4>2, <3>1 DEF CreateDevice, latches
        <5> QED BY <5>1, <3>1, <3>3, <1>t, <1>n, NewClientOwned
      <4>3. CASE CreateDevice(r) /\ ~Hold
        BY <4>3, <3>1, <1>t DEF CreateDevice, LinkTypes, OwnInv, ClosedForGood, links, latches
      <4> QED BY <3>1, <4>1, <4>2, <4>3
    <3>5. TypeOK'
      <4>1. runtimes' \in Nat /\ cur' \in Runtimes /\ made' \subseteq Runtimes
        BY <3>1, <3>2, <3>4, <1>n, RuntimesAreNumbers
      <4> QED BY <3>1, <3>4, <4>1, <1>t DEF TypeOK, LinkTypes, tasks, latches
    <3>6. StageInv'
      <4>1. r \in 1 .. r /\ made \subseteq 1 .. r
        BY <3>2, <1>t DEF StageInv, r
      <4>2. made' \subseteq 1 .. r
        BY <3>4, <4>1
      <4>3. stage' = "forward" /\ runtimes' = r /\ cur' = r /\ cur' # None
        BY <3>1, RuntimesAreNumbers
      <4> QED BY <4>1, <4>2, <4>3 DEF StageInv
    <3>7. TaskInv'
      BY <3>1, <3>4, <1>t DEF TaskInv, tasks
    <3>8. LatchInv'
      BY <3>1, <2>2, <1>t DEF LatchInv, latches
    <3> QED BY <3>4, <3>5, <3>6, <3>7, <3>8
  <2> QED BY <2>1, <2>2
<1>3. CASE ForwardEnds
  <2>1. CASE ~shutting
    BY <1>3, <2>1, <1>t DEF ForwardEnds, TypeOK, StageInv, TaskInv, OwnInv, LatchInv,
       ClosedForGood, links, tasks
  <2>2. CASE shutting
    <3>1. /\ Release(cur) /\ stage' = "aborting"
          /\ UNCHANGED <<cur, runtimes, resume, made, tasks, jobs, stage1>>
      BY <1>3, <2>2 DEF ForwardEnds
    <3>2. cur \in Runtimes
      BY <1>3, <1>t DEF ForwardEnds, StageInv, TypeOK
    <3>3. /\ LinkTypes' /\ OwnInv' /\ ClosedForGood'
          /\ refusing' \subseteq Runtimes /\ resetting' \subseteq Runtimes
          /\ closing' \subseteq Runtimes
          /\ awaited' \in [Runtimes -> Clients \cup {None}]
          /\ shutting' = TRUE
          /\ closing \subseteq closing'
      BY <3>1, <3>2, ReleaseKeeps
    <3>4. TypeOK'
      BY <3>1, <3>3, <1>t DEF TypeOK, LinkTypes, tasks
    <3>5. StageInv' /\ TaskInv' /\ LatchInv'
      BY <1>3, <3>1, <3>3, <1>t DEF ForwardEnds, StageInv, TaskInv, LatchInv, tasks
    <3> QED BY <3>3, <3>4, <3>5
  <2> QED BY <2>1, <2>2
<1>4. CASE AbortEnds
  <2>1. EntryGone /\ UNCHANGED <<runtimes, resume, made, links, awaited, latches>>
    BY <1>4 DEF AbortEnds
  <2> QED BY <2>1, <1>t, GoneStep DEF TypeOK
<1>5. CASE UnloadBegins
  BY <1>5, <1>t DEF UnloadBegins, TypeOK, StageInv, TaskInv, OwnInv, LatchInv, ClosedForGood,
     links, tasks, latches
<1>6. CASE UnloadStops
  <2>1. cur \in Runtimes
    BY <1>6, <1>t DEF UnloadStops, StageInv, TypeOK
  <2>2. CASE client[cur] # None
    <3>1. /\ stage' = "stopping"
          /\ live' = live \ {client[cur]} /\ ending' = ending \cup {client[cur]}
          /\ awaited' = [awaited EXCEPT ![cur] = client[cur]]
          /\ UNCHANGED <<cur, resume, tasks, resetting, client, owner, runtimes, made, latches>>
      BY <1>6, <2>2 DEF UnloadStops
    <3>2. client[cur] \in Clients
      BY <2>1, <2>2, <1>t DEF LinkTypes
    <3>3. OwnInv' /\ ClosedForGood'
      BY <3>1, <1>t, FewerOwned DEF latches
    <3>4. TypeOK'
      BY <3>1, <3>2, <2>1, <1>t DEF TypeOK, tasks, latches
    <3>5. StageInv' /\ TaskInv' /\ LatchInv'
      BY <1>6, <3>1, <1>t DEF UnloadStops, StageInv, TaskInv, LatchInv, tasks, latches
    <3> QED BY <3>3, <3>4, <3>5
  <2>3. CASE client[cur] = None
    <3>1. EntryGone /\ ArmResume /\ UNCHANGED <<links, awaited, runtimes, made, latches>>
      BY <1>6, <2>3 DEF UnloadStops
    <3>2. resume' \in {"no", "asked", "armed"}
      BY <3>1, <1>t DEF ArmResume, TypeOK
    <3> QED BY <3>1, <3>2, <1>t, GoneStep DEF TypeOK
  <2> QED BY <2>2, <2>3
<1>7. CASE UnloadEnds
  <2>1. /\ EntryGone /\ ArmResume /\ awaited' = [awaited EXCEPT ![cur] = None]
        /\ UNCHANGED <<runtimes, made, links, latches>>
    BY <1>7 DEF UnloadEnds
  <2>2. resume' \in {"no", "asked", "armed"} /\ awaited' \in [Runtimes -> Clients \cup {None}]
    BY <2>1, <1>t DEF ArmResume, TypeOK
  <2> QED BY <2>1, <2>2, GoneStep
<1>8. CASE ResumeFires
  BY <1>8, <1>t DEF ResumeFires, TypeOK, StageInv, TaskInv, OwnInv, LatchInv, ClosedForGood,
     links, tasks, latches
<1>9. CASE StopBegins
  <2>1. TypeOK'
    BY <1>9, <1>t DEF StopBegins, TypeOK, links, tasks
  <2>2. StageInv' /\ TaskInv' /\ OwnInv' /\ ClosedForGood'
    BY <1>9, <1>t DEF StopBegins, StageInv, TaskInv, OwnInv, ClosedForGood, links, tasks
  <2>3. LatchInv'
    BY <1>9, <1>n, RuntimesAreNumbers DEF StopBegins, LatchInv
  <2> QED BY <2>1, <2>2, <2>3
<1> QED BY <1>1, <1>2, <1>3, <1>4, <1>5, <1>6, <1>7, <1>8, <1>9

-----------------------------------------------------------------------------
(* The jobs of Stage 1, the Bluetooth callback, and the end of a stop().   *)
LEMMA OtherStep ==
  ASSUME IInv,
         \/ \E r \in Runtimes : ReleaseJob(r) \/ ReleaseEnds(r)
         \/ Advertisement
         \/ \E c \in Clients : StopEnds(c)
  PROVE  IInv'
<1> USE DEF IInv
<1>t. TypeOK /\ StageInv /\ TaskInv /\ OwnInv /\ LatchInv /\ ClosedForGood /\ LinkTypes
  BY LinksTyped
<1>n. made \subseteq Runtimes
  BY <1>t DEF TypeOK
<1>1. ASSUME NEW r \in Runtimes, ReleaseJob(r) PROVE IInv'
  <2>1. /\ Release(r) /\ r \in jobs /\ jobs' = jobs \ {r}
        /\ UNCHANGED <<entry, made, tasks, stage1>>
    BY <1>1 DEF ReleaseJob
  <2>2. /\ LinkTypes' /\ OwnInv' /\ ClosedForGood'
        /\ refusing' \subseteq Runtimes /\ resetting' \subseteq Runtimes
        /\ closing' \subseteq Runtimes
        /\ awaited' \in [Runtimes -> Clients \cup {None}]
        /\ shutting' = TRUE
        /\ closing \subseteq closing'
        /\ r \in made => r \in closing'
    BY <2>1, ReleaseKeeps
  <2>3. TypeOK'
    BY <2>1, <2>2, <1>t DEF TypeOK, LinkTypes, entry, tasks
  <2>4. StageInv' /\ TaskInv' /\ LatchInv'
    BY <2>1, <2>2, <1>t DEF StageInv, TaskInv, LatchInv, entry, tasks
  <2> QED BY <2>2, <2>3, <2>4
<1>2. ASSUME NEW r \in Runtimes, ReleaseEnds(r) PROVE IInv'
  BY <1>2, <1>t DEF ReleaseEnds, TypeOK, StageInv, TaskInv, OwnInv, LatchInv, ClosedForGood,
     entry, links, tasks, latches
<1>3. CASE Advertisement
  <2>1. /\ ~shutting /\ cur \in Runtimes
        /\ UNCHANGED <<entry, resetting, awaited, tasks, latches>>
        /\ \/ cur \in made /\ Rearm(cur) /\ UNCHANGED made
           \/ cur \notin made /\ CreateDevice(cur)
    BY <1>3, <1>t DEF Advertisement, Listening, StageInv, TypeOK
  <2>2. /\ made' = made \/ made' = made \cup {cur}
        /\ LinkTypes' /\ OwnInv' /\ ClosedForGood'
    <3>1. CASE NewClient(cur) /\ client[cur] = None /\ cur \notin closing /\ made' = made \cup {cur}
      BY <3>1, <2>1, <1>t, <1>n, NewClientOwned DEF latches
    <3>2. CASE UNCHANGED links /\ (made' = made \/ made' = made \cup {cur})
      BY <3>2, <2>1, <1>t DEF LinkTypes, OwnInv, ClosedForGood, links, latches
    <3>3. CASE cur \in made
      BY <3>1, <3>2, <3>3, <2>1 DEF Rearm
    <3>4. CASE cur \notin made
      BY <3>1, <3>2, <3>4, <2>1, <1>t DEF CreateDevice, OwnInv
    <3> QED BY <3>3, <3>4
  <2>3. TypeOK'
    BY <2>1, <2>2, <1>t DEF TypeOK, LinkTypes, entry, tasks, latches
  <2>4. cur \in 1 .. runtimes
    BY <2>1, <1>t, RuntimesAreNumbers DEF StageInv
  <2>5. StageInv' /\ TaskInv' /\ LatchInv'
    BY <2>1, <2>2, <2>4, <1>t DEF StageInv, TaskInv, LatchInv, entry, tasks, latches
  <2> QED BY <2>2, <2>3, <2>5
<1>4. ASSUME NEW c \in Clients, StopEnds(c) PROVE IInv'
  BY <1>4, <1>t DEF StopEnds, TypeOK, StageInv, TaskInv, OwnInv, LatchInv, ClosedForGood,
     entry, tasks, latches
<1> QED BY <1>1, <1>2, <1>3, <1>4

(* Commands and resets.                                                    *)
LEMMA TaskStep ==
  ASSUME IInv, NEW t \in Tasks,
         \/ Command(t) \/ Begins(t) \/ EnsureClient(t) \/ CommandEnds(t)
         \/ Reset(t) \/ ResetEnds(t) \/ Cancelled(t)
  PROVE  IInv'
<1> USE DEF IInv
<1>t. TypeOK /\ StageInv /\ TaskInv /\ OwnInv /\ LatchInv /\ ClosedForGood /\ LinkTypes
  BY LinksTyped
<1>n. made \subseteq Runtimes
  BY <1>t DEF TypeOK
<1>1. CASE Command(t)
  BY <1>1, <1>t DEF Command, TypeOK, StageInv, TaskInv, OwnInv, LatchInv, ClosedForGood,
     entry, links, latches
<1>2. CASE Begins(t)
  BY <1>2, <1>t DEF Begins, TypeOK, StageInv, TaskInv, OwnInv, LatchInv, ClosedForGood,
     entry, links, latches
<1>3. CASE EnsureClient(t)
  <2>1. /\ NewClient(on[t]) /\ client[on[t]] = None /\ on[t] \notin closing
        /\ UNCHANGED <<entry, made, resetting, awaited, tasks, latches>>
    BY <1>3 DEF EnsureClient
  <2>2. on[t] \in made
    BY <1>3, <1>t DEF EnsureClient, TaskInv
  <2>3. made' = made \cup {on[t]} /\ closing' = closing
    BY <2>1, <2>2 DEF latches
  <2>4. on[t] \in Runtimes
    BY <2>2, <1>n
  <2>5. LinkTypes' /\ OwnInv' /\ ClosedForGood'
    BY <2>1, <2>3, <2>4, <1>t, <1>n, NewClientOwned
  <2>6. TypeOK'
    BY <2>1, <2>5, <1>t DEF TypeOK, LinkTypes, entry, tasks, latches
  <2>7. StageInv' /\ TaskInv' /\ LatchInv'
    BY <2>1, <1>t DEF StageInv, TaskInv, LatchInv, entry, tasks, latches
  <2> QED BY <2>5, <2>6, <2>7
<1>4. CASE Reset(t)
  <2> DEFINE r == on[t]
  <2>1. r \in made /\ r \in Runtimes
    BY <1>4, <1>t, <1>n DEF Reset, TaskInv
  <2>2. Detach(r) /\ UNCHANGED <<entry, made, awaited, latches>>
    BY <1>4 DEF Reset
  <2>3. LinkTypes' /\ OwnInv' /\ ClosedForGood'
    <3>1. made' = made /\ closing' = closing /\ closing' \subseteq made
      BY <2>2, <1>t DEF latches, OwnInv
    <3> HIDE DEF r
    <3> QED BY <2>1, <2>2, <3>1, <1>t, DetachOwned
  <2>4. /\ at' \in [Tasks -> {"idle", "queued", "inside", "reset"}]
        /\ on' \in [Tasks -> Runtimes \cup {None}]
        /\ stopping' \in [Tasks -> Clients \cup {None}]
        /\ resetting' \subseteq Runtimes /\ TaskInv'
    <3>1. CASE client[r] = None
      <4>1. Ends(t) /\ resetting' = resetting \ {r} /\ made' = made
        BY <1>4, <3>1 DEF Reset
      <4> QED BY <4>1, <1>t, EndsKeeps DEF TypeOK
    <3>2. CASE client[r] # None
      BY <1>4, <3>2, <2>1, <1>t DEF Reset, TypeOK, TaskInv
    <3> QED BY <3>1, <3>2
  <2>5. TypeOK'
    BY <2>2, <2>3, <2>4, <1>t DEF TypeOK, LinkTypes, entry, latches
  <2>6. StageInv' /\ LatchInv'
    BY <2>2, <1>t DEF StageInv, LatchInv, entry, latches
  <2> QED BY <2>3, <2>4, <2>5, <2>6
<1>5. CASE Ends(t) /\ UNCHANGED <<entry, made, links, awaited, latches>> /\ resetting' \subseteq Runtimes
  <2>1. /\ at' \in [Tasks -> {"idle", "queued", "inside", "reset"}]
        /\ on' \in [Tasks -> Runtimes \cup {None}]
        /\ stopping' \in [Tasks -> Clients \cup {None}] /\ TaskInv'
    BY <1>5, <1>t, EndsKeeps
  <2> QED BY <1>5, <2>1, <1>t DEF TypeOK, StageInv, OwnInv, LatchInv, ClosedForGood,
             entry, links, latches
<1>6. CASE CommandEnds(t)
  BY <1>5, <1>6, <1>t DEF CommandEnds, TypeOK
<1>7. CASE ResetEnds(t)
  BY <1>5, <1>7, <1>t DEF ResetEnds, TypeOK
<1>8. CASE Cancelled(t)
  BY <1>5, <1>8, <1>t DEF Cancelled, TypeOK
<1> QED BY <1>1, <1>2, <1>3, <1>4, <1>6, <1>7, <1>8

(* Every step keeps the invariant.                                         *)
LEMMA Inductive == ASSUME IInv, [Next]_vars PROVE IInv'
<1>1. CASE UNCHANGED vars
  BY <1>1 DEF vars, entry, links, tasks, latches, IInv, TypeOK, StageInv, TaskInv, OwnInv,
     LatchInv, ClosedForGood
<1>2. CASE Next
  BY <1>2, EntryStep, OtherStep, TaskStep DEF Next
<1> QED BY <1>1, <1>2

(* In every reachable state the inductive invariant holds.                 *)
THEOREM LifecycleInvariance == Spec => []IInv
BY InitHolds, Inductive, PTL DEF Spec

(* The state keeps its types.                                              *)
THEOREM TypeCorrect == Spec => []TypeOK
<1>1. IInv => TypeOK
  BY DEF IInv
<1> QED BY <1>1, LifecycleInvariance, PTL

(* Whatever resets, releases, advertisements and commands do, a Client     *)
(* that may connect is the Client of the Device it was made for: none is   *)
(* left behind that nobody can stop (Device.async_reset_connection,        *)
(* update_ble, _async_ensure_client).                                      *)
THEOREM NoOrphanClient == Spec => []ClientsOwned
<1>1. IInv => ClientsOwned
  BY DEF IInv, OwnInv, ClientsOwned
<1> QED BY <1>1, LifecycleInvariance, PTL

(* A Device latched for shutdown never again has a Client that may connect *)
(* (Device.async_release_for_shutdown).                                    *)
THEOREM LatchIsFinal == Spec => []ClosedForGood
<1>1. IInv => ClosedForGood
  BY DEF IInv
<1> QED BY <1>1, LifecycleInvariance, PTL

(* Once the jobs of Stage 1 have begun, the entry's runtime has no Client  *)
(* that may connect, even if its setup or a resume spans the enumeration   *)
(* of the jobs (_async_latch_at_shutdown, _async_abort_setup_for_shutdown).*)
THEOREM ShutdownIsQuiet == Spec => []ShutdownQuiet
<1>1. IInv => ShutdownQuiet
  <2> SUFFICES ASSUME IInv, stage1, jobs = {}, NEW c \in live, owner[c] = cur PROVE FALSE
    BY DEF ShutdownQuiet
  <2>1. cur \in made \ jobs
    BY DEF IInv, OwnInv
  <2>2. cur \in closing
    BY <2>1 DEF IInv, LatchInv
  <2> QED BY <2>2 DEF IInv, ClosedForGood
<1> QED BY <1>1, LifecycleInvariance, PTL
=============================================================================
