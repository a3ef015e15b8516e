------------------------- MODULE LinkSessionProofs -------------------------
(***************************************************************************)
(* For any options, numbers of retries and copies, and operations: no link *)
(* is stranded, a stopped Client stays without one, a held link keeps its  *)
(* supervisor, and no tasks wait for each other's locks in a circle.       *)
(***************************************************************************)
EXTENDS LinkSession, SequenceTheorems, TLAPS

USE DEF Tasks

-----------------------------------------------------------------------------
(* The procedures, each as the places of its frames.                       *)
Connecting == {"ensure.stale", "ensure.connect", "ensure.notify", "ensure.abort", "ensure.cancel"}
EnsurePlaces == {"ensure.lock"} \cup Connecting
WritePlaces == {"write", "write.last", "write.drop"}
ReadPlaces == {"read.ensure", "read.gap", "read.write", "read.notify"}
SendPlaces == {"send.lock", "send.ensure", "send.gap", "send.write", "send.settle",
               "send.verify", "send.drop"}
CallbackPlaces == {"clock.lock", "clock.send", "zone.lock", "zone.send"}
InitPlaces == {"init.lock", "init.wake", "init.ready", "init.gap", "init.write", "init.read",
               "init.zone"}
PreparePlaces == {"prepare.ensure", "prepare.init"}
Roots == [
  connect |-> {"connect.ensure", "connect.init"},
  supervisor |-> {"loop.lock", "loop.idle", "loop.top", "loop.ensure", "loop.init", "loop.beat",
                  "loop.drop"},
  command |-> {"command.prepare", "command.send", "command.read", "sync.prepare", "sync.lock",
               "sync.send", "sync.read", "sync.zone"},
  stop |-> {"stop.supervisor", "stop.connect", "stop.notify", "stop.drop"}]
RootPlaces == UNION {Roots[t] : t \in Tasks}

(* The level of a procedure: it calls only procedures of lower ones.       *)
Level(p) ==
  IF p \in EnsurePlaces \cup WritePlaces THEN 1
  ELSE IF p \in ReadPlaces THEN 2
  ELSE IF p \in SendPlaces THEN 3
  ELSE IF p \in CallbackPlaces THEN 4
  ELSE IF p \in InitPlaces THEN 5
  ELSE IF p \in PreparePlaces THEN 6
  ELSE 7

(* The level of the procedure a frame has called; 0 where none is running. *)
Reach(p) ==
  IF p \in {"connect.ensure", "loop.ensure", "read.ensure", "read.write", "init.write",
            "send.ensure", "send.write", "prepare.ensure"} THEN 1
  ELSE IF p \in {"init.read", "send.verify", "command.read", "sync.read"} THEN 2
  ELSE IF p \in {"clock.send", "zone.send", "command.send", "sync.send", "sync.zone"} THEN 3
  ELSE IF p \in {"init.ready", "init.zone"} THEN 4
  ELSE IF p \in {"connect.init", "loop.init", "prepare.init"} THEN 5
  ELSE IF p \in {"command.prepare", "sync.prepare"} THEN 6
  ELSE 0

(* Frames as they occur: an attempt is counted, a subscription has a link. *)
Counting == {"send.gap", "send.write", "send.settle", "send.verify"}
Good == {f \in Frames : /\ f.at \in Counting => f.n # 0
                        /\ f.at = "ensure.notify" => f.link # None}

(* A frame is no deeper in the calls than the ones below it let it be.     *)
Nested(s) == \A i, j \in DOMAIN s : i < j => Level(s[i].at) <= Reach(s[j].at)
Rooted(t, s) == s # <<>> => s[Len(s)].at \in Roots[t]
Fits(t, s) == s \in Seq(Good) /\ Nested(s) /\ Rooted(t, s)
Shape == stack \in [Tasks -> Seq(Good)] /\ \A t \in Tasks : Fits(t, stack[t])

(* The types of the other variables.                                       *)
Results == {"ok", "no", "error", "crash"}
Turns == turn \in Tasks \cup {None} /\ (turn # None => stack[turn] # <<>>) /\ res \in Results
Options == hold \in Holds /\ profile \in Profiles
Flags == broken \in BOOLEAN /\ sess \in BOOLEAN /\ warm \in BOOLEAN /\ stopping \in BOOLEAN
LinkTypes ==
  /\ client \in {None, "live"} /\ radio \in {"down", "up", "closing"}
  /\ client = "live" => radio # "down"

(* A frame that works on the live link works on a link that is there.      *)
HasLive(s) == \E i \in DOMAIN s : s[i].link = "live"
LiveInv == \A t \in Tasks : HasLive(stack[t]) => radio # "down"

(* One task at most is connecting; a link it subscribes is the Client's, or*)
(* is gone and there is none.                                              *)
InConnect(t) == stack[t] # <<>> /\ Top(t).at \in Connecting
Alone == \A t, u \in Tasks : InConnect(t) /\ InConnect(u) => t = u
NotifyInv ==
  \A t \in Tasks :
    stack[t] # <<>> /\ Top(t).at = "ensure.notify" /\ Top(t).link = "gone"
      => client = None /\ radio = "down"

LinkInv == LinkTypes /\ LiveInv /\ Alone /\ NotifyInv /\ NoStrandedLink

(* stop() runs only once the latch is closed, and leaves no link behind.   *)
StopInv ==
  /\ stack["stop"] # <<>> => stopping
  /\ stopping /\ (stack["stop"] = <<>> \/ Top("stop").at = "stop.drop") => client = None

(* A held Client's supervisor has no reason to end; only stop() cancels it *)
(* or the first connect.                                                   *)
HoldInv ==
  /\ HoldSupervised
  /\ hold /\ ~stopping /\ stack["supervisor"] # <<>> => warm
  /\ \A t \in Tasks \ {"command"} : InConnect(t) /\ Top(t).at = "ensure.cancel" => stopping

IInv == Shape /\ Turns /\ Options /\ Flags /\ LinkInv /\ StopInv /\ HoldInv

-----------------------------------------------------------------------------
(* The levels of the procedures.                                           *)
Links == {None, "live", "gone"}

(* No procedure calls one of its own level or of a higher one.             *)
LEMMA Levels == \A p : Level(p) \in 1 .. 7 /\ Reach(p) \in 0 .. 6 /\ Reach(p) < Level(p)
BY DEF Level, Reach, EnsurePlaces, Connecting, WritePlaces, ReadPlaces, SendPlaces,
       CallbackPlaces, InitPlaces, PreparePlaces

(* A task that connects runs no procedure of the Client's but that.        *)
LEMMA ConnectingCallsNone == \A p \in Connecting : Level(p) = 1 /\ Reach(p) = 0
BY DEF Level, Reach, EnsurePlaces, Connecting

LEMMA RootsHighest == \A t \in Tasks : \A p \in Roots[t] : Level(p) = 7 /\ p \notin Connecting
BY DEF Roots, Level, EnsurePlaces, Connecting, WritePlaces, ReadPlaces, SendPlaces,
       CallbackPlaces, InitPlaces, PreparePlaces

-----------------------------------------------------------------------------
(* Stacks.                                                                 *)
LEMMA Tops ==
  ASSUME NEW t \in Tasks, NEW s, Fits(t, s), s # <<>>
  PROVE  /\ Len(s) \in Nat \ {0} /\ DOMAIN s = 1 .. Len(s)
         /\ Head(s) = s[1] /\ s[1] \in Good
         /\ Tail(s) \in Seq(Good) /\ Len(Tail(s)) = Len(s) - 1
         /\ \A i \in 1 .. Len(s) - 1 : Tail(s)[i] = s[i + 1]
BY HeadTailProperties DEF Fits

(* The innermost frame gives way to frames c of which the last is of its   *)
(* level.                                                                  *)
LEMMA Onto ==
  ASSUME NEW t \in Tasks, NEW s, Fits(t, s), s # <<>>,
         NEW c \in Seq(Good), c # <<>>, Nested(c),
         Level(c[Len(c)].at) = Level(s[1].at),
         Level(s[1].at) = 7 => c[Len(c)].at \in Roots[t]
  PROVE  /\ Fits(t, c \o Tail(s))
         /\ c \o Tail(s) # <<>> /\ Head(c \o Tail(s)) = c[1]
         /\ HasLive(c \o Tail(s)) => HasLive(c) \/ HasLive(s)
<1> DEFINE r == c \o Tail(s)
<1>1. /\ Len(s) \in Nat \ {0} /\ DOMAIN s = 1 .. Len(s)
      /\ Tail(s) \in Seq(Good) /\ Len(Tail(s)) = Len(s) - 1
      /\ \A i \in 1 .. Len(s) - 1 : Tail(s)[i] = s[i + 1]
  BY Tops
<1>2. Len(c) \in Nat \ {0} /\ DOMAIN c = 1 .. Len(c)
  BY EmptySeq
<1>3. /\ r \in Seq(Good) /\ Len(r) = Len(c) + Len(s) - 1 /\ DOMAIN r = 1 .. Len(r)
      /\ \A i \in 1 .. Len(c) : r[i] = c[i]
      /\ \A i \in Len(c) + 1 .. Len(r) : i - Len(c) \in 1 .. Len(s) - 1 /\ r[i] = s[i - Len(c) + 1]
  <2>1. /\ r \in Seq(Good) /\ Len(r) = Len(c) + Len(Tail(s))
        /\ \A i \in 1 .. Len(c) + Len(Tail(s)) :
             r[i] = IF i <= Len(c) THEN c[i] ELSE Tail(s)[i - Len(c)]
    BY <1>1, ConcatProperties
  <2> QED BY <2>1, <1>1, <1>2
<1> HIDE DEF r
<1>4. Nested(r)
  <2> SUFFICES ASSUME NEW i \in 1 .. Len(r), NEW j \in 1 .. Len(r), i < j
               PROVE  Level(r[i].at) <= Reach(r[j].at)
    BY <1>3 DEF Nested
  <2>1. CASE j <= Len(c)
    <3>1. i \in DOMAIN c /\ j \in DOMAIN c /\ r[i] = c[i] /\ r[j] = c[j]
      BY <2>1, <1>2, <1>3
    <3> QED BY <3>1 DEF Nested
  <2>2. CASE j > Len(c) /\ i > Len(c)
    <3> DEFINE k == i - Len(c) + 1
               l == j - Len(c) + 1
    <3>0. i \in Len(c) + 1 .. Len(r) /\ j \in Len(c) + 1 .. Len(r)
      BY <2>2, <1>2
    <3>1. k \in DOMAIN s /\ r[i] = s[k]
      <4>1. i - Len(c) \in 1 .. Len(s) - 1 /\ r[i] = s[i - Len(c) + 1]
        BY <3>0, <1>3
      <4> QED BY <4>1, <1>1, <1>2
    <3>2. l \in DOMAIN s /\ r[j] = s[l]
      <4>1. j - Len(c) \in 1 .. Len(s) - 1 /\ r[j] = s[j - Len(c) + 1]
        BY <3>0, <1>3
      <4> QED BY <4>1, <1>1, <1>2
    <3>3. k < l
      BY <1>2
    <3> HIDE DEF k, l
    <3> QED BY <3>1, <3>2, <3>3 DEF Nested, Fits
  <2>3. CASE j > Len(c) /\ i <= Len(c)
    <3> DEFINE l == j - Len(c) + 1
    <3>0. 1 \in DOMAIN s /\ l \in DOMAIN s /\ 1 < l /\ r[j] = s[l]
      BY <2>3, <1>1, <1>2, <1>3
    <3> HIDE DEF l
    <3>1. Level(s[1].at) <= Reach(r[j].at)
      BY <3>0 DEF Nested, Fits
    <3>2. Level(c[i].at) <= Level(c[Len(c)].at)
      BY <2>3, <1>2, Levels DEF Nested
    <3>3. r[i] = c[i]
      BY <2>3, <1>2, <1>3
    <3>4. Level(r[i].at) <= Level(s[1].at)
      BY <3>2, <3>3
    <3> QED BY <3>1, <3>4, Levels
  <2> QED BY <2>1, <2>2, <2>3, <1>2
<1>5. Rooted(t, r)
  <2>1. CASE Len(s) = 1
    BY <2>1, <1>1, <1>2, <1>3, RootsHighest DEF Fits, Rooted
  <2>2. CASE Len(s) > 1
    BY <2>2, <1>1, <1>2, <1>3 DEF Fits, Rooted
  <2> QED BY <2>1, <2>2, <1>1
<1>6. HasLive(r) => HasLive(c) \/ HasLive(s)
  <2> SUFFICES ASSUME NEW i \in 1 .. Len(r), r[i].link = "live"
               PROVE  HasLive(c) \/ HasLive(s)
    BY <1>3 DEF HasLive
  <2>1. CASE i <= Len(c)
    <3>1. i \in DOMAIN c /\ r[i] = c[i]
      BY <2>1, <1>2, <1>3
    <3> QED BY <3>1 DEF HasLive
  <2>2. CASE i > Len(c)
    <3> DEFINE k == i - Len(c) + 1
    <3>1. k \in DOMAIN s /\ r[i] = s[k]
      BY <2>2, <1>1, <1>2, <1>3
    <3> HIDE DEF k
    <3> QED BY <3>1 DEF HasLive
  <2> QED BY <2>1, <2>2, <1>2
<1>7. r # <<>> /\ Head(r) = c[1]
  BY <1>1, <1>2, <1>3
<1> QED BY <1>3, <1>4, <1>5, <1>6, <1>7 DEF r, Fits

(* A procedure returns to the one below it, which is not connecting.       *)
LEMMA Under ==
  ASSUME NEW t \in Tasks, NEW s, Fits(t, s), s # <<>>, Level(s[1].at) # 7
  PROVE  /\ Fits(t, Tail(s)) /\ Tail(s) # <<>>
         /\ Head(Tail(s)) = s[2] /\ s[2] \in Good
         /\ s[2].at \notin Connecting
         /\ HasLive(Tail(s)) => HasLive(s)
<1>1. /\ Len(s) \in Nat \ {0} /\ DOMAIN s = 1 .. Len(s)
      /\ Tail(s) \in Seq(Good) /\ Len(Tail(s)) = Len(s) - 1
      /\ \A i \in 1 .. Len(s) - 1 : Tail(s)[i] = s[i + 1]
  BY Tops
<1>2. Len(s) > 1
  BY <1>1, RootsHighest DEF Fits, Rooted
<1>3. DOMAIN Tail(s) = 1 .. Len(s) - 1 /\ Tail(s) # <<>> /\ Head(Tail(s)) = s[2]
  <2>1. DOMAIN Tail(s) = 1 .. Len(s) - 1 /\ Tail(s) # <<>>
    BY <1>1, <1>2, EmptySeq
  <2>2. Tail(s)[1] = s[2]
    BY <1>1, <1>2
  <2> QED BY <2>1, <2>2, <1>1
<1>4. Fits(t, Tail(s))
  <2>1. Nested(Tail(s))
    BY <1>1, <1>2, <1>3 DEF Fits, Nested
  <2>2. Rooted(t, Tail(s))
    BY <1>1, <1>2, <1>3 DEF Fits, Rooted
  <2> QED BY <2>1, <2>2, <1>1 DEF Fits
<1>5. s[2] \in Good
  BY <1>1, <1>2 DEF Fits
<1>6. Level(s[1].at) <= Reach(s[2].at)
  BY <1>1, <1>2 DEF Fits, Nested
<1>7. s[2].at \notin Connecting
  BY <1>6, Levels, ConnectingCallsNone
<1>8. HasLive(Tail(s)) => HasLive(s)
  BY <1>1, <1>2, <1>3 DEF HasLive
<1> QED BY <1>3, <1>4, <1>5, <1>7, <1>8

(* Above a root there is nothing but what it has called.                   *)
LEMMA RootAlone ==
  ASSUME NEW t \in Tasks, NEW s, Fits(t, s), s # <<>>, Level(s[1].at) = 7
  PROVE  Tail(s) = <<>> /\ s[1].at \in Roots[t]
<1>1. Len(s) \in Nat \ {0} /\ DOMAIN s = 1 .. Len(s) /\ Tail(s) \in Seq(Good) /\ Len(Tail(s)) = Len(s) - 1
  BY Tops
<1>2. Len(s) = 1
  <2>1. Len(s) > 1 => Level(s[1].at) <= Reach(s[2].at)
    BY <1>1 DEF Fits, Nested
  <2> QED BY <1>1, <2>1, Levels
<1> QED BY <1>1, <1>2, EmptySeq DEF Fits, Rooted

-----------------------------------------------------------------------------
(* Places and frames.                                                      *)
LEMMA LevelOf ==
  /\ \A p \in EnsurePlaces : Level(p) = 1 /\ p \notin Counting
  /\ \A p \in WritePlaces : Level(p) = 1 /\ p \notin Counting \cup Connecting
  /\ \A p \in ReadPlaces : Level(p) = 2 /\ p \notin Counting \cup Connecting
  /\ \A p \in SendPlaces : Level(p) = 3 /\ p \notin Connecting
  /\ \A p \in CallbackPlaces : Level(p) = 4 /\ p \notin Counting \cup Connecting
  /\ \A p \in InitPlaces : Level(p) = 5 /\ p \notin Counting \cup Connecting
  /\ \A p \in PreparePlaces : Level(p) = 6 /\ p \notin Counting \cup Connecting
  /\ \A t \in Tasks : \A p \in Roots[t] : Level(p) = 7 /\ p \notin Counting \cup Connecting
BY DEF Level, EnsurePlaces, Connecting, WritePlaces, ReadPlaces, SendPlaces,
       CallbackPlaces, InitPlaces, PreparePlaces, Counting, Roots

LEMMA PlacesKnown ==
  /\ \A p : Level(p) # 7 => p \in Places
  /\ \A t \in Tasks : Roots[t] \subseteq Places
<1>1. \A k \in Locks : Scope[k] \subseteq Places /\ Waits[k] \subseteq Places
  BY DEF Places
<1>2. /\ Scope.connection \cup Waits.connection \subseteq Places
      /\ Scope.init \cup Waits.init \subseteq Places
      /\ Scope.clock \cup Waits.clock \subseteq Places
      /\ Scope.command \cup Waits.command \subseteq Places
  <2>1. Locks = {"connection", "init", "clock", "command"}
    BY DEF Locks, Scope
  <2>2. /\ Scope["connection"] \cup Waits["connection"] \subseteq Places
        /\ Scope["init"] \cup Waits["init"] \subseteq Places
        /\ Scope["clock"] \cup Waits["clock"] \subseteq Places
        /\ Scope["command"] \cup Waits["command"] \subseteq Places
    BY <1>1, <2>1, Zenon
  <2> QED BY <2>2
<1>3. EnsurePlaces \cup InitPlaces \cup SendPlaces \cup CallbackPlaces
        \cup {"sync.lock", "sync.send", "sync.read", "sync.zone", "loop.lock", "loop.idle",
              "loop.ensure", "loop.drop"} \subseteq Places
  BY <1>2 DEF Scope, Waits, EnsurePlaces, Connecting, InitPlaces, SendPlaces, CallbackPlaces
<1>4. WritePlaces \cup ReadPlaces \cup PreparePlaces \subseteq Places
  BY DEF Places, WritePlaces, ReadPlaces, PreparePlaces
<1>5. ASSUME NEW t \in Tasks PROVE Roots[t] \subseteq Places
  <2>1. {"connect.ensure", "connect.init", "loop.top", "loop.init", "loop.beat",
         "command.prepare", "command.send", "command.read", "sync.prepare",
         "stop.supervisor", "stop.connect", "stop.notify", "stop.drop"} \subseteq Places
    BY DEF Places
  <2> QED BY <2>1, <1>3 DEF Roots
<1>6. ASSUME NEW p, Level(p) # 7 PROVE p \in Places
  BY <1>6, <1>3, <1>4 DEF Level
<1> QED BY <1>5, <1>6

LEMMA Bounds == WriteRetries * Copies \in Nat \ {0}
BY OptionsKnown

LEMMA FrameGood ==
  ASSUME NEW p \in Places, p \notin Counting, NEW l \in Links, p = "ensure.notify" => l # None
  PROVE  Frame(p, l) \in Good /\ Frame(p, l).at = p /\ Frame(p, l).link = l
BY Bounds DEF Frame, Good, Frames, Links

LEMMA AttemptGood ==
  ASSUME NEW p \in Counting, NEW n \in 1 .. WriteRetries * Copies
  PROVE  Attempt(p, n) \in Good /\ Attempt(p, n).at = p /\ Attempt(p, n).link = None
<1>1. p \in Places /\ p # "ensure.notify"
  BY PlacesKnown, LevelOf DEF Counting, SendPlaces
<1> QED BY <1>1, Bounds DEF Attempt, Good, Frames, Counting

LEMMA Singles ==
  ASSUME NEW f \in Good
  PROVE  /\ <<f>> \in Seq(Good) /\ <<f>> # <<>> /\ Len(<<f>>) = 1 /\ <<f>>[1] = f
         /\ Nested(<<f>>) /\ (HasLive(<<f>>) => f.link = "live")
BY DEF Nested, HasLive

LEMMA Pairs ==
  ASSUME NEW f \in Good, NEW g \in Good, Level(f.at) <= Reach(g.at)
  PROVE  /\ <<f, g>> \in Seq(Good) /\ <<f, g>> # <<>> /\ Len(<<f, g>>) = 2
         /\ <<f, g>>[1] = f /\ <<f, g>>[2] = g /\ <<f, g>> = <<f>> \o <<g>>
         /\ Nested(<<f, g>>)
         /\ HasLive(<<f, g>>) => f.link = "live" \/ g.link = "live"
<1>1. DOMAIN <<f, g>> = {1, 2} /\ <<f, g>>[1] = f /\ <<f, g>>[2] = g
  OBVIOUS
<1>2. Nested(<<f, g>>) /\ (HasLive(<<f, g>>) => f.link = "live" \/ g.link = "live")
  BY <1>1 DEF Nested, HasLive
<1>3. <<f, g>> = <<f>> \o <<g>>
  <2>1. <<f>> \in Seq(Good) /\ <<g>> \in Seq(Good) /\ <<f, g>> \in Seq(Good)
    OBVIOUS
  <2>2. Len(<<f>>) = 1 /\ Len(<<g>>) = 1 /\ Len(<<f, g>>) = 2 /\ <<f>>[1] = f /\ <<g>>[1] = g
    OBVIOUS
  <2>3. /\ <<f>> \o <<g>> \in Seq(Good) /\ Len(<<f>> \o <<g>>) = 2
        /\ (<<f>> \o <<g>>)[1] = f /\ (<<f>> \o <<g>>)[2] = g
    BY <2>1, <2>2, ConcatProperties
  <2>4. \A i \in 1 .. 2 : <<f, g>>[i] = (<<f>> \o <<g>>)[i]
    BY <1>1, <2>3
  <2> DEFINE u == <<f>> \o <<g>>
             v == <<f, g>>
  <2>5. u \in Seq(Good) /\ v \in Seq(Good) /\ Len(u) = 2 /\ Len(v) = 2 /\ \A i \in 1 .. 2 : v[i] = u[i]
    BY <2>1, <2>2, <2>3, <2>4
  <2> HIDE DEF u, v
  <2>6. u = v
    BY <2>5, SeqEqual
  <2> QED BY <2>6 DEF u, v
<1> QED BY <1>1, <1>2, <1>3

LEMMA Triples ==
  ASSUME NEW f \in Good, NEW g \in Good, NEW h \in Good,
         Level(f.at) <= Reach(g.at), Level(g.at) <= Reach(h.at)
  PROVE  /\ <<f, g, h>> \in Seq(Good) /\ <<f, g, h>> # <<>> /\ Len(<<f, g, h>>) = 3
         /\ <<f, g, h>>[1] = f /\ <<f, g, h>>[3] = h /\ <<f, g, h>> = <<f, g>> \o <<h>>
         /\ Nested(<<f, g, h>>)
         /\ HasLive(<<f, g, h>>) => f.link = "live" \/ g.link = "live" \/ h.link = "live"
<1>1. DOMAIN <<f, g, h>> = {1, 2, 3} /\ <<f, g, h>>[1] = f /\ <<f, g, h>>[2] = g /\ <<f, g, h>>[3] = h
  OBVIOUS
<1>2. Level(f.at) <= Reach(h.at)
  BY Levels
<1>3. Nested(<<f, g, h>>) /\ (HasLive(<<f, g, h>>) => f.link = "live" \/ g.link = "live" \/ h.link = "live")
  BY <1>1, <1>2 DEF Nested, HasLive
<1>4. <<f, g, h>> = <<f, g>> \o <<h>>
  OBVIOUS
<1> QED BY <1>1, <1>3, <1>4

-----------------------------------------------------------------------------
(* What a step of task t does to the stacks: its own moves within its      *)
(* calls; the supervisor may be started, and is kept warm then.  A task    *)
(* other than the command ends only when nobody holds the link, or when it *)
(* is stopped, or leaves the supervisor behind.                            *)
Started(u) ==
  /\ u = "supervisor" /\ stack[u] = <<>> /\ warm'
  /\ stack'[u] = <<Frame("loop.top", None)>>
Apart(t) == \A u \in Tasks \ {t} : stack'[u] = stack[u] \/ Started(u)
Connects(t) ==
  InConnect(t)' =>
    /\ Top(t)'.at # "ensure.notify"
    /\ Top(t)'.at = "ensure.cancel" => t = "command" \/ stopping
    /\ InConnect(t) \/ \A u \in Tasks : ~InConnect(u)
Leaves(t) ==
  stack'[t] = <<>> =>
    \/ t = "command" \/ ~hold \/ stopping
    \/ t = "connect" /\ stack'["supervisor"] # <<>> /\ warm'
Goes(t) ==
  /\ stack[t] # <<>> \/ t = "command"
  /\ stack' \in [Tasks -> Seq(Good)] /\ Fits(t, stack'[t])
  /\ Apart(t) /\ Connects(t) /\ Leaves(t)
  /\ HasLive(stack'[t]) => HasLive(stack[t]) \/ client = "live"
  /\ Turns' /\ warm' \in BOOLEAN /\ (warm => warm')
  /\ UNCHANGED <<options, stopping>>

(* What it may do to the link: ask for its end, and forget it.             *)
Fades ==
  /\ client' \in {client, None} /\ radio' \in {radio, "closing"}
  /\ radio' # radio => radio # "down"
  /\ client' # client => radio' = "closing"
  /\ broken' \in BOOLEAN /\ sess' \in BOOLEAN

(* The frame f may take the place of the innermost one of t.               *)
Follows(t, f) ==
  /\ f \in Good /\ Level(f.at) = Level(Top(t).at)
  /\ Level(f.at) = 7 => f.at \in Roots[t]
  /\ f.link = "live" => client = "live" \/ Top(t).link = "live"

LEMMA Following ==
  ASSUME NEW t \in Tasks, NEW p, Level(p) = Level(Top(t).at), Level(p) = 7 => p \in Roots[t],
         p \notin Counting, NEW l \in Links, p = "ensure.notify" => l # None,
         l = "live" => client = "live" \/ Top(t).link = "live"
  PROVE  Follows(t, Frame(p, l)) /\ Frame(p, l).at = p
BY PlacesKnown, FrameGood DEF Follows

LEMMA Attempting ==
  ASSUME NEW t \in Tasks, NEW p \in Counting, Level(Top(t).at) = 3,
         NEW n \in 1 .. WriteRetries * Copies
  PROVE  Follows(t, Attempt(p, n)) /\ Attempt(p, n).at = p
<1>1. Level(p) = 3
  BY LevelOf DEF Counting, SendPlaces
<1> QED BY <1>1, AttemptGood, OptionsKnown DEF Follows

(* A frame called: its place is no root and not connecting.                *)
LEMMA Calling1 ==
  ASSUME NEW p, Level(p) # 7, p \notin Counting \cup Connecting, NEW l \in Links
  PROVE  Frame(p, l) \in Good /\ Frame(p, l).at = p /\ Frame(p, l).link = l
BY PlacesKnown, FrameGood DEF Connecting

LEMMA Stacked ==
  ASSUME IInv, NEW t \in Tasks
  PROVE  /\ Fits(t, stack[t]) /\ stack \in [Tasks -> Seq(Good)]
         /\ stack[t] # <<>> =>
              /\ Top(t) = stack[t][1] /\ Top(t) \in Good
              /\ Top(t).link = "live" => HasLive(stack[t])
<1>1. Fits(t, stack[t]) /\ stack \in [Tasks -> Seq(Good)]
  BY DEF IInv, Shape
<1>2. ASSUME stack[t] # <<>>
      PROVE  /\ Top(t) = stack[t][1] /\ Top(t) \in Good
             /\ Top(t).link = "live" => HasLive(stack[t])
  <2>1. /\ Top(t) = stack[t][1] /\ Top(t) \in Good
        /\ 1 \in DOMAIN stack[t]
    BY <1>1, <1>2, Tops DEF Top
  <2> QED BY <2>1 DEF HasLive
<1> QED BY <1>1, <1>2

(* The frames c take the place of the innermost one.                       *)
LEMMA GoesOnto ==
  ASSUME IInv, NEW t \in Tasks, stack[t] # <<>>,
         NEW c \in Seq(Good), c # <<>>, Nested(c), Follows(t, c[Len(c)]),
         HasLive(c) => HasLive(stack[t]) \/ client = "live",
         c[1].at \in Connecting =>
           /\ c[1].at # "ensure.notify"
           /\ c[1].at = "ensure.cancel" => t = "command" \/ stopping
           /\ InConnect(t) \/ Free("connection"),
         stack' = [stack EXCEPT ![t] = c \o Tail(@)],
         turn' \in {t, None}, res' \in Results, UNCHANGED <<options, life>>
  PROVE  Goes(t)
<1>1. /\ Fits(t, stack[t]) /\ stack \in [Tasks -> Seq(Good)]
      /\ Top(t) = stack[t][1]
  BY Stacked
<1> DEFINE r == c \o Tail(stack[t])
<1>2. /\ Fits(t, r) /\ r # <<>> /\ Head(r) = c[1]
      /\ HasLive(r) => HasLive(c) \/ HasLive(stack[t])
  BY <1>1, Onto DEF Follows
<1>3. stack' = [stack EXCEPT ![t] = r]
  OBVIOUS
<1> HIDE DEF r
<1>4. stack'[t] = r /\ \A u \in Tasks \ {t} : stack'[u] = stack[u]
  BY <1>1, <1>3
<1>5. stack' \in [Tasks -> Seq(Good)] /\ Fits(t, stack'[t])
  <2>1. r \in Seq(Good)
    BY <1>2 DEF Fits
  <2>2. stack' \in [Tasks -> Seq(Good)]
    BY <2>1, <1>1, <1>3
  <2> QED BY <2>2, <1>2, <1>4
<1>6. Connects(t)
  <2> SUFFICES ASSUME InConnect(t)' PROVE
                 /\ Top(t)'.at # "ensure.notify"
                 /\ Top(t)'.at = "ensure.cancel" => t = "command" \/ stopping
                 /\ InConnect(t) \/ \A u \in Tasks : ~InConnect(u)
    BY DEF Connects
  <2>1. Top(t)' = c[1]
    BY <1>2, <1>4 DEF Top
  <2>2. c[1].at \in Connecting
    BY <2>1 DEF InConnect
  <2>3. ASSUME Free("connection"), NEW u \in Tasks PROVE ~InConnect(u)
    <3> SUFFICES ASSUME InConnect(u) PROVE FALSE
      OBVIOUS
    <3>1. stack[u] # <<>> /\ Top(u).at \in Scope.connection
      BY DEF InConnect, Connecting, Scope
    <3>2. 1 \in DOMAIN stack[u] /\ Top(u) = stack[u][1]
      BY <3>1, Stacked, Tops
    <3>3. HasLock(u, "connection")
      BY <3>1, <3>2 DEF HasLock
    <3> QED BY <2>3, <3>3 DEF Free
  <2> QED BY <2>1, <2>2, <2>3
<1>7. Apart(t) /\ Leaves(t)
  BY <1>2, <1>4 DEF Apart, Leaves
<1>8. Turns' /\ warm' \in BOOLEAN /\ (warm => warm') /\ UNCHANGED <<options, stopping>>
  BY <1>2, <1>4 DEF Turns, life, IInv, Flags
<1> QED BY <1>2, <1>4, <1>5, <1>6, <1>7, <1>8 DEF Goes

(* t awaits something else, in the same procedure (To), or asks for a lock.*)
LEMMA GoesTo ==
  ASSUME IInv, NEW t \in Tasks, stack[t] # <<>>, NEW f, Follows(t, f),
         To(t, f) \/ Asks(t, f), UNCHANGED <<options, life>>,
         f.at \in Connecting =>
           /\ f.at # "ensure.notify"
           /\ f.at = "ensure.cancel" => t = "command" \/ stopping
           /\ InConnect(t) \/ Free("connection")
  PROVE  Goes(t)
<1>1. f \in Good
  BY DEF Follows
<1>2. /\ <<f>> \in Seq(Good) /\ <<f>> # <<>> /\ <<f>>[Len(<<f>>)] = f /\ <<f>>[1] = f
      /\ Nested(<<f>>) /\ (HasLive(<<f>>) => f.link = "live")
  BY <1>1, Singles
<1>3. HasLive(<<f>>) => HasLive(stack[t]) \/ client = "live"
  BY <1>2, Stacked DEF Follows
<1>4. /\ stack' = [stack EXCEPT ![t] = <<f>> \o Tail(@)]
      /\ turn' \in {t, None} /\ res' \in Results
  BY DEF To, Asks, Results
<1> DEFINE c == <<f>>
<1> HIDE DEF c
<1>5. /\ c \in Seq(Good) /\ c # <<>> /\ c[Len(c)] = f /\ c[1] = f /\ Nested(c)
      /\ HasLive(c) => HasLive(stack[t]) \/ client = "live"
      /\ stack' = [stack EXCEPT ![t] = c \o Tail(@)]
  BY <1>2, <1>3, <1>4 DEF c
<1> QED BY <1>4, <1>5, GoesOnto

(* t calls a procedure, whose first frame is a, and resumes at f.          *)
LEMMA GoesCalling ==
  ASSUME IInv, NEW t \in Tasks, stack[t] # <<>>, NEW f, Follows(t, f),
         NEW a \in Good, a.at \notin Connecting, Level(a.at) <= Reach(f.at),
         a.link = "live" => client = "live" \/ Top(t).link = "live",
         stack' = [stack EXCEPT ![t] = <<a, f>> \o Tail(@)],
         turn' \in {t, None}, res' \in Results, UNCHANGED <<options, life>>
  PROVE  Goes(t)
<1>1. f \in Good
  BY DEF Follows
<1> DEFINE c == <<a, f>>
<1>2. /\ c \in Seq(Good) /\ c # <<>> /\ c[Len(c)] = f /\ c[1] = a /\ Nested(c)
      /\ HasLive(c) => a.link = "live" \/ f.link = "live"
  BY <1>1, Pairs
<1>3. HasLive(c) => HasLive(stack[t]) \/ client = "live"
  BY <1>2, Stacked DEF Follows
<1>4. stack' = [stack EXCEPT ![t] = c \o Tail(@)]
  OBVIOUS
<1> HIDE DEF c
<1> QED BY <1>2, <1>3, <1>4, GoesOnto

LEMMA GoesCall ==
  ASSUME IInv, NEW t \in Tasks, stack[t] # <<>>, NEW f, Follows(t, f),
         NEW a \in Good, a.at \notin Connecting, Level(a.at) <= Reach(f.at),
         a.link = "live" => client = "live" \/ Top(t).link = "live",
         Calls(t, f, <<a>>), UNCHANGED <<options, life>>
  PROVE  Goes(t)
<1>1. <<a>> \o <<f>> = <<a, f>>
  BY Pairs DEF Follows
<1>2. stack' = [stack EXCEPT ![t] = <<a, f>> \o Tail(@)] /\ turn' = t /\ res' \in Results
  BY <1>1 DEF Calls, Results
<1> QED BY <1>2, GoesCalling

(* t calls request_state.                                                  *)
LEMMA GoesReading ==
  ASSUME IInv, NEW t \in Tasks, stack[t] # <<>>, NEW f, Follows(t, f), Reach(f.at) >= 2,
         Calls(t, f, ReadCall), UNCHANGED <<options, life>>
  PROVE  Goes(t)
<1>1. f \in Good
  BY DEF Follows
<1> DEFINE a == Frame("ensure.lock", None)
           b == Frame("read.ensure", None)
           c == <<a, b, f>>
<1>2. /\ a \in Good /\ b \in Good /\ a.at = "ensure.lock" /\ b.at = "read.ensure"
      /\ a.link # "live" /\ b.link # "live"
  BY Calling1, LevelOf, OptionsKnown DEF Links, EnsurePlaces, ReadPlaces, Connecting
<1>3. Level(a.at) = 1 /\ Level(b.at) = 2 /\ Reach(b.at) = 1
  BY <1>2, LevelOf DEF EnsurePlaces, ReadPlaces, Reach
<1> HIDE DEF a, b
<1>4. /\ c \in Seq(Good) /\ c # <<>> /\ c[Len(c)] = f /\ c[1] = a /\ Nested(c)
      /\ HasLive(c) => f.link = "live"
      /\ c = <<a, b>> \o <<f>>
  BY <1>1, <1>2, <1>3, Triples
<1>5. HasLive(c) => HasLive(stack[t]) \/ client = "live"
  BY <1>4, Stacked DEF Follows
<1>6. stack' = [stack EXCEPT ![t] = c \o Tail(@)] /\ turn' = t /\ res' \in Results
  BY <1>4 DEF Calls, ReadCall, Results, a, b
<1>7. c[1].at \notin Connecting
  BY <1>2, <1>4 DEF Connecting
<1> HIDE DEF c
<1> QED BY <1>4, <1>5, <1>6, <1>7, GoesOnto

(* t calls _write_packet.                                                  *)
LEMMA GoesWriting ==
  ASSUME IInv, NEW t \in Tasks, stack[t] # <<>>, NEW f, Follows(t, f), Reach(f.at) >= 1,
         f.at \notin Connecting, CallsWrite(t, f), UNCHANGED <<options, life>>
  PROVE  Goes(t)
<1>1. CASE client = None
  <2>1. /\ stack' = [stack EXCEPT ![t] = <<f>> \o Tail(@)]
        /\ turn' \in {t, None} /\ res' \in Results
    BY <1>1 DEF CallsWrite, Results
  <2> DEFINE c == <<f>>
  <2>2. /\ c \in Seq(Good) /\ c # <<>> /\ c[Len(c)] = f /\ c[1] = f /\ Nested(c)
        /\ HasLive(c) => f.link = "live"
    BY Singles DEF Follows
  <2>3. HasLive(c) => HasLive(stack[t]) \/ client = "live"
    BY <2>2, Stacked DEF Follows
  <2>4. stack' = [stack EXCEPT ![t] = c \o Tail(@)]
    BY <2>1
  <2> HIDE DEF c
  <2> QED BY <2>1, <2>2, <2>3, <2>4, GoesOnto
<1>2. CASE client # None
  <2>1. client = "live"
    BY <1>2 DEF IInv, LinkInv, LinkTypes
  <2> DEFINE a == Frame("write", client)
  <2>2. a \in Good /\ a.at = "write" /\ a.at \notin Connecting /\ Level(a.at) = 1
    BY <2>1, Calling1, LevelOf DEF Links, WritePlaces
  <2>3. /\ stack' = [stack EXCEPT ![t] = <<a, f>> \o Tail(@)]
        /\ turn' \in {t, None} /\ res' \in Results
    BY <1>2 DEF CallsWrite, Results
  <2> HIDE DEF a
  <2> QED BY <2>1, <2>2, <2>3, GoesCalling
<1> QED BY <1>1, <1>2

(* t returns to the frame below, which may have been given a link.         *)
LEMMA GoesUnder ==
  ASSUME IInv, NEW t \in Tasks, stack[t] # <<>>, NEW r, Fits(t, r),
         HasLive(r) => HasLive(stack[t]) \/ client = "live",
         r # <<>> => Head(r).at \notin Connecting,
         r = <<>> => Leaves(t),
         NEW s, s \in {[stack EXCEPT ![t] = r], Pinged([stack EXCEPT ![t] = r])},
         s # [stack EXCEPT ![t] = r] => warm',
         \E q \in Results : ReturnsTo(s, t, q),
         warm' \in BOOLEAN, warm => warm', UNCHANGED <<options, stopping>>,
         t = "supervisor" => r # <<>> \/ s = [stack EXCEPT ![t] = r]
  PROVE  Goes(t)
<1>1. /\ Fits(t, stack[t]) /\ stack \in [Tasks -> Seq(Good)]
  BY Stacked
<1>2. r \in Seq(Good)
  BY DEF Fits
<1> DEFINE p == [stack EXCEPT ![t] = r]
<1>3. p \in [Tasks -> Seq(Good)] /\ p[t] = r /\ \A u \in Tasks \ {t} : p[u] = stack[u]
  BY <1>1, <1>2
<1>4. stack' \in {p, Pinged(p)} /\ (stack' # p => warm') /\ turn' \in {t, None} /\ res' \in Results
      /\ (turn' = t => stack'[t] # <<>>)
  <2>1. PICK q \in Results : ReturnsTo(s, t, q)
    OBVIOUS
  <2>2. stack' = s /\ turn' \in {t, None} /\ res' \in {"ok", q} /\ (turn' = t => s[t] # <<>>)
    BY <2>1, OptionsKnown DEF ReturnsTo
  <2>3. s \in {p, Pinged(p)} /\ (s # p => warm')
    OBVIOUS
  <2> HIDE DEF p
  <2> QED BY <2>2, <2>3 DEF Results
<1>5. t = "supervisor" => r # <<>> \/ stack' = p
  BY DEF ReturnsTo
<1> HIDE DEF p
<1>6. /\ stack' \in [Tasks -> Seq(Good)] /\ stack'[t] = r
      /\ \A u \in Tasks \ {t} : stack'[u] = stack[u] \/ Started(u)
  <2>1. CASE stack' = p
    BY <2>1, <1>3
  <2>2. CASE stack' # p
    <3>1. stack' = [p EXCEPT !["supervisor"] = <<Frame("loop.top", None)>>] /\ p["supervisor"] = <<>>
      BY <2>2, <1>4 DEF Pinged
    <3>2. t # "supervisor" /\ stack["supervisor"] = <<>>
      BY <3>1, <2>2, <1>3, <1>5
    <3>3. <<Frame("loop.top", None)>> \in Seq(Good)
      <4>1. "loop.top" \in Roots["supervisor"]
        BY DEF Roots
      <4>2. Frame("loop.top", None) \in Good
        BY <4>1, PlacesKnown, FrameGood, LevelOf DEF Links, Connecting
      <4> QED BY <4>2, Singles
    <3> HIDE DEF Frame
    <3> QED BY <3>1, <3>2, <3>3, <2>2, <1>3, <1>4 DEF Started
  <2> QED BY <2>1, <2>2
<1>7. Connects(t)
  BY <1>6 DEF Connects, InConnect, Top
<1>8. Leaves(t)
  BY <1>6 DEF Leaves
<1>9. Turns'
  BY <1>4 DEF Turns
<1> QED BY <1>6, <1>7, <1>8, <1>9 DEF Goes, Apart

LEMMA GoesBack ==
  ASSUME IInv, NEW t \in Tasks, stack[t] # <<>>, Level(Top(t).at) # 7,
         NEW q \in Results, Returns(t, q), UNCHANGED <<options, life>>
  PROVE  Goes(t)
<1>1. /\ Fits(t, stack[t]) /\ Top(t) = stack[t][1]
  BY Stacked
<1> DEFINE r == Tail(stack[t])
<1>2. /\ Fits(t, r) /\ r # <<>> /\ Head(r).at \notin Connecting
      /\ HasLive(r) => HasLive(stack[t])
  BY <1>1, Under
<1>3. \E a \in Results : ReturnsTo([stack EXCEPT ![t] = r], t, a)
  BY DEF Returns, Popped
<1>4. warm' \in BOOLEAN /\ (warm => warm') /\ UNCHANGED <<options, stopping>>
  BY DEF life, IInv, Flags
<1> HIDE DEF r
<1> QED BY <1>2, <1>3, <1>4, GoesUnder

LEMMA GoesBackPinged ==
  ASSUME IInv, NEW t \in Tasks, stack[t] # <<>>, Level(Top(t).at) # 7,
         ReturnsTo(Pinged(Popped(t)), t, "ok"), warm' = TRUE, UNCHANGED <<options, stopping>>
  PROVE  Goes(t)
<1>1. /\ Fits(t, stack[t]) /\ Top(t) = stack[t][1]
  BY Stacked
<1> DEFINE r == Tail(stack[t])
<1>2. /\ Fits(t, r) /\ r # <<>> /\ Head(r).at \notin Connecting
      /\ HasLive(r) => HasLive(stack[t])
  BY <1>1, Under
<1>3. \E a \in Results : ReturnsTo(Pinged([stack EXCEPT ![t] = r]), t, a)
  BY DEF Popped, Results
<1> HIDE DEF r
<1> QED BY <1>2, <1>3, GoesUnder

LEMMA GoesBackLinked ==
  ASSUME IInv, NEW t \in Tasks, stack[t] # <<>>, Level(Top(t).at) # 7, NEW l \in Links,
         l = "live" => client = "live" \/ Top(t).link = "live",
         ReturnsLink(t, l), UNCHANGED <<options, life>>
  PROVE  Goes(t)
<1>1. /\ Fits(t, stack[t]) /\ Top(t) = stack[t][1]
      /\ Top(t).link = "live" => HasLive(stack[t])
  BY Stacked
<1> DEFINE b == Tail(stack[t])
           f == [Head(b) EXCEPT !.link = l]
           r == <<f>> \o Tail(b)
<1>2. /\ Fits(t, b) /\ b # <<>> /\ Head(b) \in Good /\ Head(b).at \notin Connecting
      /\ HasLive(b) => HasLive(stack[t])
  BY <1>1, Under
<1>3. \E a \in Results : ReturnsTo([stack EXCEPT ![t] = r], t, a)
  BY DEF ReturnsLink, Results
<1> HIDE DEF b
<1>4. f \in Good /\ f.at = Head(b).at /\ f.link = l
  BY <1>2 DEF Good, Frames, Links, Connecting
<1> HIDE DEF f
<1>5. Head(b) = b[1] /\ Head(b) \in Good
  BY <1>2, Tops
<1>6. Level(f.at) = 7 => f.at \in Roots[t]
  BY <1>2, <1>4, <1>5, RootAlone
<1> DEFINE c == <<f>>
<1>7. /\ c \in Seq(Good) /\ c # <<>> /\ c[Len(c)] = f /\ c[1] = f /\ Nested(c)
      /\ HasLive(c) => l = "live"
  BY <1>4, Singles
<1>8. r = c \o Tail(b)
  OBVIOUS
<1> HIDE DEF c, r
<1>9. /\ Fits(t, r) /\ r # <<>> /\ Head(r) = f
      /\ HasLive(r) => HasLive(c) \/ HasLive(b)
  BY <1>2, <1>4, <1>5, <1>6, <1>7, <1>8, Onto
<1>10. HasLive(r) => HasLive(stack[t]) \/ client = "live"
  BY <1>1, <1>2, <1>7, <1>9
<1>11. warm' \in BOOLEAN /\ (warm => warm') /\ UNCHANGED <<options, stopping>>
  BY DEF life, IInv, Flags
<1>12. Head(r).at \notin Connecting
  BY <1>2, <1>4, <1>9
<1> QED BY <1>3, <1>9, <1>10, <1>11, <1>12, GoesUnder

(* t ends, or is over when it returns.                                     *)
LEMMA GoesOut ==
  ASSUME IInv, NEW t \in Tasks, stack[t] # <<>>, Ends(t),
         t = "command" \/ ~hold \/ stopping, UNCHANGED <<options, life>>
  PROVE  Goes(t)
<1>1. Fits(t, <<>>) /\ ~HasLive(<<>>)
  BY DEF Fits, Nested, Rooted, HasLive
<1>2. stack \in [Tasks -> Seq(Good)]
  BY Stacked
<1>3. stack' \in [Tasks -> Seq(Good)] /\ stack'[t] = <<>> /\ \A u \in Tasks \ {t} : stack'[u] = stack[u]
  BY <1>1, <1>2 DEF Ends, Fits
<1>4. Apart(t) /\ Connects(t) /\ Leaves(t)
  BY <1>3 DEF Apart, Connects, Leaves, InConnect
<1>5. Turns' /\ warm' \in BOOLEAN /\ (warm => warm') /\ UNCHANGED <<options, stopping>>
  BY DEF Ends, Turns, Results, life, IInv, Flags
<1> QED BY <1>1, <1>3, <1>4, <1>5 DEF Goes

LEMMA GoesConnected ==
  ASSUME IInv, stack["connect"] # <<>>, Top("connect").at \in Roots["connect"],
         NEW ok \in BOOLEAN, ConnectEnds(ok), UNCHANGED <<options, stopping>>
  PROVE  Goes("connect")
<1> DEFINE t == "connect"
           p == [stack EXCEPT ![t] = <<>>]
<1>1. /\ Fits(t, stack[t]) /\ stack \in [Tasks -> Seq(Good)] /\ Top(t) = stack[t][1]
  BY Stacked
<1>2. Tail(stack[t]) = <<>>
  BY <1>1, LevelOf, RootAlone
<1>3. Popped(t) = p
  BY <1>2 DEF Popped
<1>4. Fits(t, <<>>) /\ ~HasLive(<<>>)
  BY DEF Fits, Nested, Rooted, HasLive
<1>5. p["supervisor"] = stack["supervisor"] /\ p["connect"] = <<>>
      /\ Pinged(p)["supervisor"] # <<>> /\ Pinged(p)["connect"] = <<>>
  BY <1>1 DEF Pinged
<1>6. warm \in BOOLEAN
  BY DEF IInv, Flags
<1>7. CASE ~stopping /\ (ok \/ hold)
  <2>1. warm' = TRUE /\ ReturnsTo(Pinged(p), t, "ok")
    BY <1>3, <1>7 DEF ConnectEnds
  <2>2. stack' = Pinged(p)
    BY <2>1 DEF ReturnsTo
  <2>3. Leaves(t)
    BY <2>1, <2>2, <1>5 DEF Leaves
  <2>4. \E q \in Results : ReturnsTo(Pinged(p), t, q)
    BY <2>1 DEF Results
  <2> HIDE DEF p
  <2>5. p = [stack EXCEPT ![t] = <<>>]
    BY DEF p
  <2> QED BY <2>1, <2>3, <2>4, <2>5, <1>4, GoesUnder
<1>8. CASE ~(~stopping /\ (ok \/ hold))
  <2>1. warm' = warm /\ ReturnsTo(p, t, "ok")
    BY <1>3, <1>8 DEF ConnectEnds, Returns
  <2>2. Leaves(t)
    BY <1>8 DEF Leaves
  <2>3. \E q \in Results : ReturnsTo(p, t, q)
    BY <2>1 DEF Results
  <2> HIDE DEF p
  <2>4. p = [stack EXCEPT ![t] = <<>>]
    BY DEF p
  <2> QED BY <2>1, <2>2, <2>3, <2>4, <1>4, <1>6, GoesUnder
<1> QED BY <1>7, <1>8

-----------------------------------------------------------------------------
(* The invariant outlives a step of a task that does no more than that.    *)
LEMMA PingedTop == Fits("supervisor", <<Frame("loop.top", None)>>)
                   /\ ~HasLive(<<Frame("loop.top", None)>>)
                   /\ Head(<<Frame("loop.top", None)>>).at = "loop.top"
<1> DEFINE f == Frame("loop.top", None)
<1>1. "loop.top" \in Roots["supervisor"]
  BY DEF Roots
<1>2. f \in Good /\ f.at = "loop.top" /\ f.link = None
  BY <1>1, PlacesKnown, FrameGood, LevelOf DEF Links, Connecting
<1> HIDE DEF f
<1>3. /\ <<f>> \in Seq(Good) /\ <<f>> # <<>> /\ Len(<<f>>) = 1 /\ <<f>>[1] = f /\ Nested(<<f>>)
      /\ HasLive(<<f>>) => f.link = "live"
  BY <1>2, Singles
<1>4. Fits("supervisor", <<f>>)
  BY <1>1, <1>2, <1>3 DEF Fits, Rooted
<1> QED BY <1>2, <1>3, <1>4, OptionsKnown DEF f

LEMMA Others ==
  ASSUME NEW t \in Tasks, Goes(t), NEW u \in Tasks \ {t}
  PROVE  \/ stack'[u] = stack[u]
         \/ /\ u = "supervisor" /\ stack'[u] # <<>> /\ warm'
            /\ Fits(u, stack'[u]) /\ ~HasLive(stack'[u]) /\ ~InConnect(u)'
<1> SUFFICES ASSUME Started(u)
             PROVE  /\ u = "supervisor" /\ stack'[u] # <<>> /\ warm'
                    /\ Fits(u, stack'[u]) /\ ~HasLive(stack'[u]) /\ ~InConnect(u)'
  BY DEF Goes, Apart
<1>1. u = "supervisor" /\ stack'[u] = <<Frame("loop.top", None)>> /\ warm'
  BY DEF Started
<1>2. Top(u)'.at = "loop.top"
  BY <1>1, PingedTop DEF Top
<1>3. ~InConnect(u)'
  BY <1>2 DEF InConnect, Connecting
<1> HIDE DEF Frame
<1>4. stack'[u] # <<>>
  BY <1>1
<1> QED BY <1>1, <1>3, <1>4, PingedTop

LEMMA LinkKept ==
  ASSUME IInv, NEW t \in Tasks, Goes(t), Fades
  PROVE  LinkInv'
<1>1. LinkTypes /\ LiveInv /\ Alone /\ NotifyInv /\ NoStrandedLink
  BY DEF IInv, LinkInv
<1>2. ASSUME NEW u \in Tasks \ {t}
      PROVE  stack'[u] = stack[u] \/ (~HasLive(stack'[u]) /\ ~InConnect(u)')
  BY Others
<1>3. LinkTypes'
  BY <1>1 DEF LinkTypes, Fades
<1>4. LiveInv'
  <2> SUFFICES ASSUME NEW u \in Tasks, HasLive(stack'[u]) PROVE radio' # "down"
    BY DEF LiveInv
  <2>1. radio # "down"
    BY <1>1, <1>2 DEF LiveInv, LinkTypes, Goes
  <2> QED BY <2>1 DEF Fades
<1>5. \A u \in Tasks \ {t} : InConnect(u)' => InConnect(u) /\ Top(u)' = Top(u)
  BY <1>2 DEF InConnect, Top
<1>6. InConnect(t)' => Top(t)'.at # "ensure.notify" /\ (InConnect(t) \/ \A u \in Tasks : ~InConnect(u))
  BY DEF Goes, Connects
<1>7. Alone'
  BY <1>1, <1>5, <1>6 DEF Alone
<1>8. NotifyInv'
  <2> SUFFICES ASSUME NEW u \in Tasks, stack'[u] # <<>>, Top(u)'.at = "ensure.notify",
                      Top(u)'.link = "gone"
               PROVE  client' = None /\ radio' = "down"
    BY DEF NotifyInv
  <2>1. InConnect(u)'
    BY DEF InConnect, Connecting
  <2>2. u # t /\ InConnect(u) /\ Top(u)' = Top(u)
    BY <2>1, <1>5, <1>6
  <2>3. client = None /\ radio = "down"
    BY <2>2, <1>1 DEF NotifyInv, InConnect
  <2> QED BY <2>3 DEF Fades
<1>9. NoStrandedLink'
  BY <1>1 DEF NoStrandedLink, Fades
<1> QED BY <1>3, <1>4, <1>7, <1>8, <1>9 DEF LinkInv

LEMMA HoldKept ==
  ASSUME IInv, NEW t \in Tasks, Goes(t)
  PROVE  HoldInv'
<1>1. /\ HoldSupervised /\ (hold /\ ~stopping /\ stack["supervisor"] # <<>> => warm)
      /\ \A u \in Tasks \ {"command"} : InConnect(u) /\ Top(u).at = "ensure.cancel" => stopping
  BY DEF IInv, HoldInv
<1>2. /\ Apart(t) /\ Connects(t) /\ Leaves(t)
      /\ (warm => warm') /\ hold' = hold /\ stopping' = stopping
      /\ stack[t] # <<>> \/ t = "command"
  BY DEF Goes, options
<1>3. ASSUME NEW u \in Tasks \ {t}
      PROVE  \/ stack'[u] = stack[u]
             \/ u = "supervisor" /\ stack'[u] # <<>> /\ warm' /\ ~InConnect(u)'
  BY Others
<1>4. HoldSupervised'
  <2> SUFFICES ASSUME hold, ~stopping, stack'["connect"] = <<>> PROVE stack'["supervisor"] # <<>>
    BY <1>2 DEF HoldSupervised
  <2>1. CASE t = "connect"
    BY <2>1, <1>2 DEF Leaves
  <2>2. CASE t # "connect"
    <3>1. stack["supervisor"] # <<>>
      BY <2>2, <1>1, <1>3 DEF HoldSupervised
    <3> QED BY <3>1, <2>2, <1>2, <1>3 DEF Leaves
  <2> QED BY <2>1, <2>2
<1>5. hold' /\ ~stopping' /\ stack'["supervisor"] # <<>> => warm'
  BY <1>1, <1>2, <1>3
<1>6. ASSUME NEW u \in Tasks \ {"command"}, InConnect(u)', Top(u)'.at = "ensure.cancel"
      PROVE  stopping'
  <2>1. CASE u = t
    BY <2>1, <1>2, <1>6 DEF Connects
  <2>2. CASE u # t
    <3>1. InConnect(u) /\ Top(u)' = Top(u)
      BY <2>2, <1>3, <1>6 DEF InConnect, Top
    <3> QED BY <3>1, <1>1, <1>2, <1>6
  <2> QED BY <2>1, <2>2
<1> QED BY <1>4, <1>5, <1>6 DEF HoldInv

LEMMA ShapeKept ==
  ASSUME IInv, NEW t \in Tasks, Goes(t)
  PROVE  Shape'
<1>1. \A u \in Tasks \ {t} : Fits(u, stack'[u])
  BY Others DEF IInv, Shape
<1> QED BY <1>1 DEF Goes, Shape

LEMMA Kept ==
  ASSUME IInv, NEW t \in Tasks, Goes(t), Fades,
         t = "stop" => stopping /\ (stack'["stop"] = <<>> \/ Top("stop")'.at = "stop.drop"
                                      => client' = None)
  PROVE  IInv'
<1>1. Turns' /\ Options' /\ Flags'
  BY DEF Goes, Fades, IInv, Options, Flags, options
<1>2. StopInv'
  <2>1. CASE t = "stop"
    BY <2>1 DEF Goes, StopInv
  <2>2. CASE t # "stop"
    <3>1. stack'["stop"] = stack["stop"] /\ Top("stop")' = Top("stop") /\ stopping' = stopping
      BY <2>2 DEF Goes, Apart, Started, Top
    <3> QED BY <3>1 DEF IInv, StopInv, Fades
  <2> QED BY <2>1, <2>2
<1> QED BY <1>1, <1>2, ShapeKept, LinkKept, HoldKept DEF IInv

-----------------------------------------------------------------------------
(* The steps, procedure by procedure.                                      *)
LEMMA Attends ==
  ASSUME IInv, NEW t \in Tasks, NEW p, NEW k,
         Awaits(t, p) \/ Resumes(t, p) \/ Acquires(t, p, k)
  PROVE  /\ stack[t] # <<>> /\ Top(t).at = p
         /\ Top(t) \in Good /\ Top(t).link \in Links
         /\ turn = None \/ turn = t
<1>1. stack[t] # <<>> /\ Top(t).at = p /\ (turn = None \/ turn = t)
  BY OptionsKnown DEF Awaits, Resumes, Acquires, IInv, Turns
<1> QED BY <1>1, Stacked DEF Good, Frames, Links

LEMMA FadesNot ==
  ASSUME UNCHANGED <<client, radio>>, broken' \in BOOLEAN, sess' \in BOOLEAN
  PROVE  Fades
BY DEF Fades

LEMMA FadesNotAtAll ==
  ASSUME IInv, UNCHANGED link
  PROVE  Fades
BY DEF link, Fades, IInv, Flags

LEMMA FadesForgotten ==
  ASSUME IInv, Forgets, broken' \in BOOLEAN
  PROVE  Fades
BY OptionsKnown DEF Forgets, Closing, Fades, IInv, LinkInv, LinkTypes

(* The link of a frame, while there is one, is up or closing.              *)
LEMMA FadesClosing ==
  ASSUME IInv, NEW t \in Tasks, stack[t] # <<>>, Closing(Top(t).link),
         \/ client' = client
         \/ client' = None /\ Top(t).at = "ensure.notify",
         broken' \in BOOLEAN, sess' \in BOOLEAN
  PROVE  Fades
<1>1. Top(t) \in Good /\ (Top(t).link = "live" => radio # "down")
  BY Stacked DEF IInv, LinkInv, LiveInv
<1>2. CASE client' = client
  BY <1>1, <1>2 DEF Closing, Fades
<1>3. CASE client' = None /\ Top(t).at = "ensure.notify"
  <2>1. Top(t).link \in {"live", "gone"}
    BY <1>1, <1>3 DEF Good, Frames
  <2>2. CASE Top(t).link = "live"
    BY <2>2, <1>1, <1>3 DEF Closing, Fades
  <2>3. CASE Top(t).link = "gone"
    <3>1. client = None /\ radio' = radio
      BY <2>3, <1>3 DEF IInv, LinkInv, NotifyInv, Closing
    <3> QED BY <3>1, <1>3 DEF Fades
  <2> QED BY <2>1, <2>2, <2>3
<1> QED BY <1>2, <1>3

LEMMA EnsureBeginsFine ==
  ASSUME IInv, NEW t \in Tasks, EnsureBegins(t)
  PROVE  Goes(t) /\ Fades
<1>1. stack[t] # <<>> /\ Top(t).at = "ensure.lock" /\ Level(Top(t).at) = 1
  BY Attends, LevelOf DEF EnsureBegins, EnsurePlaces
<1>2. UNCHANGED <<options, life>> /\ Free("connection")
  BY DEF EnsureBegins, Acquires
<1>3. CASE stopping /\ Returns(t, "error") /\ UNCHANGED link
  BY <1>1, <1>2, <1>3, GoesBack, FadesNotAtAll DEF Results
<1>4. CASE ~stopping /\ client = "live" /\ ~broken /\ ReturnsLink(t, client) /\ UNCHANGED link
  BY <1>1, <1>2, <1>4, GoesBackLinked, FadesNotAtAll DEF Links
<1>5. CASE /\ Forgets /\ broken' = FALSE
           /\ To(t, Frame(IF client = None THEN "ensure.connect" ELSE "ensure.stale", None))
  <2> DEFINE p == IF client = None THEN "ensure.connect" ELSE "ensure.stale"
  <2>1. Level(p) = 1 /\ p \notin Counting /\ p \notin {"ensure.notify", "ensure.cancel"}
    BY LevelOf DEF EnsurePlaces, Connecting
  <2>2. To(t, Frame(p, None))
    BY <1>5
  <2> HIDE DEF p
  <2>3. Follows(t, Frame(p, None)) /\ Frame(p, None).at = p
    BY <2>1, <1>1, Following, OptionsKnown DEF Links
  <2>4. Goes(t)
    BY <2>1, <2>2, <2>3, <1>1, <1>2, GoesTo
  <2> QED BY <2>4, <1>5, FadesForgotten
<1> QED BY <1>3, <1>4, <1>5 DEF EnsureBegins

LEMMA EnsureStaleFine ==
  ASSUME IInv, NEW t \in Tasks, EnsureStale(t)
  PROVE  Goes(t) /\ Fades
<1>1. stack[t] # <<>> /\ Top(t).at = "ensure.stale" /\ Level(Top(t).at) = 1 /\ InConnect(t)
  BY Attends, LevelOf DEF EnsureStale, EnsurePlaces, Connecting, InConnect
<1>2. Follows(t, Frame("ensure.connect", None)) /\ Frame("ensure.connect", None).at = "ensure.connect"
  BY <1>1, Following, LevelOf, OptionsKnown DEF Links, EnsurePlaces, Connecting
<1>3. Goes(t)
  BY <1>1, <1>2, GoesTo DEF EnsureStale
<1> QED BY <1>3, FadesNotAtAll DEF EnsureStale

LEMMA EnsureFailsFine ==
  ASSUME IInv, NEW t \in Tasks, EnsureFails(t)
  PROVE  Goes(t) /\ Fades
<1>1. stack[t] # <<>> /\ Level(Top(t).at) = 1
  BY Attends, LevelOf DEF EnsureFails, EnsurePlaces, Connecting
<1>2. Goes(t)
  BY <1>1, GoesBack DEF EnsureFails, Results
<1> QED BY <1>2, FadesNot DEF EnsureFails, IInv, Flags

LEMMA EnsureSubscribedFine ==
  ASSUME IInv, NEW t \in Tasks, EnsureSubscribed(t)
  PROVE  Goes(t) /\ Fades
<1>1. stack[t] # <<>> /\ Level(Top(t).at) = 1 /\ Top(t).link \in Links
  BY Attends, LevelOf DEF EnsureSubscribed, EnsurePlaces, Connecting
<1>2. Goes(t)
  BY <1>1, GoesBackLinked DEF EnsureSubscribed
<1> QED BY <1>2, FadesNot DEF EnsureSubscribed, IInv, Flags

LEMMA EnsureAbortsFine ==
  ASSUME IInv, NEW t \in Tasks, EnsureAborts(t)
  PROVE  Goes(t) /\ Fades
<1>1. stack[t] # <<>> /\ Top(t).at = "ensure.notify" /\ Level(Top(t).at) = 1 /\ InConnect(t)
  BY Attends, LevelOf DEF EnsureAborts, EnsurePlaces, Connecting, InConnect
<1>2. Follows(t, Frame("ensure.abort", None)) /\ Frame("ensure.abort", None).at = "ensure.abort"
  BY <1>1, Following, LevelOf, OptionsKnown DEF Links, EnsurePlaces, Connecting
<1>3. Goes(t)
  BY <1>1, <1>2, GoesTo DEF EnsureAborts
<1> QED BY <1>1, <1>3, FadesClosing DEF EnsureAborts, IInv, Flags

LEMMA EnsureReleasedFine ==
  ASSUME IInv, NEW t \in Tasks, EnsureReleased(t)
  PROVE  Goes(t) /\ Fades
<1>1. stack[t] # <<>> /\ Level(Top(t).at) = 1
  BY Attends, LevelOf DEF EnsureReleased, EnsurePlaces, Connecting
<1> QED BY <1>1, GoesBack, FadesNotAtAll DEF EnsureReleased, Results

(* A link comes up: t alone was connecting, and goes on to subscribe to it *)
(* or to drop it.                                                          *)
LEMMA EnsureConnectsFine ==
  ASSUME IInv, NEW t \in Tasks \ {"stop"}, EnsureConnects(t)
  PROVE  IInv'
<1>1. stack[t] # <<>> /\ Top(t).at = "ensure.connect" /\ Level(Top(t).at) = 1 /\ InConnect(t)
  BY Attends, LevelOf DEF EnsureConnects, EnsurePlaces, Connecting, InConnect
<1>2. /\ radio = "down" /\ client = None
      /\ UNCHANGED <<options, broken, sess, life>>
  BY OptionsKnown DEF EnsureConnects, IInv, LinkInv, LinkTypes
<1>3. PICK f : /\ f \in Good /\ To(t, f) /\ Level(f.at) = 1
               /\ \/ ~stopping /\ client' = "live" /\ radio' = "up" /\ f.at = "ensure.notify" /\ f.link = "live"
                  \/ client' = None /\ radio' = "closing" /\ f.at = "ensure.abort"
  <2>1. Frame("ensure.notify", "live") \in Good /\ Frame("ensure.notify", "live").at = "ensure.notify"
        /\ Frame("ensure.notify", "live").link = "live"
    BY PlacesKnown, LevelOf, FrameGood, OptionsKnown DEF EnsurePlaces, Connecting, Links
  <2>2. Frame("ensure.abort", None) \in Good /\ Frame("ensure.abort", None).at = "ensure.abort"
    BY PlacesKnown, LevelOf, FrameGood DEF EnsurePlaces, Connecting, Links
  <2>3. Level("ensure.notify") = 1 /\ Level("ensure.abort") = 1
    BY LevelOf DEF EnsurePlaces, Connecting
  <2> HIDE DEF Frame
  <2> QED BY <1>2, <2>1, <2>2, <2>3 DEF EnsureConnects
<1>4. Fits(t, stack[t]) /\ stack \in [Tasks -> Seq(Good)] /\ Top(t) = stack[t][1]
  BY <1>1, Stacked
<1> DEFINE c == <<f>>
           r == c \o Tail(stack[t])
<1>5. /\ c \in Seq(Good) /\ c # <<>> /\ c[Len(c)] = f /\ c[1] = f /\ Nested(c)
  BY <1>3, Singles
<1>6. stack' = [stack EXCEPT ![t] = r] /\ turn' = None /\ res' = "ok"
  BY <1>3 DEF To
<1> HIDE DEF c
<1>7. Fits(t, r) /\ r # <<>> /\ Head(r) = f
  <2>1. /\ Level(c[Len(c)].at) = Level(stack[t][1].at) /\ Level(stack[t][1].at) # 7
        /\ t \in Tasks
    BY <1>1, <1>3, <1>4, <1>5
  <2>2. /\ stack[t] # <<>> /\ Fits(t, stack[t])
        /\ c \in Seq(Good) /\ c # <<>> /\ Nested(c) /\ c[1] = f
    BY <1>1, <1>4, <1>5
  <2>3. /\ Fits(t, c \o Tail(stack[t]))
        /\ c \o Tail(stack[t]) # <<>> /\ Head(c \o Tail(stack[t])) = c[1]
    BY <2>1, <2>2, Onto, Zenon
  <2> QED BY <2>2, <2>3
<1> HIDE DEF r
<1>8. /\ stack' \in [Tasks -> Seq(Good)] /\ stack'[t] = r
      /\ \A u \in Tasks \ {t} : stack'[u] = stack[u]
  <2>1. r \in Seq(Good)
    BY <1>7 DEF Fits
  <2> QED BY <2>1, <1>4, <1>6
<1>9. Shape' /\ Turns' /\ Options' /\ Flags'
  <2>1. \A u \in Tasks : Fits(u, stack'[u])
    BY <1>7, <1>8 DEF IInv, Shape
  <2>2. Turns'
    BY <1>6 DEF Turns, Results
  <2> QED BY <2>1, <2>2, <1>2, <1>8 DEF Shape, IInv, Options, Flags, options, life
<1>10. stack'[t] # <<>> /\ Top(t)' = f
  BY <1>7, <1>8 DEF Top
<1>11. ASSUME NEW u \in Tasks \ {t} PROVE Top(u)' = Top(u) /\ InConnect(u)' = InConnect(u) /\ ~InConnect(u)
  <2>1. Top(u)' = Top(u) /\ InConnect(u)' = InConnect(u)
    BY <1>8 DEF Top, InConnect
  <2> QED BY <2>1, <1>1 DEF IInv, LinkInv, Alone
<1>12. LinkInv'
  <2>1. LinkTypes' /\ NoStrandedLink' /\ radio' # "down"
    BY <1>3, OptionsKnown DEF LinkTypes, NoStrandedLink
  <2>2. Alone'
    BY <1>11 DEF Alone
  <2>3. NotifyInv'
    <3> SUFFICES ASSUME NEW u \in Tasks, stack'[u] # <<>>, Top(u)'.at = "ensure.notify"
                 PROVE  Top(u)'.link # "gone"
      BY DEF NotifyInv
    <3>1. u = t
      BY <1>11 DEF InConnect, Connecting
    <3> QED BY <3>1, <1>3, <1>10
  <2> QED BY <2>1, <2>2, <2>3 DEF LinkInv, LiveInv
<1>13. StopInv'
  <2>1. stack'["stop"] = stack["stop"] /\ Top("stop")' = Top("stop") /\ stopping' = stopping
    BY <1>2, <1>8 DEF Top, life
  <2> QED BY <2>1, <1>2, <1>3 DEF IInv, StopInv
<1>14. HoldInv'
  <2>1. stopping' = stopping /\ hold' = hold /\ warm' = warm
    BY <1>2 DEF life, options
  <2>2. ASSUME NEW u \in Tasks PROVE stack'[u] = <<>> <=> stack[u] = <<>>
    BY <1>1, <1>8, <1>10
  <2>3. HoldSupervised' /\ (hold' /\ ~stopping' /\ stack'["supervisor"] # <<>> => warm')
    BY <2>1, <2>2 DEF IInv, HoldInv, HoldSupervised
  <2>4. ASSUME NEW u \in Tasks, InConnect(u)' PROVE Top(u)'.at # "ensure.cancel"
    BY <2>4, <1>3, <1>10, <1>11
  <2> QED BY <2>3, <2>4 DEF HoldInv
<1> QED BY <1>9, <1>12, <1>13, <1>14 DEF IInv

LEMMA WriteFine ==
  ASSUME IInv, NEW t \in Tasks, WriteEnds(t) \/ WriteTimesOut(t) \/ WriteDropped(t)
  PROVE  Goes(t) /\ Fades
<1>1. /\ stack[t] # <<>> /\ Level(Top(t).at) = 1
      /\ "write.last" \notin Counting \cup Connecting /\ "write.drop" \notin Counting \cup Connecting
      /\ Level("write.last") = 1 /\ Level("write.drop") = 1
  BY Attends, LevelOf DEF WriteEnds, WriteTimesOut, WriteDropped, WritePlaces
<1>2. CASE WriteEnds(t)
  <2>1. UNCHANGED <<options, link, life>>
    BY <1>2 DEF WriteEnds
  <2>2. CASE \E q \in Results : Returns(t, q)
    BY <1>1, <2>1, <2>2, GoesBack, FadesNotAtAll
  <2>3. CASE client # None /\ To(t, Frame("write.last", client))
    <3>1. client = "live"
      BY <2>3 DEF IInv, LinkInv, LinkTypes
    <3>2. Follows(t, Frame("write.last", client)) /\ Frame("write.last", client).at = "write.last"
      BY <1>1, <3>1, Following DEF Links, Connecting
    <3> QED BY <1>1, <2>1, <2>3, <3>2, GoesTo, FadesNotAtAll
  <2>4. (\E q \in Results : Returns(t, q)) \/ (client # None /\ To(t, Frame("write.last", client)))
    BY <1>2 DEF WriteEnds, Results
  <2> QED BY <2>2, <2>3, <2>4
<1>3. CASE WriteTimesOut(t)
  <2>1. Follows(t, Frame("write.drop", None)) /\ Frame("write.drop", None).at = "write.drop"
    BY <1>1, Following, OptionsKnown DEF Links, Connecting
  <2>2. To(t, Frame("write.drop", None)) /\ UNCHANGED <<options, life>>
    BY <1>3 DEF WriteTimesOut
  <2>3. Goes(t)
    BY <1>1, <2>1, <2>2, GoesTo
  <2> QED BY <1>1, <1>3, <2>3, FadesClosing DEF WriteTimesOut, IInv, Flags
<1>4. CASE WriteDropped(t)
  BY <1>1, <1>4, GoesBack, FadesNotAtAll DEF WriteDropped, Results
<1> QED BY <1>2, <1>3, <1>4

LEMMA ReadFine ==
  ASSUME IInv, NEW t \in Tasks, ReadEnsured(t) \/ ReadAsks(t) \/ ReadWritten(t) \/ ReadNotified(t)
  PROVE  Goes(t) /\ Fades
<1>1. stack[t] # <<>> /\ Level(Top(t).at) = 2
  BY Attends, LevelOf DEF ReadEnsured, ReadAsks, ReadWritten, ReadNotified, ReadPlaces
<1>2. ASSUME NEW p \in ReadPlaces
      PROVE  Follows(t, Frame(p, None)) /\ Frame(p, None).at = p /\ p \notin Connecting
  BY <1>1, Following, LevelOf, OptionsKnown DEF Links, Connecting
<1>3. CASE ReadEnsured(t)
  <2>1. To(t, Frame("read.gap", None)) \/ Returns(t, "error")
    BY <1>3 DEF ReadEnsured
  <2> QED BY <1>1, <1>2, <1>3, <2>1, GoesTo, GoesBack, FadesNotAtAll DEF ReadEnsured, Results, ReadPlaces
<1>4. CASE ReadAsks(t)
  <2>1. UNCHANGED <<options, life>> /\ UNCHANGED <<client, radio>>
        /\ broken' \in BOOLEAN /\ sess' \in BOOLEAN
    BY <1>4 DEF ReadAsks, IInv, Flags
  <2>2. (\E q \in Results : Returns(t, q)) \/ CallsWrite(t, Frame("read.write", None))
    BY <1>4 DEF ReadAsks, Results
  <2>3. Reach("read.write") = 1 /\ "read.write" \in ReadPlaces
    BY DEF Reach, ReadPlaces
  <2>4. Goes(t)
    BY <1>1, <1>2, <2>1, <2>2, <2>3, GoesBack, GoesWriting
  <2> QED BY <2>1, <2>4, FadesNot
<1>5. CASE ReadWritten(t)
  <2>1. To(t, Frame("read.notify", None)) \/ Returns(t, "error")
    BY <1>5 DEF ReadWritten
  <2> QED BY <1>1, <1>2, <1>5, <2>1, GoesTo, GoesBack, FadesNotAtAll DEF ReadWritten, Results, ReadPlaces
<1>6. CASE ReadNotified(t)
  BY <1>1, <1>6, GoesBack, FadesNotAtAll DEF ReadNotified, Results
<1> QED BY <1>3, <1>4, <1>5, <1>6

LEMMA InitFine ==
  ASSUME IInv, NEW t \in Tasks,
         InitBegins(t) \/ InitWakes(t) \/ InitReadied(t) \/ InitWrites(t) \/ InitRead(t) \/ InitDone(t)
  PROVE  Goes(t) /\ Fades
<1>1. stack[t] # <<>> /\ Level(Top(t).at) = 5
  BY Attends, LevelOf DEF InitBegins, InitWakes, InitReadied, InitWrites, InitRead, InitDone, InitPlaces
<1>2. ASSUME NEW p \in InitPlaces
      PROVE  Follows(t, Frame(p, None)) /\ Frame(p, None).at = p /\ p \notin Connecting
  BY <1>1, Following, LevelOf, OptionsKnown DEF Links, Connecting
<1>3. ASSUME NEW p \in CallbackPlaces
      PROVE  /\ Frame(p, None) \in Good /\ Frame(p, None).at = p /\ Frame(p, None).link # "live"
             /\ p \notin Connecting /\ Level(p) = 4
  BY Calling1, LevelOf, OptionsKnown DEF Links, Connecting
<1>4. CASE InitBegins(t)
  <2>1. Returns(t, "ok") \/ Returns(t, "no") \/ To(t, Frame("init.wake", None))
    BY <1>4 DEF InitBegins
  <2> QED BY <1>1, <1>2, <1>4, <2>1, GoesTo, GoesBack, FadesNotAtAll DEF InitBegins, Results, InitPlaces
<1>5. CASE InitWakes(t)
  <2>1. /\ UNCHANGED <<options, life>> /\ UNCHANGED <<client, radio>>
        /\ broken' \in BOOLEAN /\ sess' \in BOOLEAN
        /\ Calls(t, Frame("init.ready", None), <<Frame("clock.lock", None)>>)
    BY <1>5 DEF InitWakes, IInv, Flags
  <2>2. Reach("init.ready") = 4 /\ "init.ready" \in InitPlaces /\ "clock.lock" \in CallbackPlaces
    BY DEF Reach, InitPlaces, CallbackPlaces
  <2>3. Goes(t)
    BY <1>1, <1>2, <1>3, <2>1, <2>2, GoesCall
  <2> QED BY <2>1, <2>3, FadesNot
<1>6. CASE InitReadied(t)
  <2>1. To(t, Frame("init.gap", None)) \/ Calls(t, Frame("init.read", None), ReadCall)
    BY <1>6 DEF InitReadied
  <2>2. Reach("init.read") = 2 /\ "init.read" \in InitPlaces /\ "init.gap" \in InitPlaces
    BY DEF Reach, InitPlaces
  <2>3. Goes(t)
    BY <1>1, <1>2, <1>6, <2>1, <2>2, GoesTo, GoesReading DEF InitReadied
  <2> QED BY <1>6, <2>3, FadesNotAtAll DEF InitReadied
<1>7. CASE InitWrites(t)
  <2>1. Reach("init.write") = 1 /\ "init.write" \in InitPlaces
    BY DEF Reach, InitPlaces
  <2>2. Goes(t)
    BY <1>1, <1>2, <1>7, <2>1, GoesWriting DEF InitWrites
  <2> QED BY <1>7, <2>2, FadesNotAtAll DEF InitWrites
<1>8. CASE InitRead(t)
  <2>1. Calls(t, Frame("init.zone", None), <<Frame("zone.lock", None)>>) \/ Returns(t, "error")
    BY <1>8 DEF InitRead
  <2>2. Reach("init.zone") = 4 /\ "init.zone" \in InitPlaces /\ "zone.lock" \in CallbackPlaces
    BY DEF Reach, InitPlaces, CallbackPlaces
  <2>3. Goes(t)
    BY <1>1, <1>2, <1>3, <1>8, <2>1, <2>2, GoesCall, GoesBack DEF InitRead, Results
  <2> QED BY <1>8, <2>3, FadesNotAtAll DEF InitRead
<1>9. CASE InitDone(t)
  BY <1>1, <1>9, GoesBack, FadesNot DEF InitDone, Results, IInv, Flags
<1> QED BY <1>4, <1>5, <1>6, <1>7, <1>8, <1>9

LEMMA CallbackFine ==
  ASSUME IInv, NEW t \in Tasks, ClockBegins(t) \/ ZoneBegins(t) \/ CallbackSent(t)
  PROVE  Goes(t) /\ Fades
<1>1. stack[t] # <<>> /\ Level(Top(t).at) = 4 /\ UNCHANGED <<options, link, life>>
  BY Attends, LevelOf DEF ClockBegins, ZoneBegins, CallbackSent, CallbackPlaces
<1>2. ASSUME NEW p \in {"clock.send", "zone.send"}
      PROVE  Follows(t, Frame(p, None)) /\ Frame(p, None).at = p /\ Reach(p) = 3
  BY <1>1, Following, LevelOf, OptionsKnown DEF Links, CallbackPlaces, Connecting, Reach
<1>3. /\ Frame("send.lock", None) \in Good /\ Frame("send.lock", None).at = "send.lock"
      /\ Frame("send.lock", None).link # "live" /\ "send.lock" \notin Connecting
      /\ Level("send.lock") = 3
  BY Calling1, LevelOf, OptionsKnown DEF Links, SendPlaces, Counting
<1>4. \/ Returns(t, "ok")
      \/ Calls(t, Frame("clock.send", None), <<Frame("send.lock", None)>>)
      \/ Calls(t, Frame("zone.send", None), <<Frame("send.lock", None)>>)
  BY DEF ClockBegins, ZoneBegins, CallbackSent
<1>5. Goes(t)
  BY <1>1, <1>2, <1>3, <1>4, GoesCall, GoesBack DEF Results
<1> QED BY <1>1, <1>5, FadesNotAtAll

(* The attempts of a copy and the copies stay within their number.         *)
LEMMA AttemptBounds ==
  /\ 1 \in 1 .. WriteRetries * Copies
  /\ \A n \in 1 .. WriteRetries * Copies :
       n % WriteRetries # 0 => n + 1 \in 1 .. WriteRetries * Copies
  /\ \A n \in 1 .. WriteRetries * Copies :
       ~(n > (Copies - 1) * WriteRetries) => WriteRetries + 1 \in 1 .. WriteRetries * Copies
<1>1. WriteRetries * Copies \in Nat \ {0} /\ WriteRetries \in Nat \ {0} /\ Copies \in Nat \ {0}
  BY OptionsKnown, Bounds
<1>2. (WriteRetries * Copies) % WriteRetries = 0
  <2>1. ASSUME NEW k \in Nat \ {0}, NEW c \in Nat PROVE (k * c) % k = 0
    OBVIOUS
  <2> QED BY <1>1, <2>1
<1>3. ASSUME NEW n \in 1 .. WriteRetries * Copies, n % WriteRetries # 0
      PROVE  n + 1 \in 1 .. WriteRetries * Copies
  BY <1>1, <1>2, <1>3
<1>4. ASSUME NEW n \in 1 .. WriteRetries * Copies, ~(n > (Copies - 1) * WriteRetries)
      PROVE  WriteRetries + 1 \in 1 .. WriteRetries * Copies
  <2>1. Copies >= 2
    BY <1>1, <1>4
  <2>2. WriteRetries * 2 <= WriteRetries * Copies
    BY <1>1, <2>1
  <2> QED BY <1>1, <2>2
<1> QED BY <1>1, <1>3, <1>4

LEMMA SendFailsFine ==
  ASSUME IInv, NEW t \in Tasks, stack[t] # <<>>, Level(Top(t).at) = 3, SendFails(t),
         UNCHANGED <<options, stopping>>
  PROVE  Goes(t) /\ Fades
<1>1. UNCHANGED <<options, life>> /\ broken' \in BOOLEAN
  BY DEF SendFails, life, IInv, Flags
<1>2. Follows(t, Frame("send.drop", None)) /\ Frame("send.drop", None).at = "send.drop"
      /\ "send.drop" \notin Connecting
  BY Following, LevelOf, OptionsKnown DEF Links, SendPlaces, Counting
<1>3. Returns(t, "no") \/ To(t, Frame("send.drop", None))
  BY DEF SendFails
<1>4. Goes(t)
  BY <1>1, <1>2, <1>3, GoesTo, GoesBack DEF Results
<1> QED BY <1>1, <1>4, FadesForgotten DEF SendFails

LEMMA SendSucceedsFine ==
  ASSUME IInv, NEW t \in Tasks, stack[t] # <<>>, Level(Top(t).at) = 3, SendSucceeds(t),
         UNCHANGED <<options, stopping>>
  PROVE  Goes(t) /\ Fades
BY GoesBackPinged, FadesNotAtAll DEF SendSucceeds

LEMMA SendFine ==
  ASSUME IInv, NEW t \in Tasks,
         \/ SendBegins(t) \/ SendEnsured(t) \/ SendWrites(t) \/ SendWritten(t)
         \/ SendSettles(t) \/ SendVerified(t) \/ SendDropped(t)
  PROVE  Goes(t) /\ Fades
<1>1. stack[t] # <<>> /\ Level(Top(t).at) = 3 /\ Top(t) \in Good /\ UNCHANGED <<options, stopping>>
  BY Attends, LevelOf DEF SendBegins, SendEnsured, SendWrites, SendWritten, SendSettles,
     SendVerified, SendDropped, SendPlaces, life
<1>2. ASSUME NEW p \in Counting, NEW n \in 1 .. WriteRetries * Copies
      PROVE  Follows(t, Attempt(p, n)) /\ Attempt(p, n).at = p /\ p \notin Connecting
  BY <1>1, Attempting DEF Counting, Connecting
<1>3. Top(t).at \in Counting => Top(t).n \in 1 .. WriteRetries * Copies
  BY <1>1, Bounds DEF Good, Frames
<1>4. ASSUME NEW p \in Counting, NEW n \in 1 .. WriteRetries * Copies, To(t, Attempt(p, n)),
             UNCHANGED <<link, warm>>
      PROVE  Goes(t) /\ Fades
  <2>1. UNCHANGED <<options, life>>
    BY <1>1, <1>4 DEF life
  <2>2. Goes(t)
    BY <1>1, <1>2, <1>4, <2>1, GoesTo
  <2> QED BY <1>4, <2>2, FadesNotAtAll
<1>5. CASE SendBegins(t)
  <2>1. Follows(t, Frame("send.ensure", None)) /\ Reach(Frame("send.ensure", None).at) = 1
    BY <1>1, Following, LevelOf, OptionsKnown DEF Links, SendPlaces, Counting, Connecting, Reach
  <2>2. /\ Frame("ensure.lock", None) \in Good /\ Frame("ensure.lock", None).at = "ensure.lock"
        /\ Frame("ensure.lock", None).link # "live" /\ "ensure.lock" \notin Connecting
        /\ Level("ensure.lock") = 1
    BY Calling1, LevelOf, OptionsKnown DEF Links, EnsurePlaces, Connecting
  <2>3. Goes(t)
    BY <1>1, <1>5, <2>1, <2>2, GoesCall DEF SendBegins
  <2> QED BY <1>5, <2>3, FadesNotAtAll DEF SendBegins
<1>6. CASE SendEnsured(t)
  <2>1. \/ To(t, Attempt("send.gap", 1)) /\ UNCHANGED <<link, warm>>
        \/ SendFails(t)
    BY <1>6 DEF SendEnsured
  <2>2. "send.gap" \in Counting
    BY DEF Counting
  <2> QED BY <1>1, <1>4, <2>1, <2>2, SendFailsFine, AttemptBounds
<1>7. CASE SendWrites(t)
  <2>1. Top(t).at = "send.gap" /\ "send.gap" \in Counting /\ "send.write" \in Counting
    BY <1>7 DEF SendWrites, Awaits, Counting
  <2>2. /\ UNCHANGED <<options, life>> /\ UNCHANGED <<client, radio>> /\ sess' = sess
        /\ broken' \in {broken, broken \/ Top(t).n = 1}
        /\ CallsWrite(t, Attempt("send.write", Top(t).n))
    BY <1>7 DEF SendWrites
  <2>3. broken' \in BOOLEAN /\ sess' \in BOOLEAN
    BY <2>2 DEF IInv, Flags
  <2>4. Reach("send.write") = 1
    BY DEF Reach
  <2>5. Goes(t)
    BY <1>1, <1>2, <1>3, <2>1, <2>2, <2>4, GoesWriting
  <2> QED BY <2>2, <2>3, <2>5, FadesNot
<1>8. CASE SendWritten(t)
  <2>1. Top(t).at \in Counting /\ "send.gap" \in Counting /\ "send.settle" \in Counting
    BY <1>8 DEF SendWritten, Resumes, Counting
  <2> DEFINE n == Top(t).n
  <2>2. \/ To(t, Attempt("send.settle", n)) /\ UNCHANGED <<link, warm>>
        \/ SendSucceeds(t) \/ SendFails(t)
        \/ n % WriteRetries # 0 /\ To(t, Attempt("send.gap", n + 1)) /\ UNCHANGED <<link, warm>>
    BY <1>8 DEF SendWritten
  <2>3. n \in 1 .. WriteRetries * Copies
    BY <1>3, <2>1
  <2> HIDE DEF n
  <2> QED BY <1>1, <1>4, <2>1, <2>2, <2>3, SendFailsFine, SendSucceedsFine, AttemptBounds
<1>9. CASE SendSettles(t)
  <2>1. Top(t).at \in Counting /\ "send.verify" \in Counting
    BY <1>9 DEF SendSettles, Awaits, Counting
  <2> DEFINE f == Attempt("send.verify", Top(t).n)
  <2>2. SendSucceeds(t) \/ (Calls(t, f, ReadCall) /\ UNCHANGED <<link, warm>>)
    BY <1>9 DEF SendSettles
  <2>3. Follows(t, f) /\ f.at = "send.verify" /\ Reach(f.at) >= 2
    BY <1>2, <1>3, <2>1 DEF Reach
  <2> HIDE DEF f
  <2>4. ASSUME Calls(t, f, ReadCall), UNCHANGED <<link, warm>> PROVE Goes(t) /\ Fades
    <3>1. UNCHANGED <<options, life>>
      BY <1>1, <2>4 DEF life
    <3>2. Goes(t)
      BY <1>1, <2>3, <2>4, <3>1, GoesReading
    <3> QED BY <2>4, <3>2, FadesNotAtAll
  <2> QED BY <1>1, <2>2, <2>4, SendSucceedsFine
<1>10. CASE SendVerified(t)
  <2>1. Top(t).at \in Counting /\ "send.gap" \in Counting
    BY <1>10 DEF SendVerified, Resumes, Counting
  <2> DEFINE n == Top(t).n
  <2>2. \/ SendSucceeds(t) \/ SendFails(t)
        \/ /\ ~(n > (Copies - 1) * WriteRetries)
           /\ To(t, Attempt("send.gap", WriteRetries + 1)) /\ UNCHANGED <<link, warm>>
    BY <1>10 DEF SendVerified
  <2>3. n \in 1 .. WriteRetries * Copies
    BY <1>3, <2>1
  <2> HIDE DEF n
  <2> QED BY <1>1, <1>4, <2>1, <2>2, <2>3, SendFailsFine, SendSucceedsFine, AttemptBounds
<1>11. CASE SendDropped(t)
  BY <1>1, <1>11, GoesBack, FadesNotAtAll DEF SendDropped, Results
<1> QED BY <1>5, <1>6, <1>7, <1>8, <1>9, <1>10, <1>11

LEMMA ConnectFine ==
  ASSUME IInv, Connect
  PROVE  Goes("connect") /\ Fades
<1> DEFINE t == "connect"
<1>1. /\ stack[t] # <<>> /\ Top(t).at \in Roots[t] /\ Top(t).link \in Links
      /\ Level(Top(t).at) = 7 /\ UNCHANGED <<options, link, stopping>>
  BY Attends, LevelOf DEF Connect, ConnectEnsured, ConnectInitialized, Roots
<1>2. CASE ConnectEnsured
  <2> DEFINE l == Top(t).link
             f == Frame("connect.init", None)
             a == Frame("init.lock", l)
  <2>1. \/ Calls(t, f, <<a>>) /\ UNCHANGED warm
        \/ ConnectEnds(FALSE)
    BY <1>2 DEF ConnectEnsured
  <2>2. Follows(t, f) /\ Reach(f.at) = 5
    BY <1>1, Following, LevelOf, OptionsKnown DEF Links, Roots, Counting, Reach
  <2>3. a \in Good /\ a.at = "init.lock" /\ a.link = l /\ a.at \notin Connecting /\ Level(a.at) = 5
    BY <1>1, Calling1, LevelOf DEF InitPlaces
  <2> HIDE DEF a, f
  <2>4. ASSUME Calls(t, f, <<a>>), UNCHANGED warm PROVE Goes(t)
    <3>1. UNCHANGED <<options, life>>
      BY <1>1, <2>4 DEF life
    <3> QED BY <1>1, <2>2, <2>3, <2>4, <3>1, GoesCall
  <2> QED BY <1>1, <2>1, <2>4, GoesConnected, FadesNotAtAll
<1>3. CASE ConnectInitialized
  <2>1. ConnectEnds(res = "ok")
    BY <1>3 DEF ConnectInitialized
  <2> QED BY <1>1, <2>1, GoesConnected, FadesNotAtAll
<1> QED BY <1>2, <1>3 DEF Connect

(* The supervisor ends only when it is told to, or its deadline has passed.*)
LEMMA LoopTurns ==
  ASSUME IInv, stack["supervisor"] # <<>>, Top("supervisor").at \in Roots["supervisor"],
         LoopAgain("supervisor") \/ LoopPauses("supervisor"), UNCHANGED <<options, life>>
  PROVE  Goes("supervisor")
<1> DEFINE t == "supervisor"
<1>1. Level(Top(t).at) = 7
  BY LevelOf
<1>2. ASSUME NEW p \in {"loop.lock", "loop.top"}
      PROVE  Follows(t, Frame(p, None)) /\ Frame(p, None).at = p /\ p \notin Connecting
  BY <1>1, Following, LevelOf, OptionsKnown DEF Links, Roots
<1>3. hold /\ ~stopping => warm
  BY DEF IInv, HoldInv
<1>4. \/ To(t, Frame("loop.lock", None)) \/ To(t, Frame("loop.top", None))
      \/ Ends(t) /\ ~(warm /\ ~stopping)
  BY DEF LoopAgain, LoopPauses
<1> QED BY <1>2, <1>3, <1>4, GoesTo, GoesOut

LEMMA HeartbeatFine ==
  ASSUME IInv, stack["supervisor"] # <<>>, Top("supervisor").at \in Roots["supervisor"],
         Top("supervisor").link \in Links,
         Heartbeat("supervisor", Top("supervisor").link), UNCHANGED <<options, life>>
  PROVE  Goes("supervisor")
<1> DEFINE t == "supervisor"
           l == Top("supervisor").link
<1>1. Level(Top(t).at) = 7
  BY LevelOf
<1>2. Follows(t, Frame("loop.beat", l)) /\ Frame("loop.beat", l).at = "loop.beat" /\ "loop.beat" \notin Connecting
  BY <1>1, Following, LevelOf DEF Roots
<1>3. Follows(t, Frame("loop.idle", None)) /\ Frame("loop.idle", None).at = "loop.idle"
      /\ "loop.idle" \notin Connecting
  BY <1>1, Following, LevelOf, OptionsKnown DEF Links, Roots
<1>4. \/ stopping /\ Ends(t)
      \/ LoopAgain(t)
      \/ To(t, Frame("loop.beat", l)) \/ Asks(t, Frame("loop.idle", None))
  BY DEF Heartbeat
<1> QED BY <1>2, <1>3, <1>4, LoopTurns, GoesTo, GoesOut

LEMMA SuperviseFine ==
  ASSUME IInv, Supervise("supervisor")
  PROVE  Goes("supervisor") /\ Fades
<1> DEFINE t == "supervisor"
           l == Top(t).link
<1>1. /\ stack[t] # <<>> /\ Top(t).at \in Roots[t] /\ l \in Links
      /\ Level(Top(t).at) = 7 /\ UNCHANGED <<options, life>>
  BY Attends, LevelOf DEF Supervise, LoopTop, LoopBegins, LoopEnsured, LoopInitialized, LoopBeats,
     LoopIdles, LoopDropped, Roots
<1>2. CASE LoopTop(t) \/ LoopDropped(t)
  BY <1>1, <1>2, LoopTurns, FadesNotAtAll DEF LoopTop, LoopDropped
<1>3. CASE LoopBegins(t)
  <2>1. Follows(t, Frame("loop.ensure", None)) /\ Reach(Frame("loop.ensure", None).at) = 1
    BY <1>1, Following, LevelOf, OptionsKnown DEF Links, Roots, Reach
  <2>2. /\ Frame("ensure.lock", None) \in Good /\ Frame("ensure.lock", None).at = "ensure.lock"
        /\ Frame("ensure.lock", None).link # "live" /\ "ensure.lock" \notin Connecting
        /\ Level("ensure.lock") = 1
    BY Calling1, LevelOf, OptionsKnown DEF Links, EnsurePlaces, Connecting
  <2>3. Goes(t)
    BY <1>1, <1>3, <2>1, <2>2, GoesCall DEF LoopBegins
  <2> QED BY <1>3, <2>3, FadesNotAtAll DEF LoopBegins
<1>4. CASE LoopEnsured(t)
  <2> DEFINE f == Frame("loop.init", l)
             a == Frame("init.lock", l)
  <2>1. Calls(t, f, <<a>>) \/ LoopPauses(t)
    BY <1>4 DEF LoopEnsured
  <2>2. Follows(t, f) /\ Reach(f.at) = 5
    BY <1>1, Following, LevelOf DEF Roots, Reach
  <2>3. a \in Good /\ a.at = "init.lock" /\ a.link = l /\ a.at \notin Connecting /\ Level(a.at) = 5
    BY <1>1, Calling1, LevelOf DEF InitPlaces
  <2> HIDE DEF a, f
  <2>4. Goes(t)
    BY <1>1, <2>1, <2>2, <2>3, GoesCall, LoopTurns
  <2> QED BY <1>4, <2>4, FadesNotAtAll DEF LoopEnsured
<1>5. CASE LoopInitialized(t)
  <2>1. Heartbeat(t, Top(t).link) \/ LoopPauses(t)
    BY <1>5 DEF LoopInitialized
  <2> QED BY <1>1, <1>5, <2>1, HeartbeatFine, LoopTurns, FadesNotAtAll DEF LoopInitialized
<1>6. CASE LoopBeats(t)
  <2>1. /\ Heartbeat(t, Top(t).link) /\ UNCHANGED <<client, radio>>
        /\ broken' \in BOOLEAN /\ sess' \in BOOLEAN
    BY <1>6 DEF LoopBeats, IInv, Flags
  <2> QED BY <1>1, <2>1, HeartbeatFine, FadesNot
<1>7. CASE LoopIdles(t)
  <2>1. Follows(t, Frame("loop.drop", None)) /\ Frame("loop.drop", None).at = "loop.drop"
        /\ "loop.drop" \notin Connecting
    BY <1>1, Following, LevelOf, OptionsKnown DEF Links, Roots
  <2>2. LoopAgain(t) \/ LoopPauses(t) \/ To(t, Frame("loop.drop", None))
    BY <1>7 DEF LoopIdles
  <2>3. Goes(t)
    BY <1>1, <2>1, <2>2, LoopTurns, GoesTo
  <2>4. UNCHANGED link \/ (Forgets /\ broken' = broken)
    BY <1>7 DEF LoopIdles
  <2>5. Fades
    BY <2>4, FadesNotAtAll, FadesForgotten DEF IInv, Flags
  <2> QED BY <2>3, <2>5
<1> QED BY <1>2, <1>3, <1>4, <1>5, <1>6, <1>7 DEF Supervise

LEMMA CommandFine ==
  ASSUME IInv, Command("command")
  PROVE  Goes("command") /\ Fades
<1> DEFINE t == "command"
           l == Top(t).link
<1>1. /\ stack[t] # <<>> /\ l \in Links /\ UNCHANGED <<options, link, life>>
      /\ \/ Level(Top(t).at) = 6 /\ (PrepareEnsured(t) \/ PrepareInitialized(t))
         \/ /\ Level(Top(t).at) = 7
            /\ \/ CommandPrepared(t) \/ CommandSent(t) \/ CommandRead(t) \/ SyncPrepared(t)
               \/ SyncBegins(t) \/ SyncSent(t) \/ SyncRead(t) \/ SyncZoned(t)
  BY Attends, LevelOf DEF Command, PrepareEnsured, PrepareInitialized, CommandPrepared, CommandSent,
     CommandRead, SyncPrepared, SyncBegins, SyncSent, SyncRead, SyncZoned, PreparePlaces, Roots
<1>2. CASE Level(Top(t).at) = 6 /\ (PrepareEnsured(t) \/ PrepareInitialized(t))
  <2> DEFINE f == Frame("prepare.init", None)
             a == Frame("init.lock", l)
  <2>1. Calls(t, f, <<a>>) \/ (\E q \in Results : Returns(t, q))
    BY <1>2 DEF PrepareEnsured, PrepareInitialized, Results
  <2>2. Follows(t, f) /\ Reach(f.at) = 5
    BY <1>2, Following, LevelOf, OptionsKnown DEF Links, PreparePlaces, Reach
  <2>3. a \in Good /\ a.at = "init.lock" /\ a.link = l /\ a.at \notin Connecting /\ Level(a.at) = 5
    BY <1>1, Calling1, LevelOf DEF InitPlaces
  <2> HIDE DEF a, f
  <2>4. Goes(t)
    BY <1>1, <1>2, <2>1, <2>2, <2>3, GoesCall, GoesBack
  <2> QED BY <1>1, <2>4, FadesNotAtAll
<1>3. CASE /\ Level(Top(t).at) = 7
           /\ \/ CommandPrepared(t) \/ CommandSent(t) \/ CommandRead(t) \/ SyncPrepared(t)
              \/ SyncBegins(t) \/ SyncSent(t) \/ SyncRead(t) \/ SyncZoned(t)
  <2> DEFINE a == Frame("send.lock", None)
             Sending == {"command.send", "sync.send", "sync.zone"}
             Reading == {"command.read", "sync.read"}
  <2>1. \/ Ends(t) \/ Asks(t, Frame("sync.lock", None))
        \/ \E p \in Sending : Calls(t, Frame(p, None), <<a>>)
        \/ \E p \in Reading : Calls(t, Frame(p, None), ReadCall)
    BY <1>3 DEF CommandPrepared, CommandSent, CommandRead, SyncPrepared, SyncBegins, SyncSent,
         SyncRead, SyncZoned
  <2>2. ASSUME NEW p \in Roots[t]
        PROVE  Follows(t, Frame(p, None)) /\ Frame(p, None).at = p /\ p \notin Connecting
    BY <1>3, Following, LevelOf, OptionsKnown DEF Links, Connecting
  <2>3. /\ Sending \cup Reading \cup {"sync.lock"} \subseteq Roots[t]
        /\ \A p \in Sending : Reach(p) = 3
        /\ \A p \in Reading : Reach(p) = 2
    BY DEF Roots, Reach
  <2>4. a \in Good /\ a.at = "send.lock" /\ a.link # "live" /\ a.at \notin Connecting /\ Level(a.at) = 3
    BY Calling1, LevelOf, OptionsKnown DEF Links, SendPlaces, Counting
  <2> HIDE DEF a, Sending, Reading
  <2>5. ASSUME NEW p \in Sending, Calls(t, Frame(p, None), <<a>>) PROVE Goes(t)
    BY <1>1, <2>2, <2>3, <2>4, <2>5, GoesCall
  <2>6. ASSUME NEW p \in Reading, Calls(t, Frame(p, None), ReadCall) PROVE Goes(t)
    BY <1>1, <2>2, <2>3, <2>6, GoesReading
  <2>7. CASE Ends(t)
    BY <1>1, <2>7, GoesOut, FadesNotAtAll
  <2>8. CASE Asks(t, Frame("sync.lock", None))
    BY <1>1, <2>2, <2>3, <2>8, GoesTo, FadesNotAtAll
  <2> QED BY <1>1, <2>1, <2>5, <2>6, <2>7, <2>8, FadesNotAtAll
<1> QED BY <1>1, <1>2, <1>3

(* An operation of the Device starts with what it calls first.             *)
LEMMA OperationsFit ==
  ASSUME NEW o \in {"prepare", "sync", "send", "read"}
  PROVE  /\ Fits("command", Operations[o]) /\ Operations[o] # <<>>
         /\ Head(Operations[o]).at \notin Connecting /\ ~HasLive(Operations[o])
<1> DEFINE e == Frame("ensure.lock", None)
           p == Frame("prepare.ensure", None)
           r == Frame("read.ensure", None)
           s == Frame("send.lock", None)
<1>1. /\ e \in Good /\ e.at = "ensure.lock" /\ e.link # "live"
      /\ p \in Good /\ p.at = "prepare.ensure" /\ p.link # "live"
      /\ r \in Good /\ r.at = "read.ensure" /\ r.link # "live"
      /\ s \in Good /\ s.at = "send.lock" /\ s.link # "live"
  BY Calling1, LevelOf, OptionsKnown
     DEF Links, EnsurePlaces, PreparePlaces, ReadPlaces, SendPlaces, Counting, Connecting
<1>2. /\ Level(e.at) = 1 /\ Level(p.at) = 6 /\ Level(r.at) = 2 /\ Level(s.at) = 3
      /\ Reach(p.at) = 1 /\ Reach(r.at) = 1
      /\ e.at \notin Connecting /\ s.at \notin Connecting
  BY <1>1, LevelOf DEF EnsurePlaces, PreparePlaces, ReadPlaces, SendPlaces, Reach, Connecting
<1>3. ASSUME NEW q \in Roots["command"]
      PROVE  Frame(q, None) \in Good /\ Frame(q, None).at = q /\ Frame(q, None).link # "live"
  BY PlacesKnown, FrameGood, LevelOf, OptionsKnown DEF Links, Connecting
<1> HIDE DEF e, p, r, s
<1>4. ASSUME NEW f \in {p, r}, NEW q \in Roots["command"], Reach(q) >= Level(f.at),
             Operations[o] = <<e, f>> \o <<Frame(q, None)>>
      PROVE  /\ Fits("command", Operations[o]) /\ Operations[o] # <<>>
             /\ Head(Operations[o]).at \notin Connecting /\ ~HasLive(Operations[o])
  <2> DEFINE g == Frame(q, None)
             c == <<e, f, g>>
  <2>1. /\ e \in Good /\ f \in Good /\ g \in Good /\ g.at = q
        /\ e.link # "live" /\ f.link # "live" /\ g.link # "live"
    BY <1>1, <1>3, <1>4
  <2>2. Level(e.at) <= Reach(f.at) /\ Level(f.at) <= Reach(g.at)
    BY <1>2, <1>4, <2>1, Levels
  <2>3. Operations[o] = <<e, f>> \o <<g>>
    BY <1>4
  <2> HIDE DEF g
  <2>4. /\ c \in Seq(Good) /\ c # <<>> /\ Len(c) = 3 /\ c[1] = e /\ c[3] = g
        /\ c = <<e, f>> \o <<g>> /\ Nested(c) /\ ~HasLive(c)
    BY <2>1, <2>2, Triples
  <2> HIDE DEF c
  <2>5. Rooted("command", c)
    BY <2>1, <2>4 DEF Rooted
  <2> QED BY <1>2, <2>3, <2>4, <2>5 DEF Fits
<1>5. CASE o = "prepare"
  <2>1. Operations[o] = <<e, p>> \o <<Frame("command.prepare", None)>>
    BY <1>5 DEF Operations, PrepareCall, e, p
  <2>2. "command.prepare" \in Roots["command"] /\ Reach("command.prepare") >= Level(p.at)
    BY <1>2 DEF Roots, Reach
  <2> QED BY <1>4, <2>1, <2>2
<1>6. CASE o = "sync"
  <2>1. Operations[o] = <<e, p>> \o <<Frame("sync.prepare", None)>>
    BY <1>6 DEF Operations, PrepareCall, e, p
  <2>2. "sync.prepare" \in Roots["command"] /\ Reach("sync.prepare") >= Level(p.at)
    BY <1>2 DEF Roots, Reach
  <2> QED BY <1>4, <2>1, <2>2
<1>7. CASE o = "read"
  <2>1. Operations[o] = <<e, r>> \o <<Frame("command.read", None)>>
    BY <1>7 DEF Operations, ReadCall, e, r
  <2>2. "command.read" \in Roots["command"] /\ Reach("command.read") >= Level(r.at)
    BY <1>2 DEF Roots, Reach
  <2> QED BY <1>4, <2>1, <2>2
<1>8. CASE o = "send"
  <2> DEFINE f == Frame("command.send", None)
             c == <<s, f>>
  <2>1. Operations[o] = c
    BY <1>8 DEF Operations, s
  <2>2. "command.send" \in Roots["command"] /\ Reach("command.send") = 3
    BY DEF Roots, Reach
  <2>3. f \in Good /\ f.at = "command.send" /\ f.link # "live"
    BY <1>3, <2>2
  <2> HIDE DEF f
  <2>4. /\ c \in Seq(Good) /\ c # <<>> /\ Len(c) = 2 /\ c[1] = s /\ c[2] = f
        /\ Nested(c) /\ ~HasLive(c)
    <3>1. Level(s.at) <= Reach(f.at)
      BY <1>2, <2>2, <2>3
    <3> QED BY <1>1, <2>3, <3>1, Pairs
  <2> HIDE DEF c
  <2>5. Rooted("command", c)
    BY <2>2, <2>3, <2>4 DEF Rooted
  <2> QED BY <1>2, <2>1, <2>4, <2>5 DEF Fits
<1> QED BY <1>5, <1>6, <1>7, <1>8

LEMMA StartsFit ==
  ASSUME NEW s \in Starts
  PROVE  Fits("command", s) /\ s # <<>> /\ Head(s).at \notin Connecting /\ ~HasLive(s)
<1>1. CASE \E o \in Active \ {"stop"} : s = Operations[o]
  BY <1>1, OperationsFit, OptionsKnown
<1>2. CASE s = <<Frame("sync.lock", None)>>
  <2> DEFINE f == Frame("sync.lock", None)
  <2>1. "sync.lock" \in Roots["command"]
    BY DEF Roots
  <2>2. f \in Good /\ f.at = "sync.lock" /\ f.link # "live" /\ f.at \notin Connecting
    BY <2>1, PlacesKnown, FrameGood, LevelOf, OptionsKnown DEF Links, Connecting
  <2>3. s = <<f>>
    BY <1>2
  <2> HIDE DEF f
  <2>4. /\ s \in Seq(Good) /\ s # <<>> /\ Len(s) = 1 /\ s[1] = f
        /\ Nested(s) /\ ~HasLive(s) /\ Head(s) = f
    BY <2>2, <2>3, Singles
  <2> QED BY <2>1, <2>2, <2>4 DEF Fits, Rooted
<1> QED BY <1>1, <1>2 DEF Starts

LEMMA CommandBeginsFine ==
  ASSUME IInv, CommandBegins
  PROVE  Goes("command") /\ Fades
<1> DEFINE t == "command"
<1>1. PICK r \in Starts : stack' = [stack EXCEPT ![t] = r]
  BY DEF CommandBegins
<1>2. Fits(t, r) /\ r # <<>> /\ Head(r).at \notin Connecting /\ ~HasLive(r)
  BY StartsFit
<1>3. stack \in [Tasks -> Seq(Good)]
  BY Stacked
<1>4. /\ stack' \in [Tasks -> Seq(Good)] /\ stack'[t] = r
      /\ \A u \in Tasks \ {t} : stack'[u] = stack[u]
  BY <1>1, <1>2, <1>3 DEF Fits
<1>5. Connects(t)
  BY <1>2, <1>4 DEF Connects, InConnect, Top
<1>6. Leaves(t) /\ Apart(t)
  BY <1>4 DEF Leaves, Apart
<1>7. UNCHANGED <<options, link, life>> /\ turn' = t /\ res' = "ok"
  BY DEF CommandBegins
<1>8. Turns' /\ warm' \in BOOLEAN /\ (warm => warm') /\ UNCHANGED <<options, stopping>>
  BY <1>2, <1>4, <1>7 DEF Turns, Results, life, IInv, Flags
<1> QED BY <1>2, <1>4, <1>5, <1>6, <1>7, <1>8, FadesNotAtAll DEF Goes

(* Only a command is cancelled before the latch is closed.                 *)
LEMMA UnwindsFine ==
  ASSUME IInv, NEW t \in Tasks, t = "command" \/ stopping, Unwinds(t)
  PROVE  Goes(t) /\ Fades
<1>1. stack[t] # <<>> /\ UNCHANGED <<options, life>> /\ broken' \in BOOLEAN /\ sess' \in BOOLEAN
  BY DEF Unwinds, IInv, Flags
<1>2. CASE /\ Top(t).at = "ensure.notify" /\ client' = None /\ Closing(Top(t).link)
           /\ To(t, Frame("ensure.cancel", None))
  <2>1. Level(Top(t).at) = 1 /\ InConnect(t)
    BY <1>1, <1>2, LevelOf DEF EnsurePlaces, Connecting, InConnect
  <2>2. Follows(t, Frame("ensure.cancel", None)) /\ Frame("ensure.cancel", None).at = "ensure.cancel"
    BY <2>1, Following, LevelOf, OptionsKnown DEF Links, EnsurePlaces, Connecting
  <2>3. Goes(t)
    BY <1>1, <1>2, <2>1, <2>2, GoesTo
  <2> QED BY <1>1, <1>2, <2>3, FadesClosing
<1>3. CASE Ends(t) /\ UNCHANGED <<client, radio>>
  BY <1>1, <1>3, GoesOut, FadesNot
<1> QED BY <1>2, <1>3 DEF Unwinds

LEMMA CancelEndsFine ==
  ASSUME IInv, NEW t \in Tasks, CancelEnds(t)
  PROVE  Goes(t) /\ Fades
<1>1. /\ stack[t] # <<>> /\ Top(t).at = "ensure.cancel" /\ InConnect(t)
      /\ UNCHANGED <<options, link, life>> /\ Ends(t)
  BY Attends DEF CancelEnds, InConnect, Connecting
<1>2. t = "command" \/ stopping
  BY <1>1 DEF IInv, HoldInv
<1>3. Goes(t)
  BY <1>1, <1>2, GoesOut
<1> QED BY <1>1, <1>3, FadesNotAtAll

LEMMA YieldsFine ==
  ASSUME IInv, NEW t \in Tasks, Yields(t)
  PROVE  Goes(t) /\ Fades
<1>1. turn = t /\ turn' = None /\ UNCHANGED <<options, stack, res, link, life>>
  BY DEF Yields
<1>2. stack[t] # <<>> /\ res \in Results
  BY <1>1, OptionsKnown DEF IInv, Turns
<1>3. Fits(t, stack[t]) /\ stack \in [Tasks -> Seq(Good)]
  BY Stacked
<1>4. Apart(t) /\ Leaves(t)
  BY <1>1, <1>2 DEF Apart, Leaves
<1>5. ~InConnect(t)
  <2>1. PICK k \in Locks : Top(t).at \in Waits[k]
    BY DEF Yields
  <2>2. k \in {"connection", "init", "clock", "command"}
    BY <2>1 DEF Locks, Scope
  <2>3. Waits[k] \cap Connecting = {}
    BY <2>2 DEF Waits, Connecting
  <2> QED BY <2>1, <2>3 DEF InConnect
<1>6. Connects(t)
  BY <1>1, <1>5 DEF Connects, InConnect, Top
<1>7. Turns' /\ warm' \in BOOLEAN /\ (warm => warm') /\ UNCHANGED <<options, stopping>>
  BY <1>1, <1>2 DEF Turns, Results, life, IInv, Flags
<1> QED BY <1>1, <1>2, <1>3, <1>4, <1>6, <1>7, FadesNotAtAll DEF Goes

LEMMA NewTop ==
  ASSUME NEW t \in Tasks, stack \in [Tasks -> Seq(Good)], NEW f \in Good, To(t, f), stack[t] # <<>>
  PROVE  stack'[t] # <<>> /\ Top(t)' = f
<1> DEFINE c == <<f>>
           r == c \o Tail(stack[t])
<1>1. c \in Seq(Good) /\ Len(c) = 1 /\ c[1] = f /\ Tail(stack[t]) \in Seq(Good)
  BY Singles, HeadTailProperties
<1>2. stack'[t] = r
  BY DEF To
<1> HIDE DEF c
<1>3. r \in Seq(Good) /\ Len(r) >= 1 /\ r[1] = f
  <2> DEFINE d == Tail(stack[t])
  <2>1. d \in Seq(Good) /\ Len(d) \in Nat
    BY <1>1
  <2> HIDE DEF d
  <2>2. /\ c \o d \in Seq(Good) /\ Len(c \o d) = Len(c) + Len(d)
        /\ \A i \in 1 .. Len(c) + Len(d) :
             (c \o d)[i] = IF i <= Len(c) THEN c[i] ELSE d[i - Len(c)]
    BY <1>1, <2>1, ConcatProperties
  <2>3. (c \o d)[1] = f /\ Len(c \o d) >= 1
    BY <1>1, <2>1, <2>2
  <2> QED BY <2>1, <2>2, <2>3 DEF d
<1> HIDE DEF r
<1> QED BY <1>2, <1>3 DEF Top

LEMMA StopFine ==
  ASSUME IInv, Stop
  PROVE  IInv'
<1> DEFINE t == "stop"
<1>1. stack[t] # <<>> /\ stopping
  BY DEF Stop, StopCancels, StopGoesOn, StopDrops, StopEnds, Awaits, IInv, StopInv
<1>2. CASE StopCancels
  <2>1. Unwinds("supervisor") \/ Unwinds("connect")
    BY <1>2 DEF StopCancels
  <2> QED BY <1>1, <2>1, UnwindsFine, Kept
<1>3. ASSUME NEW p \in {"stop.connect", "stop.notify", "stop.drop"}, To(t, Frame(p, None)),
             Top(t).at \in Roots[t], UNCHANGED <<options, life>>
      PROVE  Goes(t) /\ stack'[t] # <<>> /\ Top(t)'.at = p
  <2>1. Level(Top(t).at) = 7 /\ p \in Roots[t]
    BY <1>3, LevelOf DEF Roots
  <2>2. Follows(t, Frame(p, None)) /\ Frame(p, None).at = p /\ p \notin Connecting
    BY <2>1, Following, LevelOf, OptionsKnown DEF Links, Connecting
  <2>3. stack'[t] # <<>> /\ Top(t)' = Frame(p, None)
    BY <1>1, <1>3, <2>2, Stacked, NewTop DEF Follows
  <2> QED BY <1>1, <1>3, <2>2, <2>3, GoesTo
<1>4. CASE StopGoesOn
  <2>1. /\ Top(t).at \in Roots[t] /\ UNCHANGED <<options, link, life>>
        /\ \E p \in {"stop.connect", "stop.notify"} : To(t, Frame(p, None))
    BY <1>4 DEF StopGoesOn, Awaits, Roots
  <2>2. Goes(t) /\ stack'[t] # <<>> /\ Top(t)'.at # "stop.drop"
    BY <1>3, <2>1
  <2> QED BY <1>1, <2>1, <2>2, FadesNotAtAll, Kept
<1>5. CASE StopDrops
  <2>1. /\ Top(t).at \in Roots[t] /\ UNCHANGED <<options, life>>
        /\ Forgets /\ broken' = broken /\ To(t, Frame("stop.drop", None))
    BY <1>5 DEF StopDrops, Awaits, Roots
  <2>2. Goes(t)
    BY <1>3, <2>1
  <2>3. Fades /\ client' = None
    BY <2>1, FadesForgotten DEF IInv, Flags, Forgets
  <2> QED BY <1>1, <2>2, <2>3, Kept
<1>6. CASE StopEnds
  <2>1. Ends(t) /\ UNCHANGED <<options, link, life>> /\ Top(t).at = "stop.drop"
    BY <1>6 DEF StopEnds, Awaits
  <2>2. client' = None
    BY <1>1, <2>1 DEF IInv, StopInv, link
  <2>3. Goes(t)
    BY <1>1, <2>1, GoesOut
  <2> QED BY <1>1, <2>1, <2>2, <2>3, FadesNotAtAll, Kept
<1> QED BY <1>2, <1>4, <1>5, <1>6 DEF Stop

LEMMA StopBeginsFine ==
  ASSUME IInv, StopBegins
  PROVE  IInv'
<1> DEFINE f == Frame("stop.supervisor", None)
<1>1. /\ f \in Good /\ f.at = "stop.supervisor" /\ f.link # "live"
      /\ "stop.supervisor" \in Roots["stop"] /\ "stop.supervisor" \notin Connecting
  <2>1. "stop.supervisor" \in Roots["stop"]
    BY DEF Roots
  <2> QED BY <2>1, PlacesKnown, FrameGood, LevelOf, OptionsKnown DEF Links, Connecting
<1>2. /\ turn = None /\ ~stopping /\ stopping' = TRUE /\ warm' = FALSE
      /\ stack' = [stack EXCEPT !["stop"] = <<f>>]
      /\ UNCHANGED <<options, turn, res, link>>
  BY DEF StopBegins
<1> HIDE DEF f
<1>3. /\ <<f>> \in Seq(Good) /\ <<f>> # <<>> /\ Len(<<f>>) = 1 /\ <<f>>[1] = f
      /\ Nested(<<f>>) /\ ~HasLive(<<f>>) /\ Head(<<f>>) = f
  BY <1>1, Singles
<1>4. Fits("stop", <<f>>)
  BY <1>1, <1>3 DEF Fits, Rooted
<1>5. stack \in [Tasks -> Seq(Good)] /\ \A u \in Tasks : Fits(u, stack[u])
  BY DEF IInv, Shape
<1>6. /\ stack' \in [Tasks -> Seq(Good)] /\ stack'["stop"] = <<f>>
      /\ \A u \in Tasks \ {"stop"} : stack'[u] = stack[u]
  BY <1>2, <1>3, <1>5
<1>7. Shape'
  BY <1>4, <1>5, <1>6 DEF Shape
<1>8. Turns' /\ Options' /\ Flags'
  BY <1>2, OptionsKnown DEF IInv, Turns, Options, Flags, options, link
<1>9. Top("stop")' = f
  BY <1>3, <1>6 DEF Top
<1>10. ASSUME NEW u \in Tasks, InConnect(u)'
       PROVE  u # "stop" /\ InConnect(u) /\ Top(u)' = Top(u)
  <2>1. u # "stop"
    BY <1>1, <1>9, <1>10 DEF InConnect
  <2> QED BY <2>1, <1>6, <1>10 DEF InConnect, Top
<1>11. client' = client /\ radio' = radio
  BY <1>2 DEF link
<1>12. LinkInv'
  <2>1. LinkTypes' /\ NoStrandedLink'
    BY <1>11 DEF IInv, LinkInv, LinkTypes, NoStrandedLink
  <2>2. LiveInv'
    BY <1>3, <1>6, <1>11 DEF IInv, LinkInv, LiveInv
  <2>3. Alone'
    BY <1>10 DEF IInv, LinkInv, Alone
  <2>4. NotifyInv'
    <3> SUFFICES ASSUME NEW u \in Tasks, stack'[u] # <<>>, Top(u)'.at = "ensure.notify",
                        Top(u)'.link = "gone"
                 PROVE  client' = None /\ radio' = "down"
      BY DEF NotifyInv
    <3>1. InConnect(u)'
      BY DEF InConnect, Connecting
    <3> QED BY <3>1, <1>10, <1>11 DEF IInv, LinkInv, NotifyInv, InConnect
  <2> QED BY <2>1, <2>2, <2>3, <2>4 DEF LinkInv
<1>13. StopInv'
  BY <1>1, <1>2, <1>3, <1>6, <1>9 DEF StopInv
<1>14. HoldInv'
  BY <1>2 DEF HoldInv, HoldSupervised
<1> QED BY <1>7, <1>8, <1>12, <1>13, <1>14 DEF IInv

LEMMA IdleDeadlineFine ==
  ASSUME IInv, IdleDeadline
  PROVE  IInv'
<1>1. /\ ~hold /\ warm' = FALSE /\ stack' = stack /\ turn' = turn /\ res' = res
      /\ client' = client /\ radio' = radio /\ broken' = broken /\ sess' = sess
      /\ hold' = hold /\ profile' = profile /\ stopping' = stopping
  BY DEF IdleDeadline, options, tasks, link
<1>2. \A u \in Tasks : Top(u)' = Top(u) /\ InConnect(u)' = InConnect(u)
  BY <1>1 DEF Top, InConnect
<1>3. Shape' /\ Turns' /\ Options' /\ Flags'
  BY <1>1 DEF IInv, Shape, Turns, Options, Flags
<1>4. LinkInv'
  BY <1>1, <1>2 DEF IInv, LinkInv, LinkTypes, LiveInv, Alone, NotifyInv, NoStrandedLink
<1>5. StopInv'
  BY <1>1, <1>2 DEF IInv, StopInv
<1>6. HoldInv'
  BY <1>1, <1>2 DEF IInv, HoldInv, HoldSupervised
<1> QED BY <1>3, <1>4, <1>5, <1>6 DEF IInv

(* A link that goes down takes the frames along that work on it.           *)
LEMMA LostFrames ==
  ASSUME IInv, NEW t \in Tasks
  PROVE  /\ Fits(t, Lost[t]) /\ ~HasLive(Lost[t])
         /\ Lost[t] = <<>> <=> stack[t] = <<>>
         /\ stack[t] # <<>> => Head(Lost[t]).at = Top(t).at
<1>1. /\ Fits(t, stack[t]) /\ stack[t] \in Seq(Good)
  BY Stacked DEF Fits
<1> DEFINE s == stack[t]
           g(f) == IF f.link = "live" THEN [f EXCEPT !.link = "gone"] ELSE f
           r == Lost[t]
<1>2. r = [i \in DOMAIN s |-> g(s[i])]
  BY DEF Lost
<1>3. /\ Len(s) \in Nat /\ DOMAIN s = 1 .. Len(s)
      /\ \A i \in 1 .. Len(s) : s[i] \in Good
  BY <1>1
<1>4. ASSUME NEW f \in Good
      PROVE  g(f) \in Good /\ g(f).at = f.at /\ g(f).link # "live"
  BY OptionsKnown DEF Good, Frames
<1> HIDE DEF g
<1>5. /\ r \in [1 .. Len(s) -> Good] /\ \A i \in 1 .. Len(s) : r[i] = g(s[i])
  BY <1>2, <1>3, <1>4
<1> HIDE DEF r
<1>6. /\ r \in Seq(Good) /\ Len(r) = Len(s) /\ DOMAIN r = 1 .. Len(s)
  BY <1>3, <1>5
<1>7. \A i \in 1 .. Len(s) : r[i].at = s[i].at /\ r[i].link # "live"
  BY <1>3, <1>4, <1>5
<1>8. r = <<>> <=> s = <<>>
  BY <1>1, <1>6, EmptySeq
<1>9. Fits(t, r)
  <2>1. Nested(r)
    BY <1>1, <1>3, <1>6, <1>7 DEF Fits, Nested
  <2>2. s # <<>> => Len(s) \in 1 .. Len(s)
    BY <1>1, <1>3, EmptySeq
  <2>3. Rooted(t, r)
    BY <1>1, <1>6, <1>7, <1>8, <2>2 DEF Fits, Rooted
  <2> QED BY <1>6, <2>1, <2>3 DEF Fits
<1>10. ~HasLive(r)
  BY <1>6, <1>7 DEF HasLive
<1>11. ASSUME s # <<>> PROVE Head(r).at = Top(t).at
  <2>1. 1 \in 1 .. Len(s) /\ Head(s) = s[1] /\ Head(r) = r[1]
    BY <1>1, <1>3, <1>6, <1>8, <1>11, EmptySeq, HeadTailProperties
  <2> QED BY <2>1, <1>7 DEF Top
<1> QED BY <1>8, <1>9, <1>10, <1>11 DEF r

LEMMA LinkDownFine ==
  ASSUME IInv, LinkDown
  PROVE  IInv'
<1>1. /\ turn = None /\ radio' = "down" /\ client' = None
      /\ broken' = broken /\ turn' = turn /\ res' = res /\ stopping' = stopping
      /\ hold' = hold /\ profile' = profile /\ sess' \in BOOLEAN
  BY DEF LinkDown, options, IInv, Flags
<1> DEFINE lost == Lost
<1>2. /\ lost = [u \in Tasks |-> Lost[u]]
      /\ \A u \in Tasks : /\ Fits(u, lost[u]) /\ ~HasLive(lost[u])
                          /\ lost[u] = <<>> <=> stack[u] = <<>>
                          /\ stack[u] # <<>> => Head(lost[u]).at = Top(u).at
  <2>1. lost = [u \in Tasks |-> Lost[u]]
    BY DEF Lost
  <2> QED BY <2>1, LostFrames
<1>3. \/ stack' = lost /\ warm' = warm /\ ~(hold /\ ~stopping /\ client = "live")
      \/ stack' = lost /\ warm' = warm /\ client = None
      \/ stack' = Pinged(lost) /\ warm' = (warm \/ stack["supervisor"] = <<>>)
  BY DEF LinkDown
<1> HIDE DEF lost
<1>4. lost \in [Tasks -> Seq(Good)]
  <2>1. \A u \in Tasks : Lost[u] \in Seq(Good)
    BY LostFrames DEF Fits
  <2> QED BY <1>2, <2>1
<1> DEFINE p == <<Frame("loop.top", None)>>
<1>5. Fits("supervisor", p) /\ ~HasLive(p) /\ Head(p).at = "loop.top" /\ p # <<>> /\ p \in Seq(Good)
  BY PingedTop DEF Fits
<1>6. \/ stack' = lost /\ warm' = warm
      \/ /\ lost["supervisor"] = <<>> /\ warm' = TRUE
         /\ stack' = [lost EXCEPT !["supervisor"] = p]
  BY <1>2, <1>3 DEF Pinged, IInv, Flags
<1> HIDE DEF p
<1>7. stack' \in [Tasks -> Seq(Good)]
  BY <1>4, <1>5, <1>6
<1>8. ASSUME NEW u \in Tasks
      PROVE  /\ Fits(u, stack'[u]) /\ ~HasLive(stack'[u])
             /\ stack[u] # <<>> => stack'[u] # <<>> /\ Top(u)'.at = Top(u).at
             /\ stack[u] = <<>> => \/ stack'[u] = <<>>
                                   \/ u = "supervisor" /\ Top(u)'.at = "loop.top" /\ warm'
  <2>1. CASE stack'[u] = lost[u]
    BY <1>2, <2>1 DEF Top
  <2>2. CASE stack'[u] # lost[u]
    <3>1. u = "supervisor" /\ lost[u] = <<>> /\ warm' = TRUE /\ stack'[u] = p
      BY <1>4, <1>6, <2>2
    <3> QED BY <1>2, <1>5, <3>1 DEF Top
  <2> QED BY <2>1, <2>2
<1>9. Shape' /\ Turns' /\ Options' /\ Flags'
  <2>1. Shape'
    BY <1>7, <1>8 DEF Shape
  <2>2. Turns'
    BY <1>1, OptionsKnown DEF IInv, Turns
  <2>3. warm' \in BOOLEAN
    BY <1>6 DEF IInv, Flags
  <2> QED BY <1>1, <2>1, <2>2, <2>3 DEF IInv, Options, Flags
<1>10. ASSUME NEW u \in Tasks, InConnect(u)'
       PROVE  InConnect(u) /\ Top(u)'.at = Top(u).at
  BY <1>8, <1>10 DEF InConnect, Connecting
<1>11. LinkInv'
  <2>1. LinkTypes' /\ NotifyInv' /\ NoStrandedLink'
    BY <1>1, OptionsKnown DEF LinkTypes, NotifyInv, NoStrandedLink
  <2>2. LiveInv'
    BY <1>8 DEF LiveInv
  <2>3. Alone'
    BY <1>10 DEF IInv, LinkInv, Alone
  <2> QED BY <2>1, <2>2, <2>3 DEF LinkInv
<1>12. StopInv'
  BY <1>1, <1>8 DEF IInv, StopInv
<1>13. HoldInv'
  <2>1. HoldSupervised'
    BY <1>1, <1>8 DEF IInv, HoldInv, HoldSupervised
  <2>2. warm => warm'
    BY <1>6
  <2>3. hold' /\ ~stopping' /\ stack'["supervisor"] # <<>> => warm'
    BY <1>1, <1>8, <2>2 DEF IInv, HoldInv
  <2>4. ASSUME NEW u \in Tasks \ {"command"}, InConnect(u)', Top(u)'.at = "ensure.cancel"
        PROVE  stopping'
    BY <1>1, <1>10, <2>4 DEF IInv, HoldInv
  <2> QED BY <2>1, <2>3, <2>4 DEF HoldInv
<1> QED BY <1>9, <1>11, <1>12, <1>13 DEF IInv

-----------------------------------------------------------------------------
(* The invariant.                                                          *)
LEMMA InitialInv == Init => IInv
<1> SUFFICES ASSUME Init PROVE IInv
  OBVIOUS
<1> DEFINE e == Frame("ensure.lock", None)
           f == Frame("connect.ensure", None)
           s == <<e, f>>
<1>1. /\ e \in Good /\ e.at = "ensure.lock" /\ e.link # "live" /\ Level(e.at) = 1
      /\ f \in Good /\ f.at = "connect.ensure" /\ f.link # "live" /\ Reach(f.at) = 1
      /\ f.at \in Roots["connect"]
  <2>1. "connect.ensure" \in Roots["connect"]
    BY DEF Roots
  <2>2. /\ e \in Good /\ e.at = "ensure.lock" /\ e.link # "live" /\ Level(e.at) = 1
    BY Calling1, LevelOf, OptionsKnown DEF Links, EnsurePlaces, Connecting
  <2>3. /\ f \in Good /\ f.at = "connect.ensure" /\ f.link # "live"
    BY <2>1, PlacesKnown, FrameGood, LevelOf, OptionsKnown DEF Links, Connecting
  <2> QED BY <2>1, <2>2, <2>3 DEF Reach
<1>2. stack = [t \in Tasks |-> IF t = "connect" THEN s ELSE <<>>]
  BY DEF Init, ConnectCall
<1> HIDE DEF e, f
<1>3. /\ s \in Seq(Good) /\ s # <<>> /\ Len(s) = 2 /\ s[1] = e /\ s[2] = f
      /\ Nested(s) /\ ~HasLive(s) /\ Head(s) = e
  <2>1. e \in Good /\ f \in Good /\ Level(e.at) <= Reach(f.at)
    BY <1>1
  <2>2. /\ s \in Seq(Good) /\ s # <<>> /\ Len(s) = 2 /\ s[1] = e /\ s[2] = f /\ Nested(s)
        /\ HasLive(s) => e.link = "live" \/ f.link = "live"
    BY <2>1, Pairs
  <2>3. Head(s) = e
    BY <2>2, HeadTailProperties
  <2> QED BY <2>2, <2>3, <1>1
<1> HIDE DEF s
<1>4. Fits("connect", s)
  BY <1>1, <1>3 DEF Fits, Rooted
<1>5. ASSUME NEW t \in Tasks PROVE Fits(t, <<>>) /\ ~HasLive(<<>>)
  BY DEF Fits, Nested, Rooted, HasLive
<1>6. ASSUME NEW t \in Tasks
      PROVE  /\ Fits(t, stack[t]) /\ ~HasLive(stack[t]) /\ ~InConnect(t)
             /\ t # "connect" => stack[t] = <<>>
             /\ stack["connect"] # <<>>
  <2>1. CASE t = "connect"
    <3>1. stack[t] = s /\ Top(t) = e
      BY <1>2, <1>3, <2>1 DEF Top
    <3> QED BY <2>1, <3>1, <1>1, <1>3, <1>4 DEF InConnect, Connecting
  <2>2. CASE t # "connect"
    <3>1. stack[t] = <<>> /\ stack["connect"] = s
      BY <1>2, <2>2
    <3> QED BY <3>1, <1>3, <1>5 DEF InConnect
  <2> QED BY <2>1, <2>2
<1>7. Shape
  <2>1. \A t \in Tasks : stack[t] \in Seq(Good)
    BY <1>6 DEF Fits
  <2> QED BY <1>2, <1>6, <2>1 DEF Shape
<1>8. Turns /\ Options /\ Flags
  BY DEF Init, Turns, Options, Flags, Results
<1>9. LinkInv
  <2>1. LinkTypes /\ NoStrandedLink
    BY OptionsKnown DEF Init, LinkTypes, NoStrandedLink
  <2>2. LiveInv /\ Alone
    BY <1>6 DEF LiveInv, Alone
  <2>3. NotifyInv
    BY DEF Init, NotifyInv
  <2> QED BY <2>1, <2>2, <2>3 DEF LinkInv
<1>10. StopInv
  BY <1>6 DEF Init, StopInv
<1>11. HoldInv
  BY <1>6 DEF Init, HoldInv, HoldSupervised
<1> QED BY <1>7, <1>8, <1>9, <1>10, <1>11 DEF IInv

LEMMA Inductive == IInv /\ [Next]_vars => IInv'
<1> SUFFICES ASSUME IInv, [Next]_vars PROVE IInv'
  OBVIOUS
<1>1. ASSUME NEW t \in Tasks \ {"stop"}, Calling(t) PROVE IInv'
  <2>1. CASE EnsureConnects(t)
    BY <2>1, EnsureConnectsFine
  <2>2. CASE EnsureBegins(t) \/ InitBegins(t) \/ ClockBegins(t) \/ ZoneBegins(t) \/ SendBegins(t)
             \/ Yields(t) \/ CancelEnds(t)
    BY <2>2, EnsureBeginsFine, InitFine, CallbackFine, SendFine, YieldsFine, CancelEndsFine, Kept
  <2>3. CASE EnsureStale(t) \/ EnsureFails(t) \/ EnsureSubscribed(t) \/ EnsureAborts(t)
             \/ EnsureReleased(t)
    BY <2>3, EnsureStaleFine, EnsureFailsFine, EnsureSubscribedFine, EnsureAbortsFine,
       EnsureReleasedFine, Kept
  <2>4. CASE Transfer(t)
    BY <2>4, WriteFine, ReadFine, Kept DEF Transfer
  <2>5. CASE Initialize(t)
    BY <2>5, InitFine, CallbackFine, Kept DEF Initialize
  <2>6. CASE Send(t)
    BY <2>6, SendFine, Kept DEF Send
  <2> QED BY <1>1, <2>1, <2>2, <2>3, <2>4, <2>5, <2>6 DEF Calling, Ensure
<1>2. CASE Connect
  BY <1>2, ConnectFine, Kept
<1>3. CASE Supervise("supervisor")
  BY <1>3, SuperviseFine, Kept
<1>4. CASE Command("command")
  BY <1>4, CommandFine, Kept
<1>5. CASE Stop
  BY <1>5, StopFine
<1>6. CASE CommandBegins
  BY <1>6, CommandBeginsFine, Kept
<1>7. CASE CommandCancelled
  BY <1>7, UnwindsFine, Kept DEF CommandCancelled
<1>8. CASE StopBegins
  BY <1>8, StopBeginsFine
<1>9. CASE LinkDown
  BY <1>9, LinkDownFine
<1>10. CASE IdleDeadline
  BY <1>10, IdleDeadlineFine
<1>11. CASE UNCHANGED vars
  <2>1. /\ stack' = stack /\ turn' = turn /\ res' = res
        /\ client' = client /\ radio' = radio /\ broken' = broken /\ sess' = sess
        /\ hold' = hold /\ profile' = profile /\ warm' = warm /\ stopping' = stopping
    BY <1>11 DEF vars, options, tasks, link, life
  <2>2. \A u \in Tasks : Top(u)' = Top(u) /\ InConnect(u)' = InConnect(u)
    BY <2>1 DEF Top, InConnect
  <2>3. Shape' /\ Turns' /\ Options' /\ Flags'
    BY <2>1 DEF IInv, Shape, Turns, Options, Flags
  <2>4. LinkInv'
    BY <2>1, <2>2 DEF IInv, LinkInv, LinkTypes, LiveInv, Alone, NotifyInv, NoStrandedLink
  <2>5. StopInv' /\ HoldInv'
    BY <2>1, <2>2 DEF IInv, StopInv, HoldInv, HoldSupervised
  <2> QED BY <2>3, <2>4, <2>5 DEF IInv
<1> QED BY <1>1, <1>2, <1>3, <1>4, <1>5, <1>6, <1>7, <1>8, <1>9, <1>10, <1>11 DEF Next

(* The invariant of Client's tasks, locks and link holds in every reachable*)
(* state, for any options, retries, copies and operations.                 *)
THEOREM LinkInvariance == Spec => []IInv
BY InitialInv, Inductive, PTL DEF Spec

(* Stacks, results, link and flags of the Client keep their types; a count *)
(* of attempts stays within WriteRetries * Copies (send_now).              *)
THEOREM TypeCorrect == Spec => []TypeOK
<1>1. IInv => TypeOK
  <2> SUFFICES ASSUME IInv PROVE TypeOK
    OBVIOUS
  <2>1. stack \in [Tasks -> Seq(Frames)]
    <3>1. Good \subseteq Frames
      BY DEF Good
    <3>2. \A u \in Tasks : stack[u] \in Seq(Frames)
      BY <3>1, Stacked, SeqMonotonic
    <3> QED BY <3>2, Stacked
  <2> QED BY <2>1 DEF IInv, Turns, Results, Options, Flags, LinkInv, LinkTypes, TypeOK
<1> QED BY <1>1, LinkInvariance, PTL

(* A link that is up and was not told to close is the one the Client knows *)
(* (_ensure_client, _safe_disconnect), however its coming up ended.        *)
THEOREM LinkNeverStranded == Spec => []NoStrandedLink
<1>1. IInv => NoStrandedLink
  BY DEF IInv, LinkInv
<1> QED BY <1>1, LinkInvariance, PTL

(* Once stop() has returned the Client has no link and gets none any more. *)
THEOREM StopIsFinal == Spec => []StoppedForGood
<1>1. IInv => StoppedForGood
  BY DEF IInv, StopInv, StoppedForGood
<1> QED BY <1>1, LinkInvariance, PTL

(* A held link has its supervisor (_ping_loop) from the end of the first   *)
(* connect on, until the Client is stopped.                                *)
THEOREM HoldIsSupervised == Spec => []HoldSupervised
<1>1. IInv => HoldSupervised
  BY DEF IInv, HoldInv
<1> QED BY <1>1, LinkInvariance, PTL

-----------------------------------------------------------------------------
(* The order of the locks: a task waits only for locks of a lower rank than*)
(* those it holds.                                                         *)
Rank == [connection |-> 1, command |-> 3, clock |-> 4, init |-> 5]

LEMMA LockLevels ==
  ASSUME NEW k \in Locks
  PROVE  /\ Rank[k] \in {1, 3, 4, 5}
         /\ \A p \in Waits[k] : Rank[k] <= Level(p)
         /\ \A p \in Scope[k] : Reach(p) < Rank[k]
         /\ \A j \in Locks : Waits[k] \cap Scope[j] = {}
<1>1. k \in {"connection", "init", "clock", "command"}
  BY DEF Locks, Scope
<1>2. Rank[k] \in {1, 3, 4, 5}
  BY <1>1 DEF Rank
<1>5. ASSUME NEW j \in Locks PROVE Waits[k] \cap Scope[j] = {}
  <2>1. j \in {"connection", "init", "clock", "command"}
    BY DEF Locks, Scope
  <2>2. \A p \in Waits[k] : p \in {"ensure.lock", "init.lock", "clock.lock", "zone.lock", "sync.lock",
                                   "send.lock", "loop.lock", "loop.idle"}
    BY <1>1 DEF Waits
  <2>3. \A p \in Scope[j] : p \notin {"ensure.lock", "init.lock", "clock.lock", "zone.lock", "sync.lock",
                                      "send.lock", "loop.lock", "loop.idle"}
    BY <2>1 DEF Scope
  <2> QED BY <2>2, <2>3
<1>3. \A p \in Waits[k] : Rank[k] <= Level(p)
  <2>1. /\ Level("ensure.lock") = 1 /\ Level("init.lock") = 5 /\ Level("clock.lock") = 4
        /\ Level("zone.lock") = 4 /\ Level("sync.lock") = 7 /\ Level("send.lock") = 3
        /\ Level("loop.lock") = 7 /\ Level("loop.idle") = 7
    BY LevelOf DEF EnsurePlaces, InitPlaces, CallbackPlaces, SendPlaces, Roots
  <2> QED BY <1>1, <2>1 DEF Waits, Rank
<1>4. \A p \in Scope[k] : Reach(p) < Rank[k]
  <2>1. CASE k = "connection"
    BY <2>1 DEF Scope, Rank, Reach
  <2>2. CASE k = "init"
    BY <2>2 DEF Scope, Rank, Reach
  <2>3. CASE k = "clock"
    BY <2>3 DEF Scope, Rank, Reach
  <2>4. CASE k = "command"
    BY <2>4 DEF Scope, Rank, Reach
  <2> QED BY <1>1, <2>1, <2>2, <2>3, <2>4
<1> QED BY <1>2, <1>3, <1>4, <1>5

LEMMA LockOrder ==
  ASSUME IInv, NEW t \in Tasks, stack[t] # <<>>, NEW j \in Locks, Top(t).at \in Waits[j],
         NEW k \in Locks, HasLock(t, k)
  PROVE  Rank[j] < Rank[k]
<1>1. Fits(t, stack[t]) /\ Top(t) = stack[t][1] /\ DOMAIN stack[t] = 1 .. Len(stack[t])
      /\ Len(stack[t]) \in Nat \ {0}
  BY Stacked, Tops
<1>2. PICK i \in DOMAIN stack[t] : stack[t][i].at \in Scope[k]
  BY DEF HasLock
<1>3. Rank[j] <= Level(Top(t).at) /\ Reach(stack[t][i].at) < Rank[k]
  BY <1>2, LockLevels
<1>4. Rank[j] \in Nat /\ Rank[k] \in Nat
  BY LockLevels
<1>5. CASE i = 1
  <2>1. Top(t).at \in Scope[k]
    BY <1>1, <1>2, <1>5
  <2> QED BY <2>1, LockLevels
<1>6. CASE i # 1
  <2>1. Level(Top(t).at) <= Reach(stack[t][i].at)
    BY <1>1, <1>2, <1>6 DEF Fits, Nested
  <2> QED BY <1>3, <1>4, <2>1, Levels
<1> QED BY <1>5, <1>6

(* No tasks wait for each other in a circle: of the locks that keep one    *)
(* waiting for another, the holder of the lowest waits for a lower one.    *)
THEOREM NoCircle == Spec => []NoCircularWait
<1>1. IInv => NoCircularWait
  <2> SUFFICES ASSUME IInv, NEW S \in (SUBSET Waiting) \ {{}},
                      \A t \in S : \E u \in S : WaitsFor(t, u)
               PROVE  FALSE
    BY DEF NoCircularWait
  <2> DEFINE Between(k) == \E t \in S, u \in S : Top(t).at \in Waits[k] /\ HasLock(u, k)
             Awaited == {k \in Locks : Between(k)}
  <2>1. \A t \in S : t \in Tasks /\ stack[t] # <<>>
    BY DEF Waiting
  <2>2. ASSUME NEW t \in S
        PROVE  \E k \in Awaited : Top(t).at \in Waits[k]
    <3>1. PICK u \in S, k \in Locks : Top(t).at \in Waits[k] /\ HasLock(u, k)
      BY DEF WaitsFor
    <3> QED BY <3>1
  <2>3. ASSUME NEW k \in Awaited
        PROVE  \E j \in Awaited : Rank[j] < Rank[k]
    <3>1. PICK u \in S : HasLock(u, k)
      OBVIOUS
    <3>2. PICK j \in Awaited : Top(u).at \in Waits[j]
      BY <2>2
    <3>3. u \in Tasks /\ stack[u] # <<>> /\ j \in Locks /\ k \in Locks
      BY <2>1
    <3>4. Rank[j] < Rank[k]
      BY <3>1, <3>2, <3>3, LockOrder
    <3> QED BY <3>4
  <2>4. Awaited # {} /\ Awaited \subseteq Locks
    BY <2>2
  <2>5. \A k \in Awaited : Rank[k] \in {1, 3, 4, 5}
    BY <2>4, LockLevels
  <2> HIDE DEF Awaited
  <2> QED BY <2>3, <2>4, <2>5
<1> QED BY <1>1, LinkInvariance, PTL
=============================================================================
