--------------------------- MODULE ScheduleCodec ---------------------------
(***************************************************************************)
(* How a schedule travels to a fixture and back (core/protocol.py) and how *)
(* what comes back is compared with what was asked for (core/device.py):   *)
(* pure operators, no state.                                               *)
(*                                                                         *)
(* A time of day is its minute.  A value of the dashboard's or of the      *)
(* readback's JSON keeps its shape, because the code tells shapes apart:   *)
(* a service passes tuples, classic and FACEBD readback dicts, Plant Pro   *)
(* readback "HH:MM" texts (with the ramp under a key nobody compares).     *)
(* Channel levels are sequences.  A wire schedule is a record of the       *)
(* fields of its packet; framing, CBOR and the XOR checksum are left out.  *)
(***************************************************************************)
EXTENDS Integers, Sequences, FiniteSets

CONSTANTS Day,        \* minutes of a day: 1440
          MaxRamp,    \* the longest ramp, 240 minutes
          MaxLevel,   \* the highest channel level, 100
          Width,      \* channels of a schedule in Home Assistant: five
          MinPoints, MaxPoints,  \* by protocol, of a Professional schedule
          None

Protocols == {"classic", "facebd", "plant_pro"}

ASSUME DayAssumption == Day \in Nat \ {0}
ASSUME RampAssumption == MaxRamp \in Nat
ASSUME LevelAssumption == MaxLevel \in Nat
ASSUME WidthAssumption == Width \in Nat \ {0}
ASSUME PointsAssumption ==
  /\ DOMAIN MinPoints = Protocols /\ DOMAIN MaxPoints = Protocols
  /\ \A p \in Protocols : MinPoints[p] \in Nat /\ MaxPoints[p] \in Nat

Lower(a, b) == IF a < b THEN a ELSE b

-----------------------------------------------------------------------------
(* Shapes of times: sunrise and sunset with their ramp, sleep without.     *)
TimeRamp(shape, at, ramp) == [shape |-> shape, at |-> at, ramp |-> ramp]
Clock(shape, at) == [shape |-> shape, at |-> at]
NoClock == Clock("null", 0)

(* Only tuples and dicts are understood; anything else is no time at all.  *)
NormalizedTimeRamp(v) ==
  IF v.shape \in {"tuple", "dict"} THEN <<v.at, v.ramp>> ELSE <<>>

NormalizedClock(v) ==
  IF v.shape \in {"tuple", "dict"} THEN <<v.at>> ELSE <<>>

(* What the services' validators let through.                              *)
Levels == [1..Width -> 0..MaxLevel]
AutoRequests ==
  [sunrise : [shape : {"tuple"}, at : 0..(Day - 1), ramp : 0..MaxRamp],
   sunset : [shape : {"tuple"}, at : 0..(Day - 1), ramp : 0..MaxRamp],
   sleep : [shape : {"tuple"}, at : 0..(Day - 1)] \cup {NoClock},
   day : Levels, night : Levels]
ProRequests == Seq([at : 0..(Day - 1), levels : Levels])

(* A ramp that does not cross midnight.                                    *)
InsideDay(s) ==
  s.sunrise.at + s.sunrise.ramp < Day /\ s.sunset.ramp <= s.sunset.at

-----------------------------------------------------------------------------
(* Levels cut, or filled up with zeros, to the channels of the fixture.    *)
ClampRamp(r) == Lower(MaxRamp, r)

Fitted(levels, count) ==
  [i \in 1..count |-> IF i <= Len(levels) THEN Lower(MaxLevel, levels[i]) ELSE 0]

Cut(levels, count) == [i \in 1..Lower(count, Len(levels)) |-> levels[i]]

(* The Auto packet.  Classic and FACEBD fixtures are sent the minutes at   *)
(* which a ramp begins and ends, inside one day; Plant Pro the ramp.       *)
RampEnd(at, ramp) == Lower(Day - 1, at + ClampRamp(ramp))
RampStart(at, ramp) == IF at < ClampRamp(ramp) THEN 0 ELSE at - ClampRamp(ramp)

PlantProAuto(s) ==
  [sunrise |-> NormalizedTimeRamp(s.sunrise), sunset |-> NormalizedTimeRamp(s.sunset),
   sleep |-> NormalizedClock(s.sleep), day |-> s.day, night |-> s.night]

MinutesAuto(count, s) ==
  LET rise == NormalizedTimeRamp(s.sunrise)
      set == NormalizedTimeRamp(s.sunset) IN
  [sunrise |-> <<rise[1], RampEnd(rise[1], rise[2])>>,
   sunset |-> <<RampStart(set[1], set[2]), set[1]>>,
   sleep |-> NormalizedClock(s.sleep),
   day |-> Fitted(s.day, count), night |-> Fitted(s.night, count)]

AutoPacket(p, count, s) ==
  IF p = "plant_pro" THEN PlantProAuto(s) ELSE MinutesAuto(count, s)

DecodedClock(shape, c) == IF c = <<>> THEN NoClock ELSE Clock(shape, c[1])

(* mutant: the readback's sunset is the minute at which its ramp begins    *)
DecodedAutoSwapped(p, w) ==
  [sunrise |-> TimeRamp("dict", w.sunrise[1], w.sunrise[2] - w.sunrise[1]),
   sunset |-> TimeRamp("dict", w.sunset[1], w.sunset[2] - w.sunset[1]),
   sleep |-> DecodedClock("dict", w.sleep), day |-> w.day, night |-> w.night]

(* The Auto schedule as a status answer brings it back: in the shape of a *)
(* request, or from Plant Pro in texts.                                    *)
PlantProDecoded(w) ==
  [sunrise |-> TimeRamp("text", w.sunrise[1], 0),
   sunset |-> TimeRamp("text", w.sunset[1], 0),
   sleep |-> DecodedClock("text", w.sleep), day |-> w.day, night |-> w.night]

MinutesDecoded(w) ==
  [sunrise |-> TimeRamp("dict", w.sunrise[1], w.sunrise[2] - w.sunrise[1]),
   sunset |-> TimeRamp("dict", w.sunset[2], w.sunset[2] - w.sunset[1]),
   sleep |-> DecodedClock("dict", w.sleep), day |-> w.day, night |-> w.night]

DecodedAuto(p, w) ==
  IF p = "plant_pro" THEN PlantProDecoded(w) ELSE MinutesDecoded(w)

(* The first field of a request that a readback does not confirm.          *)
AutoMismatch(s, r, count) ==
  IF r = None THEN "schedule"
  ELSE IF NormalizedTimeRamp(s.sunrise) # NormalizedTimeRamp(r.sunrise) THEN "sunrise"
  ELSE IF NormalizedTimeRamp(s.sunset) # NormalizedTimeRamp(r.sunset) THEN "sunset"
  ELSE IF NormalizedClock(s.sleep) # NormalizedClock(r.sleep) THEN "sleep"
  ELSE IF Cut(s.day, count) # Cut(r.day, count) THEN "day_levels"
  ELSE IF Cut(s.night, count) # Cut(r.night, count) THEN "night_levels"
  ELSE "none"

-----------------------------------------------------------------------------
(* Professional points, sorted by their minute (points of one minute stay  *)
(* in the order they came) and with a level for every channel.             *)
CanonicalPoints(points) ==
  LET Ahead(i) == {j \in DOMAIN points :
                     \/ points[j].at < points[i].at
                     \/ points[j].at = points[i].at /\ j <= i}
      Ranked(k) == CHOOSE i \in DOMAIN points : Cardinality(Ahead(i)) = k IN
  [k \in DOMAIN points |->
     [at |-> points[Ranked(k)].at % Day, levels |-> Fitted(points[Ranked(k)].levels, Width)]]

PointCountValid(p, points) == Len(points) \in MinPoints[p]..MaxPoints[p]

(* A Plant Pro fixture is sent every channel of a schedule, the others     *)
(* those they have.                                                        *)
ProLevels(p, count, levels) == Fitted(levels, IF p = "plant_pro" THEN Width ELSE count)

ProPacket(p, count, points) ==
  [k \in DOMAIN points |->
     [at |-> points[k].at, levels |-> ProLevels(p, count, points[k].levels)]]

(* Minutes come back as numbers, from Plant Pro as texts: CanonicalPoints  *)
(* understands both, and the tuples of a service.                          *)
PointShape(p) == IF p = "plant_pro" THEN "text" ELSE "dict"

DecodedPro(p, w) ==
  [k \in DOMAIN w |-> [shape |-> PointShape(p), at |-> w[k].at, levels |-> w[k].levels]]

ProMismatch(points, r, count) ==
  IF /\ r # None
     /\ Len(points) = Len(r)
     /\ \A k \in DOMAIN points :
          /\ points[k].at = r[k].at
          /\ \A i \in 1..count : points[k].levels[i] = r[k].levels[i]
  THEN "none" ELSE "points"
=============================================================================
