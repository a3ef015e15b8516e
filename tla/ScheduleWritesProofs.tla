------------------------ MODULE ScheduleWritesProofs ------------------------
(***************************************************************************)
(* For a day, ramps and levels of any size and any number of channels:     *)
(* which schedules a fixture's own readback confirms, and that it confirms *)
(* no other.  For any schedules and any number of readbacks: that a write  *)
(* which was confirmed is held, that one which is held is not refused by a *)
(* current readback, and that what is captured is what was written.        *)
(***************************************************************************)
EXTENDS ScheduleWrites, SequenceTheorems, FiniteSetTheorems, FunctionTheorems, TLAPS

USE DayAssumption, RampAssumption, LevelAssumption, WidthAssumption

(* Levels survive the packet on the channels the fixture has.              *)
LEMMA LevelsSurvive ==
  ASSUME NEW levels \in Levels, NEW count \in 1..Width
  PROVE  Cut(Fitted(levels, count), count) = Cut(levels, count)
<1>1. levels \in Seq(0..MaxLevel) /\ Len(levels) = Width
  <2>1. levels \in Seq(0..MaxLevel)
    BY DEF Levels
  <2>2. DOMAIN levels = 1..Width
    BY DEF Levels
  <2> QED BY <2>1, <2>2
<1>2. \A i \in 1..count : Fitted(levels, count)[i] = levels[i]
  BY <1>1 DEF Fitted, Levels, Lower
<1>3. Fitted(levels, count) \in Seq(0..MaxLevel) /\ Len(Fitted(levels, count)) = count
  <2>1. Fitted(levels, count) \in [1..count -> 0..MaxLevel]
    BY <1>1 DEF Fitted, Levels, Lower
  <2>2. Fitted(levels, count) \in Seq(0..MaxLevel) /\ DOMAIN Fitted(levels, count) = 1..count
    BY <2>1
  <2> QED BY <2>2
<1>4. Lower(count, Len(levels)) = count /\ Lower(count, Len(Fitted(levels, count))) = count
  BY <1>1, <1>3 DEF Lower
<1> QED BY <1>2, <1>4 DEF Cut

(* The sunrise a classic or FACEBD fixture reads back: the ramp is what    *)
(* fits into the day after it begins.                                      *)
LEMMA SunriseBack ==
  ASSUME NEW s \in AutoRequests, NEW count \in 1..Width
  PROVE  NormalizedTimeRamp(MinutesDecoded(MinutesAuto(count, s)).sunrise) =
           <<s.sunrise.at, Lower(Day - 1 - s.sunrise.at, s.sunrise.ramp)>>
<1>1. /\ s.sunrise.shape = "tuple" /\ s.sunset.shape = "tuple"
      /\ s.sunrise.at \in 0..(Day - 1) /\ s.sunrise.ramp \in 0..MaxRamp
  BY DEF AutoRequests
<1>2. NormalizedTimeRamp(s.sunrise) = <<s.sunrise.at, s.sunrise.ramp>>
  BY <1>1 DEF NormalizedTimeRamp
<1>3. RampEnd(s.sunrise.at, s.sunrise.ramp) - s.sunrise.at =
        Lower(Day - 1 - s.sunrise.at, s.sunrise.ramp)
  BY <1>1 DEF RampEnd, ClampRamp, Lower
<1> QED BY <1>2, <1>3 DEF MinutesDecoded, MinutesAuto, NormalizedTimeRamp, TimeRamp

(* The sunset: the ramp is what fits into the day before it ends.          *)
LEMMA SunsetBack ==
  ASSUME NEW s \in AutoRequests, NEW count \in 1..Width
  PROVE  NormalizedTimeRamp(MinutesDecoded(MinutesAuto(count, s)).sunset) =
           <<s.sunset.at, Lower(s.sunset.at, s.sunset.ramp)>>
<1>1. /\ s.sunrise.shape = "tuple" /\ s.sunset.shape = "tuple"
      /\ s.sunset.at \in 0..(Day - 1) /\ s.sunset.ramp \in 0..MaxRamp
  BY DEF AutoRequests
<1>2. NormalizedTimeRamp(s.sunset) = <<s.sunset.at, s.sunset.ramp>>
  BY <1>1 DEF NormalizedTimeRamp
<1>3. s.sunset.at - RampStart(s.sunset.at, s.sunset.ramp) = Lower(s.sunset.at, s.sunset.ramp)
  BY <1>1 DEF RampStart, ClampRamp, Lower
<1> QED BY <1>2, <1>3 DEF MinutesDecoded, MinutesAuto, NormalizedTimeRamp, TimeRamp

LEMMA SleepBack ==
  ASSUME NEW s \in AutoRequests, NEW count \in 1..Width
  PROVE  NormalizedClock(MinutesDecoded(MinutesAuto(count, s)).sleep) = NormalizedClock(s.sleep)
<1>1. CASE s.sleep = NoClock
  BY <1>1 DEF MinutesDecoded, MinutesAuto, NormalizedClock, DecodedClock, NoClock, Clock
<1>2. CASE s.sleep \in [shape : {"tuple"}, at : 0..(Day - 1)]
  BY <1>2 DEF MinutesDecoded, MinutesAuto, NormalizedClock, DecodedClock, NoClock, Clock
<1> QED BY <1>1, <1>2 DEF AutoRequests

(* A classic or FACEBD fixture that stores an Auto schedule whose ramps    *)
(* lie inside the day reads back a schedule that confirms it: the encoder  *)
(* (old_auto_schedule_packet, wifi_auto_schedule_packet), the decoder and  *)
(* the comparison (_auto_schedule_mismatch) fit together.                  *)
THEOREM InsideDayConfirmed ==
  ASSUME NEW p \in Protocols \ {"plant_pro"}, NEW s \in AutoRequests, InsideDay(s),
         NEW count \in 1..Width,
         DecodedAuto(p, AutoPacket(p, count, s)) # None
  PROVE  AutoMismatch(s, DecodedAuto(p, AutoPacket(p, count, s)), count) = "none"
<1> DEFINE r == MinutesDecoded(MinutesAuto(count, s))
<1>1. DecodedAuto(p, AutoPacket(p, count, s)) = r
  BY DEF Protocols, DecodedAuto, AutoPacket
<1>2. /\ s.sunrise.shape = "tuple" /\ s.sunset.shape = "tuple"
      /\ s.sunrise.at \in Nat /\ s.sunrise.ramp \in Nat
      /\ s.sunset.at \in Nat /\ s.sunset.ramp \in Nat
      /\ s.day \in Levels /\ s.night \in Levels
  BY DEF AutoRequests
<1>3. NormalizedTimeRamp(s.sunrise) = NormalizedTimeRamp(r.sunrise)
  <2>1. Lower(Day - 1 - s.sunrise.at, s.sunrise.ramp) = s.sunrise.ramp
    BY <1>2 DEF InsideDay, Lower
  <2> QED BY <1>2, <2>1, SunriseBack DEF NormalizedTimeRamp
<1>4. NormalizedTimeRamp(s.sunset) = NormalizedTimeRamp(r.sunset)
  <2>1. Lower(s.sunset.at, s.sunset.ramp) = s.sunset.ramp
    BY <1>2 DEF InsideDay, Lower
  <2> QED BY <1>2, <2>1, SunsetBack DEF NormalizedTimeRamp
<1>5. NormalizedClock(s.sleep) = NormalizedClock(r.sleep)
  BY SleepBack
<1>6. Cut(s.day, count) = Cut(r.day, count) /\ Cut(s.night, count) = Cut(r.night, count)
  <2>1. r.day = Fitted(s.day, count) /\ r.night = Fitted(s.night, count)
    BY DEF MinutesDecoded, MinutesAuto
  <2> QED BY <1>2, <2>1, LevelsSurvive
<1> HIDE DEF r
<1> QED BY <1>1, <1>3, <1>4, <1>5, <1>6 DEF AutoMismatch

(* A sunrise whose ramp would end after midnight, or a sunset whose ramp   *)
(* would begin before it, is cut at midnight by the encoder (RampEnd,      *)
(* RampStart) and so never confirmed, however often it is written.         *)
THEOREM MidnightNeverConfirmed ==
  ASSUME NEW p \in Protocols \ {"plant_pro"}, NEW s \in AutoRequests, ~InsideDay(s),
         NEW count \in 1..Width
  PROVE  AutoMismatch(s, DecodedAuto(p, AutoPacket(p, count, s)), count) # "none"
<1> DEFINE r == MinutesDecoded(MinutesAuto(count, s))
<1>1. DecodedAuto(p, AutoPacket(p, count, s)) = r
  BY DEF Protocols, DecodedAuto, AutoPacket
<1>2. /\ s.sunrise.shape = "tuple" /\ s.sunset.shape = "tuple"
      /\ s.sunrise.at \in 0..(Day - 1) /\ s.sunrise.ramp \in Nat
      /\ s.sunset.at \in 0..(Day - 1) /\ s.sunset.ramp \in Nat
  BY DEF AutoRequests
<1>3. CASE s.sunrise.at + s.sunrise.ramp >= Day
  <2>1. Lower(Day - 1 - s.sunrise.at, s.sunrise.ramp) # s.sunrise.ramp
    BY <1>2, <1>3 DEF Lower
  <2>2. NormalizedTimeRamp(s.sunrise) # NormalizedTimeRamp(r.sunrise)
    BY <1>2, <2>1, SunriseBack DEF NormalizedTimeRamp
  <2> HIDE DEF r
  <2> QED BY <1>1, <2>2 DEF AutoMismatch
<1>4. CASE s.sunset.ramp > s.sunset.at
  <2>1. Lower(s.sunset.at, s.sunset.ramp) # s.sunset.ramp
    BY <1>2, <1>4 DEF Lower
  <2>2. NormalizedTimeRamp(s.sunset) # NormalizedTimeRamp(r.sunset)
    BY <1>2, <2>1, SunsetBack DEF NormalizedTimeRamp
  <2> HIDE DEF r
  <2> QED BY <1>1, <2>2 DEF AutoMismatch
<1> QED BY <1>2, <1>3, <1>4 DEF InsideDay

(* The finding about Plant Pro, for every request: its readback's times    *)
(* are texts (decode_spp_auto_schedule) that _normalized_time_ramp does    *)
(* not understand, so no readback of its own confirms a schedule.          *)
THEOREM PlantProNeverConfirmed ==
  ASSUME NEW s \in AutoRequests, NEW count \in 1..Width
  PROVE  AutoMismatch(s, DecodedAuto("plant_pro", AutoPacket("plant_pro", count, s)), count) # "none"
<1> DEFINE r == DecodedAuto("plant_pro", AutoPacket("plant_pro", count, s))
<1> SUFFICES AutoMismatch(s, r, count) # "none"
  OBVIOUS
<1>1. NormalizedTimeRamp(r.sunrise) = <<>>
  BY DEF DecodedAuto, PlantProDecoded, NormalizedTimeRamp, TimeRamp
<1>2. NormalizedTimeRamp(s.sunrise) = <<s.sunrise.at, s.sunrise.ramp>>
  BY DEF AutoRequests, NormalizedTimeRamp
<1>3. NormalizedTimeRamp(s.sunrise) # NormalizedTimeRamp(r.sunrise)
  <2>1. <<s.sunrise.at, s.sunrise.ramp>> # <<>>
    OBVIOUS
  <2> QED BY <1>1, <1>2, <2>1
<1> HIDE DEF r
<1> QED BY <1>3 DEF AutoMismatch

-----------------------------------------------------------------------------
(* Professional points in order.                                           *)
Ahead(points, i) ==
  {j \in DOMAIN points : \/ points[j].at < points[i].at
                         \/ points[j].at = points[i].at /\ j <= i}
Ranked(points, k) == CHOOSE i \in DOMAIN points : Cardinality(Ahead(points, i)) = k

LEMMA Canonical ==
  ASSUME NEW points
  PROVE  CanonicalPoints(points) =
           [k \in DOMAIN points |->
              [at |-> points[Ranked(points, k)].at % Day,
               levels |-> Fitted(points[Ranked(points, k)].levels, Width)]]
BY DEF CanonicalPoints, Ranked, Ahead

(* Points with a minute: a request's, a canonical one's, a readback's.     *)
Timed(points) ==
  /\ Len(points) \in Nat /\ DOMAIN points = 1..Len(points)
  /\ \A k \in DOMAIN points : points[k].at \in 0..(Day - 1)
Sorted(points) == \A j, k \in DOMAIN points : j <= k => points[j].at <= points[k].at

(* Of two points one is ahead of the other, and then so is all before it.  *)
LEMMA AheadNested ==
  ASSUME NEW points, Timed(points), NEW i \in DOMAIN points, NEW j \in DOMAIN points
  PROVE  /\ i \in Ahead(points, i)
         /\ IsFiniteSet(Ahead(points, i)) /\ Cardinality(Ahead(points, i)) \in 1..Len(points)
         /\ j \in Ahead(points, i) => Ahead(points, j) \subseteq Ahead(points, i)
         /\ j \in Ahead(points, i) \/ i \in Ahead(points, j)
         /\ j \in Ahead(points, i) /\ i \in Ahead(points, j) => i = j
<1> DEFINE n == Len(points)
<1>1. /\ n \in Nat /\ DOMAIN points = 1..n
      /\ points[i].at \in Int /\ points[j].at \in Int
      /\ \A k \in 1..n : points[k].at \in Int
  BY DayAssumption DEF Timed
<1>2. i \in Ahead(points, i) /\ Ahead(points, i) \subseteq 1..n
  BY <1>1 DEF Ahead
<1>3. /\ IsFiniteSet(1..n) /\ Cardinality(1..n) = n
  <2>1. n \in Nat
    BY <1>1
  <2> HIDE DEF n
  <2>2. /\ IsFiniteSet(1..n) /\ Cardinality(1..n) = IF 1 > n THEN 0 ELSE n - 1 + 1
    BY <2>1, FS_Interval
  <2> QED BY <2>1, <2>2
<1>4. IsFiniteSet(Ahead(points, i)) /\ Cardinality(Ahead(points, i)) <= n
  BY <1>2, <1>3, FS_Subset
<1>5. Cardinality(Ahead(points, i)) \in Nat /\ Cardinality(Ahead(points, i)) # 0
  BY <1>2, <1>4, FS_CardinalityType, FS_EmptySet
<1>6. j \in Ahead(points, i) => Ahead(points, j) \subseteq Ahead(points, i)
  BY <1>1 DEF Ahead
<1>7. /\ j \in Ahead(points, i) \/ i \in Ahead(points, j)
      /\ j \in Ahead(points, i) /\ i \in Ahead(points, j) => i = j
  BY <1>1 DEF Ahead
<1> QED BY <1>1, <1>2, <1>4, <1>5, <1>6, <1>7

(* Every rank is some point's.                                             *)
LEMMA RankTaken ==
  ASSUME NEW points, Timed(points), NEW k \in DOMAIN points
  PROVE  Ranked(points, k) \in DOMAIN points /\ Cardinality(Ahead(points, Ranked(points, k))) = k
<1> DEFINE n == Len(points)
           rank == [i \in 1..n |-> Cardinality(Ahead(points, i))]
<1>1. n \in Nat /\ DOMAIN points = 1..n /\ IsFiniteSet(1..n)
  BY FS_Interval DEF Timed
<1>2. rank \in [1..n -> 1..n]
  BY <1>1, AheadNested
<1>3. ASSUME NEW i \in 1..n, NEW j \in 1..n, rank[i] = rank[j], j \in Ahead(points, i) PROVE i = j
  <2>1. Ahead(points, j) \subseteq Ahead(points, i) /\ IsFiniteSet(Ahead(points, i))
    BY <1>1, <1>3, AheadNested
  <2>2. Ahead(points, i) = Ahead(points, j)
    BY <2>1, <1>3, FS_Subset
  <2>3. i \in Ahead(points, i)
    BY <1>1, AheadNested
  <2> QED BY <1>1, <1>3, <2>2, <2>3, AheadNested
<1>4. \A i, j \in 1..n : rank[i] = rank[j] => i = j
  <2> SUFFICES ASSUME NEW i \in 1..n, NEW j \in 1..n, rank[i] = rank[j] PROVE i = j
    OBVIOUS
  <2>1. j \in Ahead(points, i) \/ i \in Ahead(points, j)
    BY <1>1, AheadNested
  <2> HIDE DEF rank
  <2> QED BY <2>1, <1>3
<1> HIDE DEF rank
<1>5. rank \in Injection(1..n, 1..n)
  BY <1>2, <1>4, Fun_IsInj
<1>6. rank \in Surjection(1..n, 1..n)
  BY <1>1, <1>5, FS_Injection
<1>7. \E i \in 1..n : rank[i] = k
  BY <1>1, <1>6, Fun_SurjectionProperties
<1>8. \E i \in DOMAIN points : Cardinality(Ahead(points, i)) = k
  BY <1>1, <1>7 DEF rank
<1> QED BY <1>8 DEF Ranked

(* The ranks are in the order of the minutes; a sorted sequence has them   *)
(* already.                                                                *)
LEMMA RankOrder ==
  ASSUME NEW points, Timed(points)
  PROVE  /\ \A j, k \in DOMAIN points :
              j <= k => points[Ranked(points, j)].at <= points[Ranked(points, k)].at
         /\ Sorted(points) => \A k \in DOMAIN points : Ranked(points, k) = k
<1>1. Len(points) \in Nat /\ DOMAIN points = 1..Len(points)
      /\ \A k \in DOMAIN points : points[k].at \in Int
  BY DayAssumption DEF Timed
<1>2. ASSUME NEW j \in DOMAIN points, NEW k \in DOMAIN points, j <= k
      PROVE  points[Ranked(points, j)].at <= points[Ranked(points, k)].at
  <2> DEFINE a == Ranked(points, j)
             b == Ranked(points, k)
  <2>1. /\ a \in DOMAIN points /\ Cardinality(Ahead(points, a)) = j
        /\ b \in DOMAIN points /\ Cardinality(Ahead(points, b)) = k
    BY RankTaken
  <2> HIDE DEF a, b
  <2>2. a \in Ahead(points, b) => points[a].at <= points[b].at
    BY <2>1, <1>1 DEF Ahead
  <2>3. ASSUME a \notin Ahead(points, b) PROVE FALSE
    <3>1. b \in Ahead(points, a) /\ Ahead(points, b) \subseteq Ahead(points, a)
          /\ IsFiniteSet(Ahead(points, a)) /\ a \in Ahead(points, a)
      BY <2>1, <2>3, AheadNested
    <3>2. k <= j
      BY <2>1, <3>1, FS_Subset
    <3>3. j = k
      BY <3>2, <1>1, <1>2
    <3> QED BY <2>1, <2>3, <3>1, <3>3, FS_Subset
  <2> QED BY <2>2, <2>3 DEF a, b
<1>3. ASSUME Sorted(points), NEW k \in DOMAIN points PROVE Ranked(points, k) = k
  <2> DEFINE a == Ranked(points, k)
  <2>1. a \in DOMAIN points /\ Cardinality(Ahead(points, a)) = k
    BY RankTaken
  <2> HIDE DEF a
  <2>2. Ahead(points, a) = 1..a
    BY <1>1, <1>3, <2>1 DEF Ahead, Sorted
  <2>3. Cardinality(1..a) = a
    BY <1>1, <2>1, FS_Interval
  <2> QED BY <2>1, <2>2, <2>3 DEF a
<1> QED BY <1>2, <1>3

-----------------------------------------------------------------------------
(* Auto schedules on a classic or FACEBD fixture: what confirms what.      *)
Minutes == Protocols \ {"plant_pro"}

(* A schedule in the shape of a request or of a readback.                  *)
Understood(s) ==
  /\ s.sunrise.shape \in {"tuple", "dict"} /\ s.sunset.shape \in {"tuple", "dict"}
  /\ s.sunrise.at \in 0..(Day - 1) /\ s.sunrise.ramp \in 0..MaxRamp
  /\ s.sunset.at \in 0..(Day - 1) /\ s.sunset.ramp \in 0..MaxRamp
  /\ s.day \in Seq(0..MaxLevel) /\ s.night \in Seq(0..MaxLevel)

LEMMA FittedLevels ==
  ASSUME NEW levels \in Seq(0..MaxLevel), NEW count \in Nat
  PROVE  /\ Fitted(levels, count) \in [1..count -> 0..MaxLevel]
         /\ Fitted(levels, count) \in Seq(0..MaxLevel) /\ Len(Fitted(levels, count)) = count
         /\ \A i \in 1..count :
              Fitted(levels, count)[i] = IF i <= Len(levels) THEN levels[i] ELSE 0
<1>1. Len(levels) \in Nat /\ DOMAIN levels = 1..Len(levels)
      /\ \A i \in 1..Len(levels) : levels[i] \in 0..MaxLevel
  OBVIOUS
<1>2. Fitted(levels, count) \in [1..count -> 0..MaxLevel]
  BY <1>1 DEF Fitted, Lower
<1>3. Fitted(levels, count) \in Seq(0..MaxLevel) /\ DOMAIN Fitted(levels, count) = 1..count
  BY <1>2
<1>4. \A i \in 1..count :
        Fitted(levels, count)[i] = IF i <= Len(levels) THEN levels[i] ELSE 0
  BY <1>1 DEF Fitted, Lower
<1>5. Len(Fitted(levels, count)) = count
  BY <1>3
<1> QED BY <1>2, <1>3, <1>4, <1>5

LEMMA LevelsSeq == \A levels \in Levels : levels \in Seq(0..MaxLevel) /\ Len(levels) = Width
BY DEF Levels

(* Levels that read back as the same on the fixture's channels are sent as *)
(* the same.                                                               *)
LEMMA LevelsOnto ==
  ASSUME NEW levels \in Seq(0..MaxLevel), NEW stored \in Levels, NEW count \in 1..Width,
         Cut(levels, count) = Cut(Fitted(stored, count), count)
  PROVE  Fitted(levels, count) = Fitted(stored, count)
<1>1. stored \in Seq(0..MaxLevel) /\ Len(stored) = Width /\ count \in Nat /\ count <= Width
  BY LevelsSeq
<1>2. Cut(levels, count) = Cut(stored, count)
  BY LevelsSurvive
<1>3. DOMAIN Cut(stored, count) = 1..count /\ \A i \in 1..count : Cut(stored, count)[i] = stored[i]
  BY <1>1 DEF Cut, Lower
<1>4. DOMAIN Cut(levels, count) = 1..Lower(count, Len(levels))
      /\ \A i \in 1..Lower(count, Len(levels)) : Cut(levels, count)[i] = levels[i]
  BY DEF Cut
<1>5. Lower(count, Len(levels)) = count
  BY <1>1, <1>2, <1>3, <1>4 DEF Lower
<1>6. \A i \in 1..count : i <= Len(levels) /\ levels[i] = stored[i]
  BY <1>1, <1>2, <1>3, <1>4, <1>5 DEF Lower
<1> QED BY <1>1, <1>6 DEF Fitted

(* A readback that confirms a schedule is the readback of its own packet.  *)
LEMMA AutoOnto ==
  ASSUME NEW p \in Minutes, NEW count \in 1..Width, NEW s, Understood(s), NEW d \in AutoRequests,
         AutoMismatch(s, DecodedAuto(p, AutoPacket(p, count, d)), count) = "none"
  PROVE  AutoPacket(p, count, s) = AutoPacket(p, count, d)
<1> DEFINE m == MinutesAuto(count, d)
           r == MinutesDecoded(m)
<1>1. AutoMismatch(s, r, count) = "none"
  BY DEF Minutes, Protocols, DecodedAuto, AutoPacket
<1>2. /\ NormalizedTimeRamp(s.sunrise) = NormalizedTimeRamp(r.sunrise)
      /\ NormalizedTimeRamp(s.sunset) = NormalizedTimeRamp(r.sunset)
      /\ NormalizedClock(s.sleep) = NormalizedClock(r.sleep)
      /\ Cut(s.day, count) = Cut(r.day, count) /\ Cut(s.night, count) = Cut(r.night, count)
  <2> HIDE DEF r
  <2> QED BY <1>1 DEF AutoMismatch
<1>3. /\ NormalizedTimeRamp(s.sunrise) = <<s.sunrise.at, s.sunrise.ramp>>
      /\ NormalizedTimeRamp(s.sunset) = <<s.sunset.at, s.sunset.ramp>>
      /\ NormalizedTimeRamp(d.sunrise) = <<d.sunrise.at, d.sunrise.ramp>>
      /\ NormalizedTimeRamp(d.sunset) = <<d.sunset.at, d.sunset.ramp>>
  BY DEF Understood, AutoRequests, NormalizedTimeRamp
<1>4. /\ d.sunrise.at \in 0..(Day - 1) /\ d.sunrise.ramp \in 0..MaxRamp
      /\ d.sunset.at \in 0..(Day - 1) /\ d.sunset.ramp \in 0..MaxRamp
      /\ d.day \in Levels /\ d.night \in Levels
  BY DEF AutoRequests
<1>5. /\ s.sunrise.at = d.sunrise.at
      /\ s.sunrise.ramp = Lower(Day - 1 - d.sunrise.at, d.sunrise.ramp)
      /\ s.sunset.at = d.sunset.at
      /\ s.sunset.ramp = Lower(d.sunset.at, d.sunset.ramp)
  <2>1. /\ NormalizedTimeRamp(r.sunrise) =
             <<d.sunrise.at, Lower(Day - 1 - d.sunrise.at, d.sunrise.ramp)>>
        /\ NormalizedTimeRamp(r.sunset) = <<d.sunset.at, Lower(d.sunset.at, d.sunset.ramp)>>
    BY SunriseBack, SunsetBack
  <2> HIDE DEF r
  <2> DEFINE rise == Lower(Day - 1 - d.sunrise.at, d.sunrise.ramp)
             set == Lower(d.sunset.at, d.sunset.ramp)
  <2>2. /\ <<s.sunrise.at, s.sunrise.ramp>> = <<d.sunrise.at, rise>>
        /\ <<s.sunset.at, s.sunset.ramp>> = <<d.sunset.at, set>>
    BY <1>2, <1>3, <2>1, Zenon
  <2> HIDE DEF rise, set
  <2>3. s.sunrise.at = d.sunrise.at /\ s.sunrise.ramp = rise
        /\ s.sunset.at = d.sunset.at /\ s.sunset.ramp = set
    BY <2>2
  <2> QED BY <2>3 DEF rise, set
<1>6. RampEnd(s.sunrise.at, s.sunrise.ramp) = RampEnd(d.sunrise.at, d.sunrise.ramp)
  BY <1>4, <1>5 DEF RampEnd, ClampRamp, Lower
<1>7. RampStart(s.sunset.at, s.sunset.ramp) = RampStart(d.sunset.at, d.sunset.ramp)
  BY <1>4, <1>5 DEF RampStart, ClampRamp, Lower
<1>8. NormalizedClock(s.sleep) = NormalizedClock(d.sleep)
  BY <1>2, SleepBack
<1>9. Fitted(s.day, count) = Fitted(d.day, count) /\ Fitted(s.night, count) = Fitted(d.night, count)
  <2>1. r.day = Fitted(d.day, count) /\ r.night = Fitted(d.night, count)
    BY DEF MinutesDecoded, MinutesAuto
  <2> HIDE DEF r
  <2> QED BY <1>2, <1>4, <2>1, LevelsOnto DEF Understood
<1>10. MinutesAuto(count, s) = MinutesAuto(count, d)
  BY <1>3, <1>5, <1>6, <1>7, <1>8, <1>9 DEF MinutesAuto
<1> QED BY <1>10 DEF Minutes, Protocols, AutoPacket

(* What comes back can be sent again, and is the same packet.              *)
LEMMA AutoAgain ==
  ASSUME NEW p \in Minutes, NEW count \in 1..Width, NEW d \in AutoRequests,
         DecodedAuto(p, AutoPacket(p, count, d)) # None
  PROVE  LET r == DecodedAuto(p, AutoPacket(p, count, d)) IN
         /\ Understood(r) /\ AutoMismatch(r, r, count) = "none"
         /\ AutoPacket(p, count, r) = AutoPacket(p, count, d)
<1> DEFINE m == MinutesAuto(count, d)
           r == MinutesDecoded(m)
<1>1. DecodedAuto(p, AutoPacket(p, count, d)) = r
  BY DEF Minutes, Protocols, DecodedAuto, AutoPacket
<1>2. /\ d.sunrise.shape = "tuple" /\ d.sunset.shape = "tuple"
      /\ d.sunrise.at \in 0..(Day - 1) /\ d.sunrise.ramp \in 0..MaxRamp
      /\ d.sunset.at \in 0..(Day - 1) /\ d.sunset.ramp \in 0..MaxRamp
      /\ d.day \in Levels /\ d.night \in Levels
  BY DEF AutoRequests
<1>3. /\ m.sunrise = <<d.sunrise.at, RampEnd(d.sunrise.at, d.sunrise.ramp)>>
      /\ m.sunset = <<RampStart(d.sunset.at, d.sunset.ramp), d.sunset.at>>
      /\ m.day = Fitted(d.day, count) /\ m.night = Fitted(d.night, count)
  BY <1>2 DEF MinutesAuto, NormalizedTimeRamp
<1>4. /\ r.sunrise = TimeRamp("dict", d.sunrise.at,
                              RampEnd(d.sunrise.at, d.sunrise.ramp) - d.sunrise.at)
      /\ r.sunset = TimeRamp("dict", d.sunset.at,
                             d.sunset.at - RampStart(d.sunset.at, d.sunset.ramp))
      /\ r.day = Fitted(d.day, count) /\ r.night = Fitted(d.night, count)
  <2> HIDE DEF m
  <2> QED BY <1>3 DEF MinutesDecoded
<1>5. /\ RampEnd(d.sunrise.at, d.sunrise.ramp) - d.sunrise.at \in 0..MaxRamp
      /\ d.sunset.at - RampStart(d.sunset.at, d.sunset.ramp) \in 0..MaxRamp
  BY <1>2 DEF RampEnd, RampStart, ClampRamp, Lower
<1>6. r.day \in Seq(0..MaxLevel) /\ r.night \in Seq(0..MaxLevel)
  <2>1. Fitted(d.day, count) \in Seq(0..MaxLevel) /\ Fitted(d.night, count) \in Seq(0..MaxLevel)
    <3>1. d.day \in Seq(0..MaxLevel) /\ d.night \in Seq(0..MaxLevel) /\ count \in Nat
      BY <1>2, LevelsSeq
    <3> QED BY <3>1, FittedLevels
  <2> QED BY <1>4, <2>1
<1> HIDE DEF r, m
<1>7. Understood(r)
  BY <1>2, <1>4, <1>5, <1>6 DEF Understood, TimeRamp
<1>8. AutoMismatch(r, r, count) = "none"
  BY <1>1 DEF AutoMismatch
<1>9. AutoPacket(p, count, r) = AutoPacket(p, count, d)
  BY <1>1, <1>7, <1>8, AutoOnto
<1> QED BY <1>1, <1>7, <1>8, <1>9

LEMMA RequestUnderstood == \A s \in AutoRequests : Understood(s)
BY LevelsSeq DEF AutoRequests, Understood

-----------------------------------------------------------------------------
(* Professional schedules.                                                 *)
Points == [at : 0..(Day - 1), levels : Levels]
Canon(c) == c \in Seq(Points) /\ Sorted(c)

(* What is compared of a readback.                                         *)
Heard(p, count, c) == CanonicalPoints(DecodedPro(p, ProPacket(p, count, c)))

LEMMA CanonicalSorted ==
  ASSUME NEW s \in ProRequests
  PROVE  Canon(CanonicalPoints(s))
<1> DEFINE n == Len(s)
           c == CanonicalPoints(s)
<1>1. n \in Nat /\ DOMAIN s = 1..n /\ \A k \in 1..n : s[k] \in Points
  <2>1. s \in Seq(Points)
    BY Zenon DEF ProRequests, Points
  <2> QED BY <2>1
<1>2. Timed(s)
  BY <1>1 DEF Timed, Points
<1>3. c = [k \in 1..n |-> [at |-> s[Ranked(s, k)].at % Day,
                           levels |-> Fitted(s[Ranked(s, k)].levels, Width)]]
  BY <1>1, Canonical
<1>4. ASSUME NEW k \in 1..n
      PROVE  c[k] \in Points /\ c[k].at = s[Ranked(s, k)].at
  <2> DEFINE i == Ranked(s, k)
  <2>1. i \in 1..n
    BY <1>1, <1>2, RankTaken
  <2>2. c[k] = [at |-> s[i].at % Day, levels |-> Fitted(s[i].levels, Width)]
    BY <1>3
  <2> HIDE DEF i, c
  <2>3. s[i].at \in 0..(Day - 1) /\ s[i].levels \in Levels
    BY <1>1, <2>1 DEF Points
  <2>4. s[i].at % Day = s[i].at
    BY <2>3
  <2>5. Fitted(s[i].levels, Width) \in Levels
    BY <2>3, LevelsSeq, FittedLevels DEF Levels
  <2> QED BY <2>2, <2>3, <2>4, <2>5 DEF Points, i
<1>5. c \in [1..n -> Points]
  BY <1>3, <1>4
<1>6. c \in Seq(Points) /\ DOMAIN c = 1..n
  BY <1>1, <1>5
<1>7. Sorted(c)
  <2> SUFFICES ASSUME NEW j \in 1..n, NEW k \in 1..n, j <= k PROVE c[j].at <= c[k].at
    BY <1>6 DEF Sorted
  <2>1. s[Ranked(s, j)].at <= s[Ranked(s, k)].at
    BY <1>1, <1>2, RankOrder
  <2> HIDE DEF c
  <2> QED BY <1>4, <2>1
<1> QED BY <1>6, <1>7 DEF Canon

LEMMA CanonTimed ==
  ASSUME NEW c, Canon(c)
  PROVE  /\ Timed(c) /\ c \in Seq(Points) /\ Len(c) \in Nat /\ DOMAIN c = 1..Len(c)
         /\ \A k \in 1..Len(c) :
              /\ c[k] \in Points /\ c[k].at \in 0..(Day - 1)
              /\ c[k].levels \in Levels /\ c[k].levels \in Seq(0..MaxLevel)
<1>1. c \in Seq(Points) /\ Len(c) \in Nat /\ DOMAIN c = 1..Len(c)
      /\ \A k \in 1..Len(c) : c[k] \in Points
  BY DEF Canon
<1>2. \A k \in 1..Len(c) :
              /\ c[k] \in Points /\ c[k].at \in 0..(Day - 1)
              /\ c[k].levels \in Levels /\ c[k].levels \in Seq(0..MaxLevel)
  BY <1>1, LevelsSeq DEF Points
<1> QED BY <1>1, <1>2 DEF Timed

(* A readback of sorted points is sorted, and canonical but for the        *)
(* channels the fixture has not.                                           *)
LEMMA HeardBack ==
  ASSUME NEW p \in Minutes, NEW count \in 1..Width, NEW c, Canon(c)
  PROVE  /\ Heard(p, count, c) =
              [k \in 1..Len(c) |-> [at |-> c[k].at,
                                    levels |-> Fitted(Fitted(c[k].levels, count), Width)]]
         /\ Canon(Heard(p, count, c)) /\ Len(Heard(p, count, c)) = Len(c)
         /\ ProPacket(p, count, c) =
              [k \in 1..Len(c) |-> [at |-> c[k].at, levels |-> Fitted(c[k].levels, count)]]
         /\ \A k \in 1..Len(c), i \in 1..count : Heard(p, count, c)[k].levels[i] = c[k].levels[i]
<1> DEFINE n == Len(c)
           m == ProPacket(p, count, c)
           r == DecodedPro(p, m)
           h == Heard(p, count, c)
<1>1. /\ n \in Nat /\ DOMAIN c = 1..n /\ count \in Nat /\ Width \in Nat /\ count <= Width
      /\ \A k \in 1..n : /\ c[k].at \in 0..(Day - 1)
                         /\ c[k].levels \in Levels /\ c[k].levels \in Seq(0..MaxLevel)
  BY CanonTimed
<1>2. m = [k \in 1..n |-> [at |-> c[k].at, levels |-> Fitted(c[k].levels, count)]]
  BY <1>1 DEF ProPacket, ProLevels, Minutes
<1>3. r = [k \in 1..n |-> [shape |-> PointShape(p), at |-> c[k].at,
                           levels |-> Fitted(c[k].levels, count)]]
  <2> HIDE DEF m
  <2>1. DOMAIN m = 1..n /\ \A k \in 1..n : m[k].at = c[k].at /\ m[k].levels = Fitted(c[k].levels, count)
    BY <1>2
  <2> QED BY <2>1 DEF DecodedPro
<1> HIDE DEF r, m
<1>4. /\ DOMAIN r = 1..n /\ Len(r) = n
      /\ \A k \in 1..n : r[k].at = c[k].at /\ r[k].levels = Fitted(c[k].levels, count)
  <2>1. DOMAIN r = 1..n /\ Len(r) = n
    BY <1>1, <1>3
  <2> QED BY <1>3, <2>1
<1>5. Timed(r) /\ Sorted(r)
  BY <1>1, <1>4 DEF Timed, Sorted, Canon
<1>6. \A k \in 1..n : Ranked(r, k) = k
  BY <1>4, <1>5, RankOrder
<1>7. h = [k \in 1..n |-> [at |-> c[k].at % Day,
                           levels |-> Fitted(Fitted(c[k].levels, count), Width)]]
  <2>1. h = [k \in DOMAIN r |-> [at |-> r[Ranked(r, k)].at % Day,
                                 levels |-> Fitted(r[Ranked(r, k)].levels, Width)]]
    BY Canonical DEF Heard, r, m
  <2> HIDE DEF h
  <2> QED BY <1>4, <1>6, <2>1
<1>8. ASSUME NEW k \in 1..n PROVE c[k].at % Day = c[k].at
  <2> DEFINE x == c[k].at
  <2>1. x \in 0..(Day - 1)
    BY <1>1
  <2> HIDE DEF x
  <2>2. x % Day = x
    BY <2>1
  <2> QED BY <2>2 DEF x
<1>9. h = [k \in 1..n |-> [at |-> c[k].at,
                           levels |-> Fitted(Fitted(c[k].levels, count), Width)]]
  <2> HIDE DEF h
  <2> QED BY <1>7, <1>8
<1>10. ASSUME NEW k \in 1..n
       PROVE  /\ Fitted(Fitted(c[k].levels, count), Width) \in Levels
              /\ \A i \in 1..count : Fitted(Fitted(c[k].levels, count), Width)[i] = c[k].levels[i]
  <2> DEFINE l == c[k].levels
             f == Fitted(l, count)
  <2>1. l \in Seq(0..MaxLevel) /\ Len(l) = Width
    BY <1>1, LevelsSeq
  <2> HIDE DEF l
  <2>2. f \in Seq(0..MaxLevel) /\ Len(f) = count /\ \A i \in 1..count : f[i] = l[i]
    <3>1. /\ f \in Seq(0..MaxLevel) /\ Len(f) = count
          /\ \A i \in 1..count : f[i] = IF i <= Len(l) THEN l[i] ELSE 0
      BY <1>1, <2>1, FittedLevels
    <3> QED BY <1>1, <2>1, <3>1
  <2> HIDE DEF f
  <2>3. Fitted(f, Width) \in [1..Width -> 0..MaxLevel]
        /\ \A i \in 1..Width : Fitted(f, Width)[i] = IF i <= Len(f) THEN f[i] ELSE 0
    BY <1>1, <2>2, FittedLevels
  <2>4. Fitted(f, Width) \in Levels /\ \A i \in 1..count : Fitted(f, Width)[i] = l[i]
    BY <1>1, <2>2, <2>3 DEF Levels
  <2> QED BY <2>4 DEF f, l
<1> HIDE DEF h
<1>11. \A k \in 1..n : h[k] \in Points /\ h[k].at = c[k].at
                       /\ \A i \in 1..count : h[k].levels[i] = c[k].levels[i]
  BY <1>1, <1>9, <1>10 DEF Points
<1>12. h \in Seq(Points) /\ DOMAIN h = 1..n /\ Len(h) = n
  <2>1. h \in [1..n -> Points]
    BY <1>9, <1>11
  <2> QED BY <1>1, <2>1
<1>13. Canon(h)
  BY <1>1, <1>11, <1>12 DEF Canon, Sorted
<1> QED BY <1>2, <1>9, <1>11, <1>12, <1>13 DEF h, m

(* Points that a readback confirms are sent as it was.                     *)
LEMMA ProOnto ==
  ASSUME NEW p \in Minutes, NEW count \in 1..Width, NEW c, Canon(c), NEW d, Canon(d),
         ProMismatch(c, Heard(p, count, d), count) = "none"
  PROVE  ProPacket(p, count, c) = ProPacket(p, count, d)
<1> DEFINE h == Heard(p, count, d)
           n == Len(c)
<1>1. /\ h = [k \in 1..Len(d) |-> [at |-> d[k].at,
                                   levels |-> Fitted(Fitted(d[k].levels, count), Width)]]
      /\ Len(h) = Len(d)
      /\ \A k \in 1..Len(d), i \in 1..count : h[k].levels[i] = d[k].levels[i]
  BY HeardBack
<1>2. \A k \in 1..Len(d) : h[k].at = d[k].at
  <2> HIDE DEF h
  <2> QED BY <1>1
<1> HIDE DEF h
<1>3. /\ n = Len(h)
      /\ \A k \in DOMAIN c : /\ c[k].at = h[k].at
                             /\ \A i \in 1..count : c[k].levels[i] = h[k].levels[i]
  BY DEF ProMismatch, h
<1>4. /\ n \in Nat /\ DOMAIN c = 1..n /\ count \in Nat /\ count <= Width
      /\ \A k \in 1..n : c[k].levels \in Seq(0..MaxLevel) /\ Len(c[k].levels) = Width
  BY CanonTimed, LevelsSeq
<1>5. \A k \in 1..Len(d) : d[k].levels \in Seq(0..MaxLevel) /\ Len(d[k].levels) = Width
  BY CanonTimed, LevelsSeq
<1>6. Len(d) = n /\ \A k \in 1..n : /\ c[k].at = d[k].at
                                    /\ \A i \in 1..count : c[k].levels[i] = d[k].levels[i]
  BY <1>1, <1>2, <1>3, <1>4
<1>7. ASSUME NEW k \in 1..n PROVE Fitted(c[k].levels, count) = Fitted(d[k].levels, count)
  BY <1>4, <1>5, <1>6 DEF Fitted
<1>8. ProPacket(p, count, c) =
        [k \in 1..n |-> [at |-> c[k].at, levels |-> Fitted(c[k].levels, count)]]
      /\ ProPacket(p, count, d) =
        [k \in 1..Len(d) |-> [at |-> d[k].at, levels |-> Fitted(d[k].levels, count)]]
  BY HeardBack
<1> QED BY <1>6, <1>7, <1>8

(* A fixture confirms the points it holds, and can be sent them again.     *)
LEMMA ProAgain ==
  ASSUME NEW p \in Minutes, NEW count \in 1..Width, NEW c, Canon(c), Heard(p, count, c) # None
  PROVE  /\ ProMismatch(c, Heard(p, count, c), count) = "none"
         /\ Canon(Heard(p, count, c))
         /\ ProPacket(p, count, Heard(p, count, c)) = ProPacket(p, count, c)
<1> DEFINE h == Heard(p, count, c)
<1>1. /\ h = [k \in 1..Len(c) |-> [at |-> c[k].at,
                                   levels |-> Fitted(Fitted(c[k].levels, count), Width)]]
      /\ Canon(h) /\ Len(h) = Len(c) /\ h # None
      /\ \A k \in 1..Len(c), i \in 1..count : h[k].levels[i] = c[k].levels[i]
  BY HeardBack
<1> HIDE DEF h
<1>2. \A k \in 1..Len(c) : h[k].at = c[k].at
  BY <1>1
<1>3. DOMAIN c = 1..Len(c)
  BY CanonTimed
<1>4. ProMismatch(c, h, count) = "none"
  BY <1>1, <1>2, <1>3 DEF ProMismatch
<1>5. ProMismatch(h, h, count) = "none"
  BY <1>1 DEF ProMismatch
<1>6. ProMismatch(h, Heard(p, count, c), count) = "none"
  BY <1>5 DEF h
<1>7. ProPacket(p, count, h) = ProPacket(p, count, c)
  BY <1>1, <1>6, ProOnto
<1> QED BY <1>1, <1>4, <1>7 DEF h

-----------------------------------------------------------------------------
(* What the fixture, the Device and the tasks may have of a schedule.      *)
Pack(k, w, s) == IF w = "auto" THEN AutoPacket(k, Channels, s) ELSE ProPacket(k, Channels, s)
Back(k, w, m) ==
  IF m = None THEN None ELSE IF w = "auto" THEN DecodedAuto(k, m) ELSE DecodedPro(k, m)
Asking(w, r) == IF w = "auto" THEN r ELSE CanonicalPoints(r)
Offered(w) == IF w = "auto" THEN Autos ELSE {CanonicalPoints(s) : s \in Pros}
Packets(k, w) == {Pack(k, w, s) : s \in Offered(w)}
Requests(k, w) == Offered(w) \cup {Asking(w, Back(k, w, m)) : m \in Packets(k, w)}

(* The packets of one kind of schedule: what a readback confirms is what   *)
(* the fixture holds; it can be sent again.                                *)
LEMMA AutoCodec ==
  ASSUME NEW k \in Kinds, k # "plant_pro"
  PROVE  /\ \A m \in Packets(k, "auto") : m # None /\ Back(k, "auto", m) # None
         /\ \A s \in Requests(k, "auto") :
              /\ Pack(k, "auto", s) \in Packets(k, "auto")
              /\ \A m \in Packets(k, "auto") :
                   Mismatch("auto", s, Back(k, "auto", m)) = "none" => m = Pack(k, "auto", s)
         /\ (\A s \in Autos : InsideDay(s)) =>
              \A s \in Requests(k, "auto") :
                Mismatch("auto", s, Back(k, "auto", Pack(k, "auto", s))) = "none"
<1>1. k \in Minutes /\ k \in Protocols /\ Channels \in 1..Width
  BY KindsAssumption, ChannelsAssumption DEF Minutes
<1>2. Autos \subseteq AutoRequests
  BY RequestsAssumption
<1>3. ASSUME NEW m \in Packets(k, "auto")
      PROVE  \E d \in Autos : /\ m = AutoPacket(k, Channels, d) /\ m # None
                              /\ Back(k, "auto", m) = DecodedAuto(k, m) /\ DecodedAuto(k, m) # None
  <2>1. PICK d \in Autos : m = AutoPacket(k, Channels, d)
    BY DEF Packets, Pack, Offered
  <2>2. m # None /\ DecodedAuto(k, m) # None
    BY <2>1, NoneAssumption
  <2> QED BY <2>1, <2>2 DEF Back
<1>4. ASSUME NEW s \in Requests(k, "auto")
      PROVE  /\ Understood(s)
             /\ Pack(k, "auto", s) = AutoPacket(k, Channels, s)
             /\ \E d \in Autos : AutoPacket(k, Channels, s) = AutoPacket(k, Channels, d)
             /\ s \in Autos \/ \E d \in Autos : s = DecodedAuto(k, AutoPacket(k, Channels, d))
                                                /\ s # None
  <2>1. CASE s \in Autos
    BY <1>2, <2>1, RequestUnderstood DEF Pack
  <2>2. CASE s \notin Autos
    <3>1. PICK m \in Packets(k, "auto") : s = Back(k, "auto", m)
      BY <2>2 DEF Requests, Asking, Offered
    <3>2. PICK d \in Autos : m = AutoPacket(k, Channels, d) /\ s = DecodedAuto(k, m) /\ s # None
      BY <1>3, <3>1
    <3>3. Understood(s) /\ AutoPacket(k, Channels, s) = AutoPacket(k, Channels, d)
      BY <1>1, <1>2, <3>2, AutoAgain
    <3> QED BY <3>2, <3>3 DEF Pack
  <2> QED BY <2>1, <2>2
<1>5. ASSUME NEW s \in Requests(k, "auto")
      PROVE  Pack(k, "auto", s) \in Packets(k, "auto")
  BY <1>4 DEF Packets, Pack, Offered
<1>6. ASSUME NEW s \in Requests(k, "auto"), NEW m \in Packets(k, "auto"),
             Mismatch("auto", s, Back(k, "auto", m)) = "none"
      PROVE  m = Pack(k, "auto", s)
  <2>1. PICK d \in Autos : m = AutoPacket(k, Channels, d) /\ Back(k, "auto", m) = DecodedAuto(k, m)
    BY <1>3
  <2>2. AutoMismatch(s, DecodedAuto(k, AutoPacket(k, Channels, d)), Channels) = "none"
    BY <1>6, <2>1 DEF Mismatch
  <2>3. d \in AutoRequests /\ Understood(s)
    BY <1>2, <1>4
  <2>4. AutoPacket(k, Channels, s) = AutoPacket(k, Channels, d)
    BY <1>1, <2>2, <2>3, AutoOnto
  <2> QED BY <1>4, <2>1, <2>4
<1>7. ASSUME \A s \in Autos : InsideDay(s), NEW s \in Requests(k, "auto")
      PROVE  Mismatch("auto", s, Back(k, "auto", Pack(k, "auto", s))) = "none"
  <2> DEFINE m == AutoPacket(k, Channels, s)
  <2>1. Pack(k, "auto", s) = m /\ m \in Packets(k, "auto")
    BY <1>4, <1>5
  <2>2. Back(k, "auto", m) = DecodedAuto(k, m) /\ DecodedAuto(k, m) # None
    BY <1>3, <2>1
  <2>3. AutoMismatch(s, DecodedAuto(k, m), Channels) = "none"
    <3>1. CASE s \in Autos
      BY <1>1, <1>2, <1>7, <2>2, <3>1, InsideDayConfirmed DEF Minutes
    <3>2. CASE s \notin Autos
      <4>1. PICK d \in Autos : s = DecodedAuto(k, AutoPacket(k, Channels, d)) /\ s # None
        BY <1>4, <3>2
      <4>2. m = AutoPacket(k, Channels, d) /\ AutoMismatch(s, s, Channels) = "none"
        BY <1>1, <1>2, <4>1, AutoAgain
      <4> HIDE DEF m
      <4> QED BY <4>1, <4>2
    <3> QED BY <3>1, <3>2
  <2> HIDE DEF m
  <2> QED BY <2>1, <2>2, <2>3 DEF Mismatch
<1>8. \A m \in Packets(k, "auto") : m # None /\ Back(k, "auto", m) # None
  BY <1>3
<1> QED BY <1>5, <1>6, <1>7, <1>8

LEMMA ProCodec ==
  ASSUME NEW k \in Kinds, k # "plant_pro"
  PROVE  /\ \A m \in Packets(k, "pro") : m # None /\ Back(k, "pro", m) # None
         /\ \A s \in Requests(k, "pro") :
              /\ Pack(k, "pro", s) \in Packets(k, "pro")
              /\ \A m \in Packets(k, "pro") :
                   Mismatch("pro", s, Back(k, "pro", m)) = "none" => m = Pack(k, "pro", s)
              /\ Mismatch("pro", s, Back(k, "pro", Pack(k, "pro", s))) = "none"
<1>1. k \in Minutes /\ Channels \in 1..Width
  BY KindsAssumption, ChannelsAssumption DEF Minutes
<1>2. \A s \in Pros : Canon(CanonicalPoints(s))
  BY RequestsAssumption, CanonicalSorted
<1>3. ASSUME NEW m \in Packets(k, "pro")
      PROVE  \E d \in Offered("pro") :
               /\ Canon(d) /\ m = ProPacket(k, Channels, d) /\ m # None
               /\ Back(k, "pro", m) = DecodedPro(k, m) /\ DecodedPro(k, m) # None
               /\ CanonicalPoints(DecodedPro(k, m)) = Heard(k, Channels, d)
               /\ Heard(k, Channels, d) # None
  <2>1. PICK s \in Pros : m = ProPacket(k, Channels, CanonicalPoints(s))
    BY DEF Packets, Pack, Offered
  <2>2. m # None /\ DecodedPro(k, m) # None /\ CanonicalPoints(DecodedPro(k, m)) # None
    BY <2>1, NoneAssumption
  <2>3. CanonicalPoints(s) \in Offered("pro") /\ Canon(CanonicalPoints(s))
    BY <1>2 DEF Offered
  <2>4. Back(k, "pro", m) = DecodedPro(k, m)
    BY <2>2 DEF Back
  <2>5. CanonicalPoints(DecodedPro(k, m)) = Heard(k, Channels, CanonicalPoints(s))
    BY <2>1 DEF Heard
  <2> QED BY <2>1, <2>2, <2>3, <2>4, <2>5
<1>4. ASSUME NEW s \in Requests(k, "pro")
      PROVE  /\ Canon(s)
             /\ Pack(k, "pro", s) = ProPacket(k, Channels, s)
             /\ \E d \in Offered("pro") : ProPacket(k, Channels, s) = ProPacket(k, Channels, d)
  <2>1. CASE s \in Offered("pro")
    BY <1>2, <2>1 DEF Pack, Offered
  <2>2. CASE s \notin Offered("pro")
    <3>1. PICK m \in Packets(k, "pro") : s = CanonicalPoints(Back(k, "pro", m))
      BY <2>2 DEF Requests, Asking
    <3>2. PICK d \in Offered("pro") : Canon(d) /\ s = Heard(k, Channels, d) /\ s # None
      BY <1>3, <3>1
    <3>3. Canon(s) /\ ProPacket(k, Channels, s) = ProPacket(k, Channels, d)
      BY <1>1, <3>2, ProAgain
    <3> QED BY <3>2, <3>3 DEF Pack
  <2> QED BY <2>1, <2>2
<1>5. ASSUME NEW s \in Requests(k, "pro")
      PROVE  Pack(k, "pro", s) \in Packets(k, "pro")
  BY <1>4 DEF Packets, Pack
<1>6. ASSUME NEW s \in Requests(k, "pro"), NEW m \in Packets(k, "pro"),
             Mismatch("pro", s, Back(k, "pro", m)) = "none"
      PROVE  m = Pack(k, "pro", s)
  <2>1. PICK d \in Offered("pro") :
          /\ Canon(d) /\ m = ProPacket(k, Channels, d)
          /\ Back(k, "pro", m) = DecodedPro(k, m) /\ DecodedPro(k, m) # None
          /\ CanonicalPoints(DecodedPro(k, m)) = Heard(k, Channels, d)
    BY <1>3
  <2>2. ProMismatch(s, Heard(k, Channels, d), Channels) = "none"
    BY <1>6, <2>1 DEF Mismatch
  <2>3. ProPacket(k, Channels, s) = ProPacket(k, Channels, d)
    BY <1>1, <1>4, <2>1, <2>2, ProOnto
  <2> QED BY <1>4, <2>1, <2>3
<1>7. ASSUME NEW s \in Requests(k, "pro")
      PROVE  Mismatch("pro", s, Back(k, "pro", Pack(k, "pro", s))) = "none"
  <2> DEFINE m == ProPacket(k, Channels, s)
  <2>1. Pack(k, "pro", s) = m /\ m \in Packets(k, "pro") /\ Canon(s)
    BY <1>4, <1>5
  <2>2. Back(k, "pro", m) = DecodedPro(k, m) /\ DecodedPro(k, m) # None
        /\ CanonicalPoints(DecodedPro(k, m)) # None
    BY <1>3, <2>1
  <2>3. CanonicalPoints(DecodedPro(k, m)) = Heard(k, Channels, s)
    BY DEF Heard
  <2>4. ProMismatch(s, Heard(k, Channels, s), Channels) = "none"
    BY <1>1, <2>1, <2>2, <2>3, ProAgain
  <2> HIDE DEF m
  <2> QED BY <2>1, <2>2, <2>3, <2>4 DEF Mismatch
<1>8. \A m \in Packets(k, "pro") : m # None /\ Back(k, "pro", m) # None
  BY <1>3
<1> QED BY <1>5, <1>6, <1>7, <1>8

LEMMA Codec ==
  ASSUME NEW k \in Kinds, k # "plant_pro", NEW w \in Whats
  PROVE  /\ \A m \in Packets(k, w) : m # None /\ Back(k, w, m) # None
                                     /\ Asking(w, Back(k, w, m)) \in Requests(k, w)
         /\ \A s \in Requests(k, w) :
              /\ Pack(k, w, s) \in Packets(k, w)
              /\ \A m \in Packets(k, w) :
                   Mismatch(w, s, Back(k, w, m)) = "none" => m = Pack(k, w, s)
         /\ \A s : Mismatch(w, s, None) # "none"
         /\ (\A s \in Autos : InsideDay(s)) =>
              \A s \in Requests(k, w) : Mismatch(w, s, Back(k, w, Pack(k, w, s))) = "none"
<1>1. w = "auto" \/ w = "pro"
  BY DEF Whats
<1>2. \A m \in Packets(k, w) : Asking(w, Back(k, w, m)) \in Requests(k, w)
  BY DEF Requests
<1>3. \A s : Mismatch(w, s, None) # "none"
  BY DEF Mismatch, AutoMismatch, ProMismatch
<1>4. CASE w = "auto"
  BY <1>2, <1>3, <1>4, AutoCodec
<1>5. CASE w = "pro"
  BY <1>2, <1>3, <1>5, ProCodec
<1> QED BY <1>1, <1>4, <1>5

-----------------------------------------------------------------------------
(* What a write knows of the fixture while nobody else touches its         *)
(* schedule.  Fresh: the fixture has settled, and what is known of it is   *)
(* true or not what is asked for.  Lagging: it holds what is asked for,    *)
(* and neither what it may still answer nor what is known is that.         *)
(* Proven: it has settled, and what is known of it is true and confirms.   *)
Fresh(k, w, s, m, o, n) ==
  /\ o = None
  /\ n[w] = Back(k, w, m[w]) \/ Mismatch(w, s, n[w]) # "none"

Lagging(k, w, s, m, o, n) ==
  /\ m[w] = Pack(k, w, s)
  /\ Mismatch(w, s, Back(k, w, o[w])) # "none"
  /\ Mismatch(w, s, n[w]) # "none"

Proven(k, w, s, m, o, n) ==
  /\ o = None
  /\ n[w] = Back(k, w, m[w])
  /\ Mismatch(w, s, n[w]) = "none"

Open(k, w, s, m, o, n) == Fresh(k, w, s, m, o, n) \/ Lagging(k, w, s, m, o, n)

Sure(j, k, m, o, n) ==
  /\ j.at \in {"send", "mode", "verify"} => Open(k, j.what, j.req, m, o, n)
  /\ j.at \in {"confirmed", "capture"} => Proven(k, j.what, j.req, m, o, n)

(* What a fixture holds, what is known of it, what is captured.            *)
Store(k, m) ==
  /\ m = [w \in Whats |-> m[w]]
  /\ \A w \in Whats : m[w] \in Packets(k, w) \cup {None}

Report(k, n) ==
  /\ n = [w \in Whats |-> n[w]]
  /\ \A w \in Whats : \E m \in Packets(k, w) \cup {None} : n[w] = Back(k, w, m)

Captured(k, e) ==
  e # Nothing => e.what \in Whats /\ \E m \in Packets(k, e.what) : e.value = Back(k, e.what, m)

Writing == {"queued", "send", "mode", "verify", "confirmed", "unverified", "capture"}
Jobs(k) ==
  [at : Writing \cup {"idle", "ensure", "reread"}, what : Whats,
   req : {None} \cup UNION {Requests(k, w) : w \in Whats}, again : BOOLEAN, left : Nat,
   heard : Answers \cup {"nothing"}]

Meant(k, j) == j \in Jobs(k) /\ (j.at \in Writing => j.req \in Requests(k, j.what))

IInv ==
  /\ kind \in Kinds
  /\ Store(kind, mem)
  /\ old # None => Store(kind, old)
  /\ Report(kind, known)
  /\ Captured(kind, expected)
  /\ DOMAIN job = Tasks /\ job = [t \in Tasks |-> job[t]]
  /\ \A t \in Tasks : Meant(kind, job[t])
  /\ calm \in [Tasks -> BOOLEAN]
  /\ \A t \in Tasks : calm[t] => Sure(job[t], kind, mem, old, known)

-----------------------------------------------------------------------------
(* An answer, true or late, changes none of this.                          *)
LEMMA HearingKeeps ==
  ASSUME NEW k, NEW w, NEW s, NEW m, NEW o, NEW n, NEW o2, NEW n2,
         \/ o2 = None /\ n2[w] \in {n[w], Back(k, w, m[w])}
         \/ o # None /\ o2 = o /\ n2[w] \in {n[w], Back(k, w, o[w])}
         \/ o2 = o /\ n2[w] = n[w]
  PROVE  /\ Open(k, w, s, m, o, n) => Open(k, w, s, m, o2, n2)
         /\ Proven(k, w, s, m, o, n) => Proven(k, w, s, m, o2, n2)
<1>1. CASE o2 = None /\ n2[w] \in {n[w], Back(k, w, m[w])}
  BY <1>1 DEF Open, Fresh, Lagging, Proven
<1>2. CASE o # None /\ o2 = o /\ n2[w] \in {n[w], Back(k, w, o[w])}
  BY <1>2 DEF Open, Fresh, Lagging, Proven
<1>3. CASE o2 = o /\ n2[w] = n[w]
  BY <1>3 DEF Open, Fresh, Lagging, Proven
<1> QED BY <1>1, <1>2, <1>3

(* A readback that confirms is a true one.                                 *)
LEMMA OpenConfirmed ==
  ASSUME NEW k, NEW w, NEW s, NEW m, NEW o, NEW n,
         Open(k, w, s, m, o, n), Mismatch(w, s, n[w]) = "none"
  PROVE  Proven(k, w, s, m, o, n)
BY DEF Open, Fresh, Lagging, Proven

(* What is confirmed is what the fixture holds.                            *)
LEMMA ProvenHeld ==
  ASSUME NEW k \in Kinds, k # "plant_pro", NEW w \in Whats, NEW s \in Requests(k, w),
         NEW m, NEW o, NEW n, Store(k, m), Proven(k, w, s, m, o, n)
  PROVE  m[w] = Pack(k, w, s)
<1>1. n[w] = Back(k, w, m[w]) /\ Mismatch(w, s, n[w]) = "none"
  BY DEF Proven
<1>2. m[w] \in Packets(k, w) \cup {None}
  BY DEF Store
<1>3. Mismatch(w, s, None) # "none"
  BY Codec
<1>4. m[w] # None
  BY <1>1, <1>3 DEF Back
<1> QED BY <1>1, <1>2, <1>4, Codec

(* The packet is stored, or it is what the fixture already holds.          *)
LEMMA SendingKeeps ==
  ASSUME NEW k \in Kinds, k # "plant_pro", NEW w \in Whats, NEW s \in Requests(k, w),
         NEW m, NEW o, NEW n, NEW m2, NEW o2, Store(k, m), Open(k, w, s, m, o, n),
         m2 = [m EXCEPT ![w] = Pack(k, w, s)], o2 = IF m2 = m THEN o ELSE m
  PROVE  Open(k, w, s, m2, o2, n)
<1>1. m = [v \in Whats |-> m[v]] /\ m[w] \in Packets(k, w) \cup {None}
  BY DEF Store
<1>2. m2[w] = Pack(k, w, s)
  BY <1>1
<1>3. CASE m2 = m
  BY <1>3 DEF Open, Fresh, Lagging
<1>4. CASE m2 # m
  <2>1. m[w] # Pack(k, w, s)
    BY <1>1, <1>4
  <2>2. o2 = m
    BY <1>4
  <2>3. Mismatch(w, s, Back(k, w, m[w])) # "none"
    BY <1>1, <2>1, Codec DEF Back
  <2>4. Mismatch(w, s, n[w]) # "none"
    BY <2>1, <2>3 DEF Open, Fresh, Lagging
  <2> QED BY <1>2, <2>2, <2>3, <2>4 DEF Open, Lagging
<1> QED BY <1>3, <1>4

(* What is reported is what is stored, or was known before.                *)
LEMMA Reports ==
  ASSUME NEW m, Store(kind, m), Report(kind, known)
  PROVE  /\ Report(kind, Reported(m))
         /\ \A w \in Whats : Reported(m)[w] \in {known[w], Back(kind, w, m[w])}
<1>1. \A w \in Whats : Reported(m)[w] \in {known[w], Back(kind, w, m[w])}
  BY DEF Reported, Decoded, Back
<1>2. Reported(m) = [w \in Whats |-> Reported(m)[w]]
  BY DEF Reported
<1>3. ASSUME NEW w \in Whats
      PROVE  \E p \in Packets(kind, w) \cup {None} : Reported(m)[w] = Back(kind, w, p)
  BY <1>1 DEF Report, Store
<1> QED BY <1>1, <1>2, <1>3 DEF Report

LEMMA AskedKeeps ==
  ASSUME IInv, NEW which, Asked(which)
  PROVE  /\ Report(kind, known')
         /\ old' # None => Store(kind, old')
         /\ \A w \in Whats : \A s :
              /\ Open(kind, w, s, mem, old, known) => Open(kind, w, s, mem, old', known')
              /\ Proven(kind, w, s, mem, old, known) => Proven(kind, w, s, mem, old', known')
         /\ \A j : Sure(j, kind, mem, old, known) /\ j.what \in Whats
                     => Sure(j, kind, mem, old', known')
<1>1. Store(kind, mem) /\ (old # None => Store(kind, old)) /\ Report(kind, known)
  BY DEF IInv
<1>2. \/ known' = Reported(mem) /\ old' = None
      \/ old # None /\ known' = Reported(old) /\ old' = old
      \/ known' = known /\ old' = old
  BY DEF Asked, Hears, values
<1>3. Report(kind, known') /\ (old' # None => Store(kind, old'))
  BY <1>1, <1>2, Reports
<1>4. ASSUME NEW w \in Whats, NEW s
      PROVE  /\ Open(kind, w, s, mem, old, known) => Open(kind, w, s, mem, old', known')
             /\ Proven(kind, w, s, mem, old, known) => Proven(kind, w, s, mem, old', known')
  <2>1. \/ old' = None /\ known'[w] \in {known[w], Back(kind, w, mem[w])}
        \/ old # None /\ old' = old /\ known'[w] \in {known[w], Back(kind, w, old[w])}
        \/ old' = old /\ known'[w] = known[w]
    BY <1>1, <1>2, Reports
  <2> QED BY <2>1, HearingKeeps
<1>5. ASSUME NEW j, Sure(j, kind, mem, old, known), j.what \in Whats
      PROVE  Sure(j, kind, mem, old', known')
  BY <1>4, <1>5 DEF Sure
<1> QED BY <1>3, <1>4, <1>5

(* A step of one task that sends nothing, and whose new job is meant and   *)
(* sure.                                                                   *)
LEMMA TaskSteps ==
  ASSUME IInv, NEW t \in Tasks, NEW j, Meant(kind, j), job' = [job EXCEPT ![t] = j],
         kind' = kind, mem' = mem, Report(kind, known'), old' # None => Store(kind, old'),
         Captured(kind, expected'), calm' \in [Tasks -> BOOLEAN],
         \A u \in Tasks : calm'[u] => u = t \/ calm[u],
         \A i : Sure(i, kind, mem, old, known) /\ i.what \in Whats
                  => Sure(i, kind, mem, old', known'),
         calm'[t] => Sure(j, kind, mem, old', known')
  PROVE  IInv'
<1>1. DOMAIN job = Tasks /\ \A u \in Tasks : Meant(kind, job[u])
  BY DEF IInv
<1>2. job'[t] = j /\ \A u \in Tasks \ {t} : job'[u] = job[u]
  BY <1>1
<1>3. DOMAIN job' = Tasks /\ job' = [u \in Tasks |-> job'[u]]
  BY <1>1
<1>4. ASSUME NEW u \in Tasks
      PROVE  Meant(kind, job'[u]) /\ (calm'[u] => Sure(job'[u], kind, mem, old', known'))
  <2>1. CASE u = t
    BY <1>2, <2>1
  <2>2. CASE u # t
    <3>1. job'[u] = job[u] /\ Meant(kind, job[u]) /\ (calm'[u] => calm[u])
      BY <1>1, <1>2, <2>2
    <3>2. job[u].what \in Whats
      BY <3>1 DEF Meant, Jobs
    <3>3. calm[u] => Sure(job[u], kind, mem, old, known)
      BY DEF IInv
    <3> QED BY <3>1, <3>2, <3>3
  <2> QED BY <2>1, <2>2
<1>5. kind \in Kinds /\ Store(kind, mem)
  BY DEF IInv
<1> QED BY <1>3, <1>4, <1>5 DEF IInv

LEMMA Resting ==
  ASSUME NEW k, NEW m, NEW o, NEW n
  PROVE  Meant(k, Rest) /\ Sure(Rest, k, m, o, n)
<1>1. Polls \in Nat
  BY PollsAssumption
<1>2. Rest \in Jobs(k)
  BY <1>1 DEF Rest, Job, Jobs, Whats
<1> QED BY <1>2 DEF Rest, Job, Meant, Sure, Writing

(* A task leaves its job, and nothing is sent or heard.                    *)
LEMMA Leaving ==
  ASSUME IInv, NEW t \in Tasks, Done(t),
         UNCHANGED <<kind, mem, old, known, expected, calm>>
  PROVE  IInv'
<1>1. /\ Report(kind, known) /\ (old # None => Store(kind, old)) /\ Captured(kind, expected)
      /\ calm \in [Tasks -> BOOLEAN]
  BY DEF IInv
<1>2. Meant(kind, Rest) /\ Sure(Rest, kind, mem, old, known)
  BY Resting
<1> QED BY <1>1, <1>2, TaskSteps DEF Done

(* A task only moves on in its job.                                        *)
LEMMA Moving ==
  ASSUME IInv, NEW t \in Tasks, NEW j, Meant(kind, j), job' = [job EXCEPT ![t] = j],
         UNCHANGED <<kind, mem, old, known, expected, calm>>,
         calm[t] /\ Sure(job[t], kind, mem, old, known) => Sure(j, kind, mem, old, known)
  PROVE  IInv'
<1>1. /\ Report(kind, known) /\ (old # None => Store(kind, old)) /\ Captured(kind, expected)
      /\ calm \in [Tasks -> BOOLEAN]
      /\ calm[t] => Sure(job[t], kind, mem, old, known)
  BY DEF IInv
<1> QED BY <1>1, TaskSteps

LEMMA InitHolds == Init => IInv
<1> SUFFICES ASSUME Init PROVE IInv
  OBVIOUS
<1>1. kind \in Kinds /\ mem = [w \in Whats |-> None] /\ known = mem /\ old = None
      /\ expected = Nothing
  BY DEF Init
<1>2. Store(kind, mem)
  BY <1>1 DEF Store
<1>3. Report(kind, known)
  BY <1>1 DEF Report, Back
<1>4. \A t \in Tasks : job[t] = Rest /\ calm[t] = FALSE
  BY DEF Init
<1>5. calm \in [Tasks -> BOOLEAN] /\ DOMAIN job = Tasks /\ job = [t \in Tasks |-> job[t]]
  BY DEF Init
<1>6. Meant(kind, Rest)
  BY Resting
<1> QED BY <1>1, <1>2, <1>3, <1>4, <1>5, <1>6 DEF IInv, Captured

LEMMA CallKeeps == IInv /\ Call => IInv'
<1> SUFFICES ASSUME IInv, Call PROVE IInv'
  OBVIOUS
<1>1. PICK w \in Whats : \E s \in Offered(w) :
             job' = [job EXCEPT !["service"] = Job("queued", w, s)]
  BY DEF Call, Whats, Offered
<1>2. PICK s \in Offered(w) : job' = [job EXCEPT !["service"] = Job("queued", w, s)]
  BY <1>1
<1> DEFINE j == Job("queued", w, s)
<1>3. Polls \in Nat /\ s \in Requests(kind, w)
  BY PollsAssumption DEF Requests
<1>4. Meant(kind, j) /\ j.at = "queued"
  BY <1>3 DEF Job, Meant, Jobs, Writing
<1>5. Sure(j, kind, mem, old, known)
  BY <1>4 DEF Sure
<1>6. "service" \in Tasks /\ UNCHANGED <<kind, mem, old, known, expected, calm>>
  BY DEF Tasks, Call, fixture, values
<1> HIDE DEF j
<1>7. job' = [job EXCEPT !["service"] = j]
  BY <1>2 DEF j
<1> QED BY <1>4, <1>5, <1>6, <1>7, Moving

LEMMA WriteBeginsKeeps ==
  ASSUME NEW t \in Tasks
  PROVE  IInv /\ WriteBegins(t) => IInv'
<1> SUFFICES ASSUME IInv, WriteBegins(t) PROVE IInv'
  OBVIOUS
<1>1. UNCHANGED <<kind, mem, old, known, expected>> /\ job[t].at = "queued"
  BY DEF WriteBegins, fixture, values
<1>2. CASE Acceptable(job[t].what, job[t].req)
  <2> DEFINE j == [job[t] EXCEPT !.at = "send"]
  <2>1. job' = [job EXCEPT ![t] = j]
        /\ calm' = [calm EXCEPT ![t] = Settled(job[t].what, job[t].req)]
    BY <1>2 DEF WriteBegins
  <2>2. Meant(kind, job[t]) /\ calm \in [Tasks -> BOOLEAN]
    BY DEF IInv
  <2>3. Meant(kind, j) /\ j.at = "send" /\ j.what = job[t].what /\ j.req = job[t].req
    BY <1>1, <2>2 DEF Meant, Jobs, Writing
  <2>4. Settled(job[t].what, job[t].req) \in BOOLEAN
    BY DEF Settled
  <2>5. calm' \in [Tasks -> BOOLEAN] /\ calm'[t] = Settled(job[t].what, job[t].req)
        /\ \A u \in Tasks : calm'[u] => u = t \/ calm[u]
    BY <2>1, <2>2, <2>4
  <2> HIDE DEF j
  <2>6. calm'[t] => Sure(j, kind, mem, old, known)
    <3> SUFFICES ASSUME calm'[t] PROVE Sure(j, kind, mem, old, known)
      OBVIOUS
    <3>1. Fresh(kind, j.what, j.req, mem, old, known)
      BY <2>3, <2>5 DEF Settled, Fresh, Decoded, Back
    <3> QED BY <2>3, <3>1 DEF Sure, Open
  <2>7. Report(kind, known) /\ (old # None => Store(kind, old)) /\ Captured(kind, expected)
    BY DEF IInv
  <2> QED BY <1>1, <2>1, <2>3, <2>5, <2>6, <2>7, TaskSteps
<1>3. CASE ~ Acceptable(job[t].what, job[t].req)
  BY <1>1, <1>3, Leaving DEF WriteBegins
<1> QED BY <1>2, <1>3

LEMMA SendKeeps ==
  ASSUME "plant_pro" \notin Kinds, NEW t \in Tasks
  PROVE  IInv /\ Send(t) => IInv'
<1> SUFFICES ASSUME IInv, Send(t) PROVE IInv'
  OBVIOUS
<1> DEFINE w == job[t].what
<1> DEFINE s == job[t].req
<1>1. /\ kind \in Kinds /\ kind # "plant_pro" /\ Store(kind, mem) /\ (old # None => Store(kind, old))
      /\ Report(kind, known) /\ Captured(kind, expected) /\ calm \in [Tasks -> BOOLEAN]
      /\ DOMAIN job = Tasks /\ (\A u \in Tasks : Meant(kind, job[u]))
      /\ (\A u \in Tasks : calm[u] => Sure(job[u], kind, mem, old, known))
  BY DEF IInv
<1>2. UNCHANGED <<kind, known, expected>> /\ job[t].at = "send"
  BY DEF Send, values
<1>3. w \in Whats /\ s \in Requests(kind, w)
  BY <1>1, <1>2 DEF Meant, Jobs, Writing
<1>4. \/ mem' = mem /\ old' = old
      \/ mem' = [mem EXCEPT ![w] = Pack(kind, w, s)] /\ old' = IF mem' = mem THEN old ELSE mem
  BY DEF Send, Packet, Pack
<1>5. \E j : job' = [job EXCEPT ![t] = j] /\ j \in {Rest, [job[t] EXCEPT !.at = "mode"]}
  BY DEF Send, Done
<1>6. PICK j : job' = [job EXCEPT ![t] = j] /\ j \in {Rest, [job[t] EXCEPT !.at = "mode"]}
  BY <1>5
<1>7. /\ Meant(kind, j)
      /\ j = Rest \/ (j.at = "mode" /\ j.what = w /\ j.req = s)
  <2>1. CASE j = Rest
    BY <2>1, Resting
  <2>2. CASE j = [job[t] EXCEPT !.at = "mode"]
    BY <1>1, <1>3, <2>2 DEF Meant, Jobs, Writing
  <2> QED BY <1>6, <2>1, <2>2
<1>8. calm' \in [Tasks -> BOOLEAN] /\ \A u \in Tasks : calm'[u] => u = t /\ calm[u]
  BY <1>1 DEF Send, Tasks
<1> HIDE DEF w, s
<1>9. Store(kind, mem') /\ (old' # None => Store(kind, old'))
  <2>1. Pack(kind, w, s) \in Packets(kind, w)
    BY <1>1, <1>3, Codec
  <2> QED BY <1>1, <1>3, <1>4, <2>1 DEF Store
<1>10. calm'[t] => Sure(j, kind, mem', old', known)
  <2> SUFFICES ASSUME calm'[t] PROVE Sure(j, kind, mem', old', known)
    OBVIOUS
  <2>1. Open(kind, w, s, mem, old, known)
    BY <1>1, <1>2, <1>8 DEF Sure, w, s
  <2>2. Open(kind, w, s, mem', old', known)
    <3>1. CASE mem' = mem /\ old' = old
      BY <2>1, <3>1
    <3>2. CASE mem' = [mem EXCEPT ![w] = Pack(kind, w, s)] /\ old' = IF mem' = mem THEN old ELSE mem
      BY <1>1, <1>3, <2>1, <3>2, SendingKeeps
    <3> QED BY <1>4, <3>1, <3>2
  <2>3. CASE j = Rest
    BY <2>3, Resting
  <2>4. CASE j.at = "mode" /\ j.what = w /\ j.req = s
    BY <2>2, <2>4 DEF Sure
  <2> QED BY <1>7, <2>3, <2>4
<1>11. DOMAIN job' = Tasks /\ job' = [u \in Tasks |-> job'[u]] /\ job'[t] = j
       /\ \A u \in Tasks : u # t => job'[u] = job[u]
  BY <1>1, <1>6
<1>12. \A u \in Tasks : Meant(kind, job'[u]) /\ (calm'[u] => Sure(job'[u], kind, mem', old', known))
  BY <1>1, <1>7, <1>8, <1>10, <1>11
<1> QED BY <1>1, <1>2, <1>8, <1>9, <1>11, <1>12 DEF IInv

LEMMA ActivateKeeps ==
  ASSUME NEW t \in Tasks
  PROVE  IInv /\ Activate(t) => IInv'
<1> SUFFICES ASSUME IInv, Activate(t) PROVE IInv'
  OBVIOUS
<1>1. UNCHANGED <<kind, mem, old, known, expected, calm>> /\ job[t].at = "mode"
  BY DEF Activate
<1>2. CASE Done(t)
  BY <1>1, <1>2, Leaving
<1>3. CASE job' = [job EXCEPT ![t].at = "verify"]
  <2> DEFINE j == [job[t] EXCEPT !.at = "verify"]
  <2>1. Meant(kind, job[t])
    BY DEF IInv
  <2>2. Meant(kind, j) /\ j.at = "verify" /\ j.what = job[t].what /\ j.req = job[t].req
    BY <1>1, <2>1 DEF Meant, Jobs, Writing
  <2>3. job' = [job EXCEPT ![t] = j]
    BY <1>3
  <2> HIDE DEF j
  <2>4. Sure(job[t], kind, mem, old, known) => Sure(j, kind, mem, old, known)
    BY <1>1, <2>2 DEF Sure
  <2> QED BY <1>1, <2>2, <2>3, <2>4, Moving
<1> QED BY <1>2, <1>3 DEF Activate

LEMMA WriteEndsKeeps ==
  ASSUME NEW t \in Tasks
  PROVE  IInv /\ WriteEnds(t) => IInv'
<1> SUFFICES ASSUME IInv, WriteEnds(t) PROVE IInv'
  OBVIOUS
<1>1. UNCHANGED <<kind, mem, old, known, expected, calm>>
  BY DEF WriteEnds, fixture
<1>2. CASE job[t].at = "confirmed" /\ t = "service"
  <2> DEFINE j == [job[t] EXCEPT !.at = "capture"]
  <2>1. Meant(kind, job[t])
    BY DEF IInv
  <2>2. Meant(kind, j) /\ j.at = "capture" /\ j.what = job[t].what /\ j.req = job[t].req
    BY <1>2, <2>1 DEF Meant, Jobs, Writing
  <2>3. job' = [job EXCEPT ![t] = j]
    BY <1>2 DEF WriteEnds
  <2> HIDE DEF j
  <2>4. Sure(job[t], kind, mem, old, known) => Sure(j, kind, mem, old, known)
    BY <1>2, <2>2 DEF Sure
  <2> QED BY <1>1, <2>2, <2>3, <2>4, Moving
<1>3. CASE ~ (job[t].at = "confirmed" /\ t = "service")
  BY <1>1, <1>3, Leaving DEF WriteEnds
<1> QED BY <1>2, <1>3

LEMMA DeadlineKeeps ==
  ASSUME NEW t \in Tasks
  PROVE  IInv /\ Deadline(t) => IInv'
BY Leaving DEF Deadline, fixture, values

LEMMA GuardianEnsuresKeeps == IInv /\ GuardianEnsures => IInv'
<1> SUFFICES ASSUME IInv, GuardianEnsures PROVE IInv'
  OBVIOUS
<1>1. UNCHANGED <<kind, mem, old, known, expected, calm>> /\ job["guardian"].at = "ensure"
      /\ "guardian" \in Tasks
  BY DEF GuardianEnsures, Tasks
<1>2. CASE Done("guardian")
  BY <1>1, <1>2, Leaving
<1>3. CASE job' = [job EXCEPT !["guardian"].at = "reread"]
  <2> DEFINE j == [job["guardian"] EXCEPT !.at = "reread"]
  <2>1. Meant(kind, job["guardian"])
    BY <1>1 DEF IInv
  <2>2. Meant(kind, j) /\ j.at = "reread"
    BY <2>1 DEF Meant, Jobs, Writing
  <2>3. job' = [job EXCEPT !["guardian"] = j]
    BY <1>3
  <2> HIDE DEF j
  <2>4. Sure(j, kind, mem, old, known)
    BY <2>2 DEF Sure
  <2> QED BY <1>1, <2>2, <2>3, <2>4, Moving
<1> QED BY <1>2, <1>3 DEF GuardianEnsures

LEMMA NotifiedKeeps == IInv /\ Notified => IInv'
<1> SUFFICES ASSUME IInv, Notified PROVE IInv'
  OBVIOUS
<1>1. PICK which \in {"current", "previous"} : Hears(which)
  BY DEF Notified
<1>2. Asked(which)
  BY <1>1 DEF Asked
<1>3. UNCHANGED <<kind, mem, expected, job, calm>>
  BY DEF Notified
<1>4. /\ kind \in Kinds /\ Store(kind, mem) /\ Captured(kind, expected) /\ calm \in [Tasks -> BOOLEAN]
      /\ DOMAIN job = Tasks /\ job = [t \in Tasks |-> job[t]]
      /\ \A t \in Tasks : Meant(kind, job[t]) /\ (calm[t] => Sure(job[t], kind, mem, old, known))
  BY DEF IInv
<1>5. Report(kind, known') /\ (old' # None => Store(kind, old'))
  BY <1>2, AskedKeeps
<1>6. ASSUME NEW t \in Tasks, calm[t]
      PROVE  Sure(job[t], kind, mem, old', known')
  <2>1. Sure(job[t], kind, mem, old, known) /\ job[t].what \in Whats
    BY <1>4, <1>6 DEF Meant, Jobs
  <2> QED BY <1>2, <2>1, AskedKeeps
<1> QED BY <1>3, <1>4, <1>5, <1>6 DEF IInv

LEMMA AppWritesKeeps == IInv /\ AppWrites => IInv'
<1> SUFFICES ASSUME IInv, AppWrites PROVE IInv'
  OBVIOUS
<1>1. /\ kind \in Kinds /\ Store(kind, mem) /\ (old # None => Store(kind, old))
      /\ Report(kind, known) /\ Captured(kind, expected)
      /\ DOMAIN job = Tasks /\ job = [t \in Tasks |-> job[t]]
      /\ \A t \in Tasks : Meant(kind, job[t])
  BY DEF IInv
<1>2. UNCHANGED <<kind, old, known, expected, job>> /\ calm' = [t \in Tasks |-> FALSE]
  BY DEF AppWrites, values
<1>3. Store(kind, mem')
  <2>1. CASE mem' = mem
    BY <1>1, <2>1
  <2>2. CASE mem' # mem
    <3>1. PICK s \in Autos : mem' = [mem EXCEPT !["auto"] = Pack(kind, "auto", s)]
      BY <2>2 DEF AppWrites, Packet, Pack
    <3>2. "auto" \in Whats /\ Pack(kind, "auto", s) \in Packets(kind, "auto")
      BY DEF Whats, Packets, Offered
    <3> QED BY <1>1, <3>1, <3>2 DEF Store
  <2> QED BY <2>1, <2>2
<1> QED BY <1>1, <1>2, <1>3 DEF IInv

LEMMA VerifyKeeps ==
  ASSUME NEW t \in Tasks
  PROVE  IInv /\ Verify(t) => IInv'
<1> SUFFICES ASSUME IInv, Verify(t) PROVE IInv'
  OBVIOUS
<1> DEFINE i == job[t]
<1>1. /\ Meant(kind, i) /\ Captured(kind, expected) /\ calm \in [Tasks -> BOOLEAN]
      /\ calm[t] => Sure(i, kind, mem, old, known)
  BY DEF IInv
<1>2. UNCHANGED <<kind, mem, expected, calm>> /\ i.at = "verify"
  BY DEF Verify
<1>3. PICK which \in Answers :
        /\ Asked(which)
        /\ \/ Confirms(i, which) /\ job' = [job EXCEPT ![t] = [i EXCEPT !.at = "confirmed"]]
           \/ job' = [job EXCEPT ![t] =
                IF i.left > 1 THEN [i EXCEPT !.left = @ - 1]
                ELSE IF i.again THEN [i EXCEPT !.at = "send", !.left = Polls, !.again = FALSE]
                ELSE [i EXCEPT !.at = "unverified", !.heard = which]]
  BY DEF Verify
<1>4. \E j : /\ job' = [job EXCEPT ![t] = j] /\ Meant(kind, j)
             /\ j.what = i.what /\ j.req = i.req
             /\ \/ j.at = "confirmed" /\ Confirms(i, which)
                \/ j.at \in {"verify", "send", "unverified"}
  <2>1. i \in Jobs(kind) /\ i.req \in Requests(kind, i.what)
    BY <1>1, <1>2 DEF Meant, Writing
  <2>2. CASE Confirms(i, which) /\ job' = [job EXCEPT ![t] = [i EXCEPT !.at = "confirmed"]]
    <3> DEFINE j == [i EXCEPT !.at = "confirmed"]
    <3>1. j \in Jobs(kind) /\ j.what = i.what /\ j.req = i.req /\ j.at = "confirmed"
      BY <2>1 DEF Jobs, Writing
    <3> HIDE DEF i
    <3>2. job' = [job EXCEPT ![t] = j]
      BY <2>2
    <3> HIDE DEF j
    <3> QED BY <2>1, <2>2, <3>1, <3>2 DEF Meant
  <2>3. CASE i.left > 1 /\ job' = [job EXCEPT ![t] = [i EXCEPT !.left = @ - 1]]
    <3> DEFINE j == [i EXCEPT !.left = i.left - 1]
    <3>1. i.left - 1 \in Nat
      BY <2>1, <2>3 DEF Jobs
    <3>2. j \in Jobs(kind) /\ j.what = i.what /\ j.req = i.req /\ j.at = "verify"
      BY <1>2, <2>1, <3>1 DEF Jobs, Writing
    <3> HIDE DEF i
    <3>3. job' = [job EXCEPT ![t] = j]
      BY <2>3
    <3> HIDE DEF j
    <3> QED BY <2>1, <3>2, <3>3 DEF Meant
  <2>4. CASE job' = [job EXCEPT ![t] =
                       [i EXCEPT !.at = "send", !.left = Polls, !.again = FALSE]]
    <3> DEFINE j == [i EXCEPT !.at = "send", !.left = Polls, !.again = FALSE]
    <3>1. j \in Jobs(kind) /\ j.what = i.what /\ j.req = i.req /\ j.at = "send"
      BY <2>1, PollsAssumption DEF Jobs, Writing
    <3> HIDE DEF i
    <3>2. job' = [job EXCEPT ![t] = j]
      BY <2>4
    <3> HIDE DEF j
    <3> QED BY <2>1, <3>1, <3>2 DEF Meant
  <2>5. CASE job' = [job EXCEPT ![t] = [i EXCEPT !.at = "unverified", !.heard = which]]
    <3> DEFINE j == [i EXCEPT !.at = "unverified", !.heard = which]
    <3>1. j \in Jobs(kind) /\ j.what = i.what /\ j.req = i.req /\ j.at = "unverified"
      BY <2>1 DEF Jobs, Writing
    <3> HIDE DEF i
    <3>2. job' = [job EXCEPT ![t] = j]
      BY <2>5
    <3> HIDE DEF j
    <3> QED BY <2>1, <3>1, <3>2 DEF Meant
  <2> HIDE DEF i
  <2> QED BY <1>3, <2>2, <2>3, <2>4, <2>5
<1>5. PICK j : /\ job' = [job EXCEPT ![t] = j] /\ Meant(kind, j)
               /\ j.what = i.what /\ j.req = i.req
               /\ \/ j.at = "confirmed" /\ Confirms(i, which)
                  \/ j.at \in {"verify", "send", "unverified"}
  BY <1>4
<1> HIDE DEF i
<1>6. calm'[t] => Sure(j, kind, mem, old', known')
  <2> SUFFICES ASSUME calm'[t] PROVE Sure(j, kind, mem, old', known')
    OBVIOUS
  <2>1. Open(kind, i.what, i.req, mem, old, known) /\ i.what \in Whats
    BY <1>1, <1>2 DEF Sure, Meant, Jobs
  <2>2. Open(kind, i.what, i.req, mem, old', known')
    BY <1>3, <2>1, AskedKeeps
  <2>3. CASE j.at = "confirmed" /\ Confirms(i, which)
    <3>1. Mismatch(i.what, i.req, known'[i.what]) = "none"
      BY <2>3 DEF Confirms
    <3>2. Proven(kind, i.what, i.req, mem, old', known')
      BY <2>2, <3>1, OpenConfirmed
    <3> QED BY <1>5, <2>3, <3>2 DEF Sure
  <2>4. CASE j.at \in {"verify", "send", "unverified"}
    BY <1>5, <2>2, <2>4 DEF Sure
  <2> QED BY <1>5, <2>3, <2>4
<1>7. /\ Report(kind, known') /\ (old' # None => Store(kind, old'))
      /\ \A c : Sure(c, kind, mem, old, known) /\ c.what \in Whats
                  => Sure(c, kind, mem, old', known')
  BY <1>3, AskedKeeps
<1> QED BY <1>1, <1>2, <1>5, <1>6, <1>7, TaskSteps

LEMMA CaptureKeeps ==
  ASSUME "plant_pro" \notin Kinds
  PROVE  IInv /\ Capture => IInv'
<1> SUFFICES ASSUME IInv, Capture PROVE IInv'
  OBVIOUS
<1>1. PICK which \in Answers :
        /\ Asked(which)
        /\ LET w == job["service"].what IN
           expected' = IF which # "error" /\ kmode' = ModeOf(w) /\ known'[w] # None
                       THEN [what |-> w, value |-> known'[w]] ELSE expected
  BY DEF Capture
<1>2. UNCHANGED <<kind, mem, calm>> /\ job' = [job EXCEPT !["service"] = Rest]
      /\ "service" \in Tasks
  BY DEF Capture, Done, Tasks
<1>3. /\ Report(kind, known') /\ (old' # None => Store(kind, old'))
      /\ \A c : Sure(c, kind, mem, old, known) /\ c.what \in Whats
                  => Sure(c, kind, mem, old', known')
  BY <1>1, AskedKeeps
<1>4. /\ Captured(kind, expected) /\ calm \in [Tasks -> BOOLEAN]
      /\ job["service"].what \in Whats
  BY <1>2 DEF IInv, Meant, Jobs
<1>5. Captured(kind, expected')
  <2>1. CASE expected' = expected
    BY <1>4, <2>1
  <2>2. CASE expected' # expected
    <3> DEFINE w == job["service"].what
    <3>1. expected'.what = w /\ expected'.value = known'[w] /\ known'[w] # None
      BY <1>1, <2>2
    <3>2. PICK m \in Packets(kind, w) \cup {None} : known'[w] = Back(kind, w, m)
      BY <1>3, <1>4 DEF Report
    <3>3. m \in Packets(kind, w)
      BY <3>1, <3>2 DEF Back
    <3> HIDE DEF w
    <3>4. w \in Whats
      BY <1>4 DEF w
    <3> QED BY <3>1, <3>2, <3>3, <3>4 DEF Captured
  <2> QED BY <2>1, <2>2
<1>6. Meant(kind, Rest) /\ Sure(Rest, kind, mem, old', known')
  BY Resting
<1> QED BY <1>2, <1>3, <1>4, <1>5, <1>6, TaskSteps

LEMMA GuardianReadsKeeps ==
  ASSUME "plant_pro" \notin Kinds
  PROVE  IInv /\ GuardianReads => IInv'
<1> SUFFICES ASSUME IInv, GuardianReads PROVE IInv'
  OBVIOUS
<1>1. UNCHANGED <<kind, mem, expected, calm>> /\ "guardian" \in Tasks
  BY DEF GuardianReads, Tasks
<1>2. /\ kind \in Kinds /\ kind # "plant_pro"
      /\ Captured(kind, expected) /\ calm \in [Tasks -> BOOLEAN] /\ DOMAIN job = Tasks
  BY DEF IInv
<1> DEFINE Reread == Job("ensure", "auto", None)
<1>3. PICK which \in Answers :
        /\ Asked(which)
        /\ job' = [job EXCEPT !["guardian"] =
                     IF which = "error" THEN Rest
                     ELSE IF kmode' = Target THEN Reconciled
                     ELSE IF @.at = "idle" THEN Reread ELSE Rest]
  BY DEF GuardianReads
<1>4. \E j \in {Rest, Reconciled, Reread} : job' = [job EXCEPT !["guardian"] = j]
  BY <1>3
<1>5. PICK j \in {Rest, Reconciled, Reread} : job' = [job EXCEPT !["guardian"] = j]
  BY <1>4
<1>6. Meant(kind, Reread) /\ Reread.at = "ensure"
  BY PollsAssumption DEF Job, Meant, Jobs, Writing, Whats
<1>7. CASE j = Repush /\ expected # Nothing
  <2>1. PICK m \in Packets(kind, expected.what) : expected.value = Back(kind, expected.what, m)
    BY <1>2, <1>7 DEF Captured
  <2>2. expected.what \in Whats
    BY <1>2, <1>7 DEF Captured
  <2> DEFINE r == Asking(expected.what, expected.value)
  <2>3. r \in Requests(kind, expected.what)
    BY <1>2, <2>1, <2>2, Codec
  <2>4. j = Job("queued", expected.what, r)
    BY <1>7 DEF Repush, Asking
  <2> HIDE DEF r
  <2>5. Meant(kind, j) /\ j.at = "queued"
    BY <2>2, <2>3, <2>4, PollsAssumption DEF Job, Meant, Jobs, Writing
  <2>6. Sure(j, kind, mem, old', known')
    BY <2>5 DEF Sure
  <2> QED BY <1>1, <1>2, <1>3, <1>5, <2>5, <2>6, AskedKeeps, TaskSteps
<1>8. CASE j = Rest
  <2>1. Meant(kind, j) /\ Sure(j, kind, mem, old', known')
    BY <1>8, Resting
  <2> QED BY <1>1, <1>2, <1>3, <1>5, <2>1, AskedKeeps, TaskSteps
<1>9. CASE j = Reread
  <2>1. Meant(kind, j) /\ j.at = "ensure"
    BY <1>6, <1>9
  <2>2. Sure(j, kind, mem, old', known')
    BY <2>1 DEF Sure
  <2> QED BY <1>1, <1>2, <1>3, <1>5, <2>1, <2>2, AskedKeeps, TaskSteps
<1>10. Reconciled = Rest \/ (Reconciled = Repush /\ expected # Nothing)
  BY DEF Reconciled, Drifted
<1> QED BY <1>5, <1>7, <1>8, <1>9, <1>10

LEMMA Inductive ==
  ASSUME "plant_pro" \notin Kinds
  PROVE  IInv /\ [Next]_vars => IInv'
<1> SUFFICES ASSUME IInv, [Next]_vars PROVE IInv'
  OBVIOUS
<1>1. CASE Call
  BY <1>1, CallKeeps
<1>2. CASE Capture
  BY <1>2, CaptureKeeps
<1>3. CASE GuardianReads
  BY <1>3, GuardianReadsKeeps
<1>4. CASE GuardianEnsures
  BY <1>4, GuardianEnsuresKeeps
<1>5. ASSUME NEW t \in Tasks, Write(t) PROVE IInv'
  BY <1>5, WriteBeginsKeeps, SendKeeps, ActivateKeeps, VerifyKeeps, WriteEndsKeeps, DeadlineKeeps
     DEF Write
<1>6. CASE Notified
  BY <1>6, NotifiedKeeps
<1>7. CASE AppWrites
  BY <1>7, AppWritesKeeps
<1>8. CASE UNCHANGED vars
  BY <1>8 DEF vars, fixture, values, IInv
<1> QED BY <1>1, <1>2, <1>3, <1>4, <1>5, <1>6, <1>7, <1>8 DEF Next

LEMMA Invariance ==
  ASSUME "plant_pro" \notin Kinds
  PROVE  Spec => []IInv
<1>1. Init => IInv
  BY InitHolds
<1>2. IInv /\ [Next]_vars => IInv'
  BY Inductive
<1> QED BY <1>1, <1>2, PTL DEF Spec

-----------------------------------------------------------------------------
(* A write that is confirmed, and that nobody else disturbed, is what the  *)
(* fixture holds (_async_write_and_verify_native_schedule): whatever       *)
(* schedules are asked for, however late and however often the fixture     *)
(* still answers with its old ones.                                        *)
THEOREM ConfirmedIsHeld ==
  ASSUME "plant_pro" \notin Kinds
  PROVE  Spec => ConfirmedHeld
<1>1. ASSUME IInv, NEW t \in Tasks, job[t].at = "confirmed", calm[t]
      PROVE  mem[job[t].what] = Packet(job[t].what, job[t].req)
  <2>1. kind \in Kinds /\ kind # "plant_pro" /\ Store(kind, mem) /\ Meant(kind, job[t])
        /\ Sure(job[t], kind, mem, old, known)
    BY <1>1 DEF IInv
  <2>2. job[t].what \in Whats /\ job[t].req \in Requests(kind, job[t].what)
    BY <1>1, <2>1 DEF Meant, Jobs, Writing
  <2>3. Proven(kind, job[t].what, job[t].req, mem, old, known)
    BY <1>1, <2>1 DEF Sure
  <2>4. mem[job[t].what] = Pack(kind, job[t].what, job[t].req)
    BY <2>1, <2>2, <2>3, ProvenHeld
  <2> QED BY <2>4 DEF Pack, Packet
<1>2. IInv => \A t \in Tasks :
                job[t].at = "confirmed" /\ WriteEnds(t) /\ calm[t]
                  => mem[job[t].what] = Packet(job[t].what, job[t].req)
  BY <1>1
<1>3. Spec => []IInv
  BY Invariance
<1> QED BY <1>2, <1>3, PTL DEF ConfirmedHeld

(* The schedule a service captures for the guardian to enforce is what the *)
(* fixture holds, and confirms what the service was asked for              *)
(* (_async_capture_expected_schedule), unless another came between.        *)
THEOREM CaptureIsReadback ==
  ASSUME "plant_pro" \notin Kinds
  PROVE  Spec => CapturedAsWritten
<1>1. ASSUME IInv, Capture, calm["service"], expected' # expected
      PROVE  /\ expected'.value = Decoded(expected'.what, mem[expected'.what])
             /\ Mismatch(expected'.what, job["service"].req, expected'.value) = "none"
  <2> DEFINE w == job["service"].what
  <2> DEFINE s == job["service"].req
  <2>1. PICK which \in Answers :
          /\ Asked(which)
          /\ expected' = IF which # "error" /\ kmode' = ModeOf(w) /\ known'[w] # None
                         THEN [what |-> w, value |-> known'[w]] ELSE expected
    BY <1>1 DEF Capture
  <2>2. expected'.what = w /\ expected'.value = known'[w]
    BY <1>1, <2>1
  <2>3. job["service"].at = "capture" /\ "service" \in Tasks
    BY <1>1 DEF Capture, Tasks
  <2>4. Sure(job["service"], kind, mem, old, known) /\ w \in Whats
    BY <1>1, <2>3 DEF IInv, Meant, Jobs
  <2>5. Proven(kind, w, s, mem, old, known)
    BY <2>3, <2>4 DEF Sure
  <2> HIDE DEF w, s
  <2>6. Proven(kind, w, s, mem, old', known')
    BY <1>1, <2>1, <2>4, <2>5, AskedKeeps
  <2>7. known'[w] = Back(kind, w, mem[w]) /\ Mismatch(w, s, known'[w]) = "none"
    BY <2>6 DEF Proven
  <2>8. s = job["service"].req
    BY DEF s
  <2> QED BY <2>2, <2>7, <2>8 DEF Back, Decoded
<1>2. IInv => (Capture /\ calm["service"] /\ expected' # expected
                 => /\ expected'.value = Decoded(expected'.what, mem[expected'.what])
                    /\ Mismatch(expected'.what, job["service"].req, expected'.value) = "none")
  BY <1>1
<1>3. Spec => []IInv
  BY Invariance
<1> QED BY <1>2, <1>3, PTL DEF CapturedAsWritten

(* The other way round: a write is not given up as unverified on a true    *)
(* answer of a fixture that holds and runs what was asked for, when no     *)
(* ramp crosses midnight.                                                  *)
THEOREM HeldIsConfirmed ==
  ASSUME "plant_pro" \notin Kinds, \A s \in Autos : InsideDay(s)
  PROVE  Spec => ConfirmedWhenHeld
<1>1. ASSUME IInv, NEW t \in Tasks, Verify(t),
             job'[t].at = "unverified", job'[t].heard = "current",
             mem[job[t].what] = Packet(job[t].what, job[t].req), fmode = ModeOf(job[t].what)
      PROVE  FALSE
  <2> DEFINE j == job[t]
  <2>1. kind \in Kinds /\ kind # "plant_pro" /\ Meant(kind, j) /\ DOMAIN job = Tasks /\ j.at = "verify"
    BY <1>1 DEF IInv, Verify
  <2>2. j \in Jobs(kind) /\ j.what \in Whats /\ j.req \in Requests(kind, j.what)
    BY <2>1 DEF Meant, Jobs, Writing
  <2>3. PICK which \in Answers :
          /\ Asked(which)
          /\ \/ Confirms(j, which) /\ job' = [job EXCEPT ![t] = [j EXCEPT !.at = "confirmed"]]
             \/ /\ ~Confirms(j, which)
                /\ job' = [job EXCEPT ![t] =
                     IF j.left > 1 THEN [j EXCEPT !.left = @ - 1]
                     ELSE IF j.again THEN [j EXCEPT !.at = "send", !.left = Polls, !.again = FALSE]
                     ELSE [j EXCEPT !.at = "unverified", !.heard = which]]
    BY <1>1 DEF Verify
  <2>4. ~Confirms(j, which) /\ which = "current"
    <3>1. CASE job'[t] = [j EXCEPT !.at = "confirmed"]
      BY <1>1, <2>2, <3>1 DEF Jobs
    <3>2. CASE job'[t] = [j EXCEPT !.left = @ - 1]
      BY <1>1, <2>1, <2>2, <3>2 DEF Jobs
    <3>3. CASE job'[t] = [j EXCEPT !.at = "send", !.left = Polls, !.again = FALSE]
      BY <1>1, <2>2, <3>3 DEF Jobs
    <3>4. CASE job'[t] = [j EXCEPT !.at = "unverified", !.heard = which] /\ ~Confirms(j, which)
      BY <1>1, <2>2, <3>4 DEF Jobs
    <3>5. \/ job'[t] = [j EXCEPT !.at = "confirmed"]
          \/ job'[t] = [j EXCEPT !.left = @ - 1]
          \/ job'[t] = [j EXCEPT !.at = "send", !.left = Polls, !.again = FALSE]
          \/ job'[t] = [j EXCEPT !.at = "unverified", !.heard = which] /\ ~Confirms(j, which)
      <4> HIDE DEF j
      <4> QED BY <2>1, <2>3
    <3> HIDE DEF j
    <3> QED BY <3>1, <3>2, <3>3, <3>4, <3>5
  <2>5. mem[j.what] = Pack(kind, j.what, j.req)
    BY <1>1 DEF Packet, Pack
  <2> HIDE DEF j
  <2>6. mem[j.what] # None /\ Mismatch(j.what, j.req, Back(kind, j.what, mem[j.what])) = "none"
    BY <1>1, <2>1, <2>2, <2>5, Codec
  <2>7. known' = Reported(mem)
    BY <2>3, <2>4 DEF Asked, Hears
  <2>8. known'[j.what] = Back(kind, j.what, mem[j.what])
    BY <1>1, <2>2, <2>6, <2>7 DEF Reported, Decoded, Back, j
  <2> QED BY <2>4, <2>6, <2>8 DEF Confirms
<1>2. IInv => \A t \in Tasks :
                Verify(t) /\ job'[t].at = "unverified" /\ job'[t].heard = "current"
                  => ~ /\ mem[job[t].what] = Packet(job[t].what, job[t].req)
                       /\ fmode = ModeOf(job[t].what)
  BY <1>1
<1>3. Spec => []IInv
  BY Invariance
<1> QED BY <1>2, <1>3, PTL DEF ConfirmedWhenHeld
=============================================================================
