------------------------- MODULE MCScheduleWrites -------------------------
(* A day of six minutes; two Auto schedules that differ in a ramp and in   *)
(* the level of a channel a one-channel fixture has not; one Professional  *)
(* schedule whose points come unsorted.                                    *)
EXTENDS ScheduleWrites

MCAutos ==
  {[sunrise |-> TimeRamp("tuple", 1, r), sunset |-> TimeRamp("tuple", 4, 1),
    sleep |-> Clock("tuple", 5), day |-> <<1, r - 1>>, night |-> <<0, 1>>] : r \in {1, 2}}

MCPros == {<<[at |-> 3, levels |-> <<1, 0>>], [at |-> 1, levels |-> <<0, 1>>]>>}

MCMin == [p \in Protocols |-> 2]
MCMax == [p \in Protocols |-> IF p = "classic" THEN 2 ELSE 3]
=============================================================================
