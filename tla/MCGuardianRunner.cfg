SPECIFICATION RunnerFairSpec
CONSTANTS
  Nobody = Nobody
  Runners = {r1, r2, r3}
  Services = {s1, s2}
INVARIANTS
  OneTimer
  DeferralRearmed
PROPERTIES
  SilentAfterUnload
  RerunServed
CHECK_DEADLOCK FALSE
