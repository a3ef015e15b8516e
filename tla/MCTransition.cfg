SPECIFICATION FairSpec
CONSTANTS
  r1 = r1
  r2 = r2
  c = c
  g = g
  None = None
  Ramps <- MCRamps
  Commands <- MCCommands
  Background <- MCBackground
  Steps = 2
  Looks = {0, 1}
  Interpolated <- MCInterpolated
  MaxAsked = 3
INVARIANTS
  FrameStays
PROPERTIES
  NewerCommandStands
  RampEnds
CHECK_DEADLOCK FALSE
