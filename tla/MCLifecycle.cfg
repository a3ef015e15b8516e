SPECIFICATION FairSpec
CONSTANTS
  None = None
  Hold = TRUE
  Setups = 2
  Built = 4
  Users = {u1}
  Guard = guard
INVARIANTS
  ClientsOwned
  ClosedForGood
  ShutdownQuiet
PROPERTIES
  ShutdownReleases
  HoldRearmed
CHECK_DEADLOCK FALSE
