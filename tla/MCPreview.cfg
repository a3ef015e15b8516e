SPECIFICATION FairSpec
CONSTANTS
  Users = {u1}
  Player = player
  None = None
  Looks = {dim}
  Frames = {frame}
  Switches = TRUE
INVARIANTS
  StoppedStaysStopped
PROPERTIES
  StopRestores
  StopReturns
