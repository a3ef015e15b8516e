SPECIFICATION FairSpec
CONSTANTS
  None = None
  Nobody = Nobody
  Proxies = {p1, p2}
  Local = Local
  Able = {p1}
  Window = 2
  Remembered = 1
  Reachable = 1
  Handles = 2
  Silence = 1
  Retry <- MCRetry
  Setups = 2
INVARIANTS
  TypeOK
  ReturnTracked
  RaisedExactly
PROPERTIES
  SweepSparesOwnLink
  GhostFreed
