SPECIFICATION Spec
CONSTANTS
  None = None
  Holds = {TRUE, FALSE}
  Profiles = {"facebd"}
  WriteRetries = 2
  Copies = 2
  Active = {"prepare", "sync", "send", "read", "stop"}
INVARIANTS
  TypeOK
  NoStrandedLink
  StoppedForGood
  HoldSupervised
  NoCircularWait
CHECK_DEADLOCK FALSE
