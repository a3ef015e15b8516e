SPECIFICATION Spec
CONSTANTS
  Check = check
  Restorer = restorer
  User = user
  Readers = {reader}
  None = None
  Expectations = {"scheduled", "manual", "unsupervised"}
  Windows = {"grace", "forever"}
  AlertAfter = 2
  UnreachableAlert = 1
  Cap = 2
INVARIANT TypeOK
PROPERTY ShutdownRaisesNothing
CHECK_DEADLOCK FALSE
