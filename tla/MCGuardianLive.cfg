SPECIFICATION FairSpec
CONSTANTS
  Check = check
  Restorer = restorer
  User = user
  Readers = {}
  None = None
  Expectations = {"scheduled"}
  Windows = {"grace"}
  AlertAfter = 1
  UnreachableAlert = 0
  Cap = 1
PROPERTIES
  NoUnarmedRestore
  CheckEnds
  SupervisionConverges
CHECK_DEADLOCK FALSE
