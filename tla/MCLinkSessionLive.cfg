SPECIFICATION FairSpec
CONSTANTS
  None = None
  Holds = {TRUE}
  Profiles = {"classic"}
  WriteRetries = 1
  Copies = 1
  Active = {"send"}
PROPERTIES
  HeldLinkReturns
  CommandReturns
