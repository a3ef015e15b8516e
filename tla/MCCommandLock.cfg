SPECIFICATION FairSpec
CONSTANTS
  u1 = u1
  u2 = u2
  u3 = u3
  b1 = b1
  b2 = b2
  None = None
  Tasks <- MCTasks
  Priority <- MCPriority
  MaxDepth = 3
INVARIANTS
  SlotsMatch
  NoStrandedWaiter
PROPERTIES
  ImplementsPromise
  UserServed
  BackgroundServed
