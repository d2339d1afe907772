SPECIFICATION FairSpec
CONSTANTS
  n1 = n1
  n2 = n2
  Nodes = {n1, n2}
  Ids = {"a", "b"}
  MaxVersion = 2
  Rooms <- ShortSession
  Prefetch = 2
  MaxFailures = 1
  MaxRestarts = 1
INVARIANT JobsKept
PROPERTY Drained
CHECK_DEADLOCK FALSE
