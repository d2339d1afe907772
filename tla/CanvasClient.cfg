SPECIFICATION Spec
CONSTANTS
  Ids = {1, 2}
  Authors = {0, 1, 2}
  Me = 1
  Other = 2
  Loaded <- OldRoom
  MaxInFlight = 1
  BurstInFlight = 2
  RoundTripIsShort = FALSE
  MaxEdits = 2
  MaxRemotes = 1
  MaxMishaps = 1
INVARIANTS NothingErased NextStampIsNewest WritesKept
PROPERTY QueueMoves
CHECK_DEADLOCK FALSE
