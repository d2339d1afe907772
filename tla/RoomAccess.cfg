SPECIFICATION RoomSpec
CONSTANTS
  p1 = p1
  p2 = p2
  c1 = c1
  c2 = c2
  s1 = s1
  Pages = {p1, p2}
  Sockets = {s1}
  Calls = {c1, c2}
  Grants = {"VIEWER", "none"}
  MaxIds = 2
  Recheck = 0
  MaxLatency = 1
  Dialogs = {p1, p2}
  Viewers = {s1}
  MaxTokens = 2
  MaxPolls = 2
  MaxEdits = 1
  MaxOutages = 1
  Visits = {p1, p2}
  Slugs = {"s", "r"}
  PageSize = 1
  DefaultPage = 2
  MaxDrawn = 2
  MaxStores = 2
  MaxRenames = 1
  MaxBreaks = 1
SYMMETRY Symmetry
CHECK_DEADLOCK FALSE
INVARIANTS ApprovedIsMember RevokedWithinBound LinkHolds OpensTheRoom
PROPERTIES RemovalWins
