SPECIFICATION ChatSpec
CONSTANTS
  n1 = n1
  n2 = n2
  u1 = u1
  u2 = u2
  u3 = u3
  p1 = p1
  p2 = p2
  p3 = p3
  Nothing = Nothing
  Nodes = {n1, n2}
  Users = {u1, u2, u3}
  Messengers = {p1, p2, p3}
  UserOf <- TheUsers
  NodeOf <- TheNodes
  Contents <- TheContents
  Writes <- TheWrites
  MaxWritten = 2
  Readers = {p2}
  Settled = {p1, p2, p3}
  Removable = {u3}
  Opened = {"general"}
  MaxTrouble = 1
INVARIANTS PrivateStaysPrivate CaughtUp UnreadIsExact
CHECK_DEADLOCK FALSE
