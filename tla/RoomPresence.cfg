SPECIFICATION Spec
CONSTANTS
  n1 = n1
  n2 = n2
  u1 = u1
  u2 = u2
  s1 = s1
  s2 = s2
  s3 = s3
  NoNode = NoNode
  Nodes = {n1, n2}
  Users = {u1, u2}
  Sockets = {s1, s2, s3}
  UserOf <- TabsOf
  Speakers = {s1}
  Selectors = {s2}
  MaxSelection = 1
  MaxInbox = 1
  MaxChannel = 1
SYMMETRY Symmetry
INVARIANTS MembersCounted ViewsCurrent CallKnown
CHECK_DEADLOCK FALSE
