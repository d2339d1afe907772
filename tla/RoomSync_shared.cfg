SPECIFICATION Spec
CONSTANTS
  n1 = n1
  n2 = n2
  s1 = s1
  s2 = s2
  s3 = s3
  Ids = {"a", "b"}
  Authors = {0, 1, 2, 3}
  Nodes = {n1, n2}
  Sockets = {s1, s2, s3}
  NodeOf <- SharedNodeOf
  MessagesOf <- SharedMessages
  DbShapes <- OldRoom
  MaxMessages = 2
  MaxFaults = 1
  Restarting = {n2}
  JoinsAgain = FALSE
INVARIANTS KeysAgree UpdatesKept
PROPERTY ImplementsRegister
VIEW LiveState
