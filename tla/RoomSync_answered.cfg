SPECIFICATION FairSpec
CONSTANTS
  n1 = n1
  n2 = n2
  s1 = s1
  s2 = s2
  s3 = s3
  Ids = {"a", "b"}
  Authors = {0, 1, 2}
  Nodes = {n1, n2}
  Sockets = {s1, s2}
  NodeOf <- ApartNodeOf
  MessagesOf <- PlainMessages
  DbShapes <- OldRoom
  MaxMessages = 2
  MaxFaults = 1
  Restarting = {}
  JoinsAgain = TRUE
PROPERTY Answered
