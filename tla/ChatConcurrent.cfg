SPECIFICATION FairSpec
CONSTANTS
  a = a
  u = u
  b = b
  n1 = n1
  n2 = n2
  Clients = {a, b}
  Nodes = {n1, n2}
  Null = Null
  Known = {a, b}
  Kinds <- Chatting
  NameOf <- OwnNames
  Budget = 3
  OneAtATime = FALSE
  Vanishing = {}
CHECK_DEADLOCK FALSE
INVARIANTS TypeOK ListSound NoFault
PROPERTIES HandlersReturn
