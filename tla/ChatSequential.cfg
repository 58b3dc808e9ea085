SPECIFICATION Spec
CONSTANTS
  a = a
  u = u
  b = b
  n1 = n1
  n2 = n2
  Clients = {a, b}
  Nodes = {n1, n2}
  Null = Null
  Known = {a}
  Kinds <- Everything
  NameOf <- OwnNames
  Budget = 4
  OneAtATime = TRUE
  Vanishing = {}
SYMMETRY NodesAlike
CHECK_DEADLOCK FALSE
INVARIANTS ListIsOnline NoFault
PROPERTIES AnsweredRight Broadcast
