SPECIFICATION Spec
CONSTANTS
  a = a
  a2 = a2
  b = b
  u = u
  n1 = n1
  n2 = n2
  n3 = n3
  Clients = {a, a2, b}
  Nodes = {n1, n2, n3}
  Null = Null
  Known = {b}
  Kinds <- ComingAndGoing
  NameOf <- SameUser
  Budget = 2
  OneAtATime = FALSE
  Vanishing = {a}
SYMMETRY NodesAlike
CHECK_DEADLOCK FALSE
PROPERTIES FreedTwiceByTwoQuits 
