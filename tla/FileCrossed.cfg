SPECIFICATION Spec
CONSTANTS
  a = a
  b = b
  c = c
  d = d
  Clients = {a, b, c, d}
  Sender <- FromAB
  Receiver <- ToCD
  Blocks <- OneEach
  Slots = 2
  Workers = {4}
  Spurious = {}
CHECK_DEADLOCK FALSE
INVARIANT RightBlock
