SPECIFICATION FairSpec
CONSTANTS
  a = a
  b = b
  c = c
  d = d
  Clients = {a, b}
  Sender <- FromAA
  Receiver <- ToBB
  Blocks <- OneTwo
  Slots = 1
  Workers = {4}
  Spurious = {2}
CHECK_DEADLOCK FALSE
INVARIANTS TypeOK OneRelay OffsetKept
 
