SPECIFICATION FairSpec
CONSTANTS
  Headers = 2
  Inputs = 4
CHECK_DEADLOCK FALSE
INVARIANTS TypeOK OneLogin HomeIsAdmitted OneCopies OwnHeader
PROPERTIES LoginEnds QuitLeaves HeadersTaken PlaceSpec
