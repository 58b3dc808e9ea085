SPECIFICATION FairSpec
CONSTANTS
  BLOCKSIZE = 9
  SEND_SIZE = 3
  RECVBUF_SIZE = 3
  MaxSize = 20
  MayDie = TRUE
CHECK_DEADLOCK FALSE
INVARIANTS TypeOK BlocksCover EachByteOnce WholeBlock
PROPERTIES BlockLands RelayEnds
