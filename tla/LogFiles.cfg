SPECIFICATION Spec
CONSTANTS
  Threads = {p1, p2}
  Nobody = Nobody
  MAX_LOG_FILE_NUM = 3
  FileSize = 2
  Lengths = {1, 2}
  Places = {0, 1}
  MaxLines = 6
  MaxRuns = 2
CHECK_DEADLOCK FALSE
INVARIANTS TypeOK Bounded OldestLost
