SPECIFICATION FairSpec
CONSTANTS
  MinNum = 1
  MaxNum = 2
  QueueCapacity = 2
  NUMBERE = 2
  Tasks = {t1, t2}
  NoTask = NoTask
  Producers = {p1}
  NoOne = NoOne
  Manager = Manager
  Enders = {}
  MayDestroy = TRUE
PROPERTY DestroyReturns
CHECK_DEADLOCK FALSE
