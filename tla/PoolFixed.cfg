SPECIFICATION FairSpec
CONSTANTS
  MinNum = 2
  MaxNum = 2
  QueueCapacity = 1
  NUMBERE = 2
  Tasks = {t1, t2, t3}
  NoTask = NoTask
  Producers = {p1, p2}
  NoOne = NoOne
  Manager = Manager
  Enders = {}
  MayDestroy = FALSE
PROPERTIES TaskServed AddReturns
