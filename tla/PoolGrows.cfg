SPECIFICATION Spec
CONSTANTS
  MinNum = 1
  MaxNum = 3
  QueueCapacity = 2
  NUMBERE = 2
  Tasks = {t1, t2, t3}
  NoTask = NoTask
  Producers = {p1}
  NoOne = NoOne
  Manager = Manager
  Enders = {t1}
  MayDestroy = FALSE
SYMMETRY Symmetry
INVARIANTS TypeOK CountsWrongByEnded PoolBounds
PROPERTIES QueueSpec StrandedByLeaver
