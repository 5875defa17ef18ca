SPECIFICATION FairSpec
CONSTANTS
  NoThread = NoThread
  Threads = {t1, t2, t3}
  Resources = {memory}
  MaxS64 = 2
  Limits = {1}
  Values = {1, 2}
  Terminable = {t1}
INVARIANTS
  WellFormed
  CountExact
  ReleaseIsComing
  NobodySleepsBesideRoom
PROPERTY ReserveEnds
