SPECIFICATION FairSpec
CONSTANTS
  NoTask = NoTask
  Threads = {t1, t2, t3}
  MaxTime = 2
  Never = 4
CHECK_DEADLOCK FALSE
INVARIANTS
  TypeOK
  NextTaskIsEarliest
  InterruptCoversEarliest
PROPERTY TimersFire
