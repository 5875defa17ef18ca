SPECIFICATION FairSpec
CONSTANTS
  Threads = {t1, t2}
  Idle = Idle
  Host = Host
  Free = Free
  NumCores = 2
  Priorities = {1, 2}
  Created <- Equal
  HighestCoreMigrationAllowedPriority = 2
  PreemptionPriority <- Alike
  Masks <- OneOrBoth
  Remasked = {t1}
  Reprioritised = {t2}
  Pinnable = {t1}
  Contended = {t2}
  Mortal = {t1}
  Yielders = {}
INVARIANTS
  WellFormed
  ThreadOnOneCore
  RescheduleNotLost
PROPERTY ChoiceGetsToRun
