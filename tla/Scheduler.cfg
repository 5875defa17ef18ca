SPECIFICATION Spec
CONSTANTS
  Threads = {t1, t2, t3}
  Idle = Idle
  Host = Host
  Free = Free
  NumCores = 2
  Priorities = {1, 2, 3}
  Created <- OneApartOneBound
  HighestCoreMigrationAllowedPriority = 2
  PreemptionPriority <- LastLower
  Masks <- OneOrBoth
  Remasked = {}
  Reprioritised = {}
  Pinnable = {}
  Contended = {}
  Mortal = {}
  Yielders = {t1, t2, t3}
SYMMETRY Symmetric
INVARIANTS
  WellFormed
  NoCoreIdlesBesideWaiters
  SpentYieldIsPointless
