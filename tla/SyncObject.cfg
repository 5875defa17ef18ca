SPECIFICATION FairSpec
CONSTANTS
  Threads = {t1, t2}
  Objects = {a, b}
  MaxObjects = 2
  Null = Null
  NoObject = NoObject
  Mortal = {t1}
CHECK_DEADLOCK FALSE
INVARIANTS
  WellFormed
  CancelIsDelivered
PROPERTIES
  ImplementsSynchronization
  SignalReachesSleepers
