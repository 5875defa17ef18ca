SPECIFICATION FairSpec
CONSTANTS
  NoThread = NoThread
  Threads = {t1, t2, t3}
  SuspendTypes = {process, thread}
  Terminable = {t1, t2}
  Cancellable = {}
INVARIANTS
  RegistrationExact
  WaitersSeenByOwner
  SuspensionNotForgotten
PROPERTIES
  OnlyResumeSuspends
  ImplementsLock
  WaitersAreHandedOver
CHECK_DEADLOCK FALSE
