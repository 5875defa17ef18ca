SPECIFICATION Spec
CONSTANTS
  NoThread = NoThread
  Threads = {t1, t2, t3}
  SuspendTypes = {}
  Terminable = {t1}
  Cancellable = {t1}
INVARIANT HolderOwnsTag
CHECK_DEADLOCK FALSE
