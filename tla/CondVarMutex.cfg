SPECIFICATION Spec
CONSTANTS
  NoThread = NoThread
  Threads = {t1, t2, t3}
  Locks = {m1, m2}
  Priorities = {0, 1, 2}
  TerminatingPriority = 0
  Timeouts = {"finite"}
  Counts = {0, 1}
  Closable = {}
  Mortal = {}
SYMMETRY Symmetric
CHECK_DEADLOCK FALSE
INVARIANT Inheritance
PROPERTY ImplementsLock
