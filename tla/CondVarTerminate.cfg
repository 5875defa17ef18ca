SPECIFICATION Spec
CONSTANTS
  NoThread = NoThread
  Threads = {t1, t2, t3}
  Locks = {m1}
  Priorities = {0, 1}
  TerminatingPriority = 0
  Timeouts = {"finite", "zero", "infinite"}
  Counts = {0, 1}
  Closable = {t1, t2, t3}
  Mortal = {t1, t2, t3}
SYMMETRY Symmetric
CHECK_DEADLOCK FALSE
INVARIANTS
  WellFormed
  WordsExact
  Inheritance
