SPECIFICATION Spec
CONSTANTS
  NoThread = NoThread
  Threads = {t1, t2, t3}
  Addresses = {a}
  Half = 2
  Priorities = {1, 2}
  Waits = {"WaitIfEqual", "DecrementAndWaitIfLessThan"}
  Signals = {"Signal", "SignalAndIncrementIfEqual", "SignalAndModifyByWaitingCountIfEqual"}
  Counts = {0, 1}
  Timeouts = {"zero", "finite"}
  Mortal = {t1, t2, t3}
SYMMETRY Symmetric
CHECK_DEADLOCK FALSE
INVARIANTS
  TypeOK
  ChangeIsSignalled
PROPERTIES
  WordTellsWaiters
  HighestFirst
