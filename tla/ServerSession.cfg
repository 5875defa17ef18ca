SPECIFICATION FairSpec
CONSTANTS
  Clients = {c1, c2}
  Servers = {s1, s2}
  Nobody = Nobody
  Requests = {r1, r2, r3}
  NoRequest = NoRequest
  Async = {c1}
  Mortal = {c2}
INVARIANTS
  WellFormed
  WaiterIsInLine
  SleepersAreWoken
PROPERTIES
  AnswersOwnCall
  CallsEndWithServer
CHECK_DEADLOCK FALSE
