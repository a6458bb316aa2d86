\* Two agents, two threads of the API, an operator, lost requests, late answers, a
\* Redis that fails and two crashes of the service.
SPECIFICATION FairSpec
CONSTANTS
  a1 = a1
  a2 = a2
  w1 = w1
  w2 = w2
  Agents = {a1, a2}
  Threads = {w1, w2}
  RedisMayFail = TRUE
  NetworkMayFail = TRUE
  MIN_FIT_SAMPLES = 2
  BurstLimit = 1
  MaxLen = 3
  MaxEvents = 2
  MaxRestarts = 2
  MaxRequests = 1
CHECK_DEADLOCK FALSE
INVARIANTS
  TypeOK
  BooksBalance
  SuspendedHasReason
  SuspendedForItsOwnEvents
PROPERTIES
  ScorerKeepsUp
  AlarmReachesRedis
