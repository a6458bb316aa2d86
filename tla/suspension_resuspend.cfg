\* A Redis that fails once, a network and operators that do nothing.
SPECIFICATION FairSpec
CONSTANTS
  a1 = a1
  a2 = a2
  w1 = w1
  w2 = w2
  Agents = {a1}
  Threads = {w1}
  RedisMayFail = TRUE
  NetworkMayFail = FALSE
  MIN_FIT_SAMPLES = 2
  BurstLimit = 1
  MaxLen = 3
  MaxEvents = 4
  MaxRestarts = 0
  MaxRequests = 0
CHECK_DEADLOCK FALSE
PROPERTIES
  BreachResuspends
