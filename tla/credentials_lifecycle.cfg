\* Two provisioning runs, an administrator, and an agent whose tokens come late and
\* expire; the four durations meet TimingAssumption with nothing to spare.
SPECIFICATION Spec
CONSTANTS
  r1 = r1
  r2 = r2
  Runs = {r1, r2}
  Lifespan = 6
  Ttl = 6
  Buffer = 3
  Latency = 1
  Introspect = 2
  MaxTime = 8
CHECK_DEADLOCK FALSE
INVARIANTS
  TypeOK
  ReturnedTokenIsLive
PROPERTIES
  RevokedKeyIsDead
