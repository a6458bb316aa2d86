\* Crashes of the consumer and failures of PostgreSQL.
SPECIFICATION FairSpec
CONSTANTS
  p1 = p1
  p2 = p2
  a1 = a1
  Producers = {p1}
  AgentOf <- OneAgent
  Decisions = {"ALLOW"}
  DictResults = {FALSE}
  PublishMayFail = TRUE
  DbMayFail = TRUE
  Alterable = {"decision", "decision_reason"}
  MaxEvents = 3
  MaxRestarts = 0
  MaxCrashes = 2
CHECK_DEADLOCK FALSE
INVARIANTS
  TypeOK
  CommittedIsSettled
  OneRowPerEvent
  AlterationIsDetected
PROPERTIES
  EveryEventSettles
