\* Two producers of one identity, restarts, lost and ambiguous sends.
SPECIFICATION Spec
CONSTANTS
  p1 = p1
  p2 = p2
  a1 = a1
  Producers = {p1, p2}
  AgentOf <- OneAgent
  Decisions = {"ALLOW"}
  DictResults = {TRUE, FALSE}
  PublishMayFail = TRUE
  DbMayFail = TRUE
  Alterable = {}
  MaxEvents = 3
  MaxRestarts = 1
  MaxCrashes = 1
CHECK_DEADLOCK FALSE
INVARIANTS
  UnbrokenVerifies
  VerifiedHasNoGap
  VerifiedIsOneProcess
