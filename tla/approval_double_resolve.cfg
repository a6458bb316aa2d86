\* Two threads resolve one request.
SPECIFICATION Spec
CONSTANTS
  q1 = q1
  q2 = q2
  w1 = w1
  w2 = w2
  l1 = l1
  l2 = l2
  Ids = {q1}
  Agent = "agent"
  Approvers = {"agent", "admin"}
  Resolvers = {w1, w2}
  Listers = {}
  PepWrites = FALSE
CHECK_DEADLOCK FALSE
INVARIANTS
  DoubleResolveIsBlocked
