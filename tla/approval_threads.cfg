\* Two threads at PATCH, which may stop half way, and one at GET, while requests
\* expire.
SPECIFICATION FairSpec
CONSTANTS
  q1 = q1
  q2 = q2
  w1 = w1
  w2 = w2
  l1 = l1
  l2 = l2
  Ids = {q1, q2}
  Agent = "agent"
  Approvers = {"agent", "admin"}
  Resolvers = {w1, w2}
  Listers = {l1}
  PepWrites = TRUE
CHECK_DEADLOCK FALSE
INVARIANTS
  TypeOK
  NoSelfApproval
  WaitingIsListed
  DecisionIsFinal
PROPERTIES
  NeverWaitsAgain
  RequestsLeaveTheList
