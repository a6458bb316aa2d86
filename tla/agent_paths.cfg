\* One process on every path through the graph, with every kind of token, a
\* second run, suspensions, crashes, failing services and no Cedar policy for IAM.
SPECIFICATION FairSpec
CONSTANTS
  r1 = r1
  r2 = r2
  r3 = r3
  a1 = a1
  Runners = {r1}
  Agents = {a1}
  IdOf <- OneIdentity
  TypeOf <- Provisioner
  Granted <- ProvisionerScopes
  Handlers <- ProvisionerHandlers
  SourceIp <- Addresses
  Jobs <- ProvisionerJobs
  Introspections <- AnyToken
  CedarPolicies = {"s3_resource_policy.cedar"}
  RedisMayFail = TRUE
  KafkaMayFail = TRUE
  MaxRuns = 2
  MaxMinute = 0
  TimestampIsText = TRUE
  CedarInstalled = TRUE
INVARIANTS
  TypeOK
  CompleteMediation
  FinishedRunsAreAudited
  SuspendedDoesNotAct
PROPERTIES
  AuditedBeforeExecution
  EveryRunEnds
  ImplementsGuardedExecution
