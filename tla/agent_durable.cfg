\* One process, whose events may stay in memory when Kafka fails.
SPECIFICATION Spec
CONSTANTS
  r1 = r1
  r2 = r2
  r3 = r3
  a1 = a1
  Runners = {r1}
  Agents = {a1}
  IdOf <- OneIdentity
  TypeOf <- Provisioner
  Granted <- ProvisionerScopes
  Handlers <- ProvisionerHandlers
  SourceIp <- Addresses
  Jobs <- ProvisionerJobs
  Introspections <- AnyToken
  CedarPolicies = {"s3_resource_policy.cedar"}
  RedisMayFail = TRUE
  KafkaMayFail = TRUE
  MaxRuns = 1
  MaxMinute = 0
  TimestampIsText = TRUE
  CedarInstalled = TRUE
INVARIANTS
  DecisionIsDurable
