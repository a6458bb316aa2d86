\* Three processes of one identity racing for one counter over minute boundaries.
SPECIFICATION Spec
CONSTANTS
  r1 = r1
  r2 = r2
  r3 = r3
  a1 = a1
  Runners = {r1, r2, r3}
  Agents = {a1}
  IdOf <- OneIdentity
  TypeOf <- Infra
  Granted <- InfraScopes
  Handlers <- InfraHandlers
  SourceIp <- Addresses
  Jobs <- DescribeJobs
  Introspections <- ActiveOnly
  CedarPolicies = {}
  RedisMayFail = FALSE
  KafkaMayFail = FALSE
  MaxRuns = 1
  MaxMinute = 1
  TimestampIsText = TRUE
  CedarInstalled = FALSE
SYMMETRY RunnerSymmetry
INVARIANTS
  RateIsLimited
  DecisionIsDurable
