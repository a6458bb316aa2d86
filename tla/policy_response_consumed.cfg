\* The bundle of the repository, whose evaluated_at is time.now_ns().
SPECIFICATION Spec
CONSTANTS
  TimestampIsText = FALSE
  CedarInstalled = FALSE
  Inputs <- ResourceInputs
CHECK_DEADLOCK FALSE
INVARIANTS
  ResponseIsConsumed
