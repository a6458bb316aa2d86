\* Both policy layers for every agent type and every combination of resource
\* tags, with the Cedar CLI installed and every subset of its policy files.
SPECIFICATION Spec
CONSTANTS
  TimestampIsText = TRUE
  CedarInstalled = TRUE
  Inputs <- LayeredInputs
CHECK_DEADLOCK FALSE
INVARIANTS
  TypeOK
  EffectReachesThePep
  AllowNeedsActiveToken
  GatedActionsNeedApproval
  AllowNeedsBothLayers
  RestrictionNeverGrants
