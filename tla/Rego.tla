-------------------------------- MODULE Rego --------------------------------
(***************************************************************************)
(* The authorization policy OPA evaluates (policy/rego/nhi/), as operators *)
(* on one input document, and what OPA answers for it.                     *)
(*                                                                         *)
(* Rego's partiality is kept.  A rule whose bodies all fail is undefined,  *)
(* so a rule is an operator that is TRUE exactly when the rule is defined; *)
(* a complete rule that several bodies give different values is an         *)
(* evaluation error, so such a rule is an operator that returns the SET of *)
(* values its bodies give.  An optional key of the document is a set with  *)
(* at most one element, empty when the key is absent.                      *)
(*                                                                         *)
(* An input document is a record with the fields                           *)
(*   agent_id, agent_type, action, environment                             *)
(*   task_id               FALSE for the empty string                      *)
(*   claims                token_claims: active ("true" | "false" |        *)
(*                         "absent"), agent_id (optional), scopes (the     *)
(*                         words of `scope` and `scopes`), source_ip       *)
(*                         (optional)                                      *)
(*   time_window           optional [start, end] of hours                  *)
(*   incident_id           TRUE when the key is present                    *)
(*   max, count            optional naturals: max_actions_per_minute and   *)
(*                         current_action_count_per_minute                 *)
(*   pre_approved          TRUE when the key is present and true           *)
(*   allowed_environments  optional set of environments                    *)
(*   hour                  the UTC hour of the evaluation (time.now_ns)    *)
(***************************************************************************)
EXTENDS Integers

(* scope_check.rego *)

action_scope_map ==
  { <<"s3:ListBuckets", "cloud:s3:list">>,
    <<"s3:GetObject", "cloud:s3:read">>,
    <<"s3:PutObject", "cloud:s3:write">>,
    <<"s3:DeleteObject", "cloud:s3:delete">>,
    <<"s3:DeleteBucket", "cloud:s3:delete">>,
    <<"ec2:DescribeInstances", "cloud:ec2:describe">>,
    <<"ec2:DescribeSecurityGroups", "cloud:ec2:describe">>,
    <<"ec2:TerminateInstances", "cloud:ec2:terminate">>,
    <<"ec2:StartInstances", "cloud:ec2:start">>,
    <<"iam:ListRoles", "cloud:iam:read">>,
    <<"iam:CreateRole", "cloud:iam:create-role">>,
    <<"iam:AttachRolePolicy", "cloud:iam:create-role">>,
    <<"iam:CreateUser", "cloud:iam:write">>,
    <<"iam:DeleteRole", "cloud:iam:write">>,
    <<"securityhub:GetFindings", "cloud:securityhub:read">>,
    <<"guardduty:ListFindings", "cloud:guardduty:read">>,
    <<"config:DescribeComplianceByResource", "cloud:config:read">>,
    <<"cloudtrail:LookupEvents", "cloud:cloudtrail:read">> }

required_scope(action) == {m[2] : m \in {e \in action_scope_map : e[1] = action}}

\* Mutant: any scope will do for a registered action.
MutAnyScope(in) == required_scope(in.action) # {}

\* No scope of the map is a substring of another one, so `contains` on the
\* scope string and membership in the scopes array are the same test.
action_in_scope(in) == required_scope(in.action) \cap in.claims.scopes # {}

scope_deny_reasons(in) ==
  (IF required_scope(in.action) = {} THEN {"action not registered"} ELSE {})
  \cup (IF required_scope(in.action) # {} /\ ~action_in_scope(in)
        THEN {"scope not present"} ELSE {})

(* time_window.rego *)

within_window(in) ==
  \/ in.time_window = {}
  \/ in.agent_type = "SecOpsAgent" /\ in.incident_id
  \/ \E tw \in in.time_window : tw.start <= in.hour /\ in.hour < tw.end

(* task_scope.rego *)

task_is_active(in) == in.task_id

\* Mutant: an agent without declared environments has none.
MutEnvironmentsMustBeDeclared(in) ==
  \E envs \in in.allowed_environments : in.environment \in envs

environment_allowed(in) ==
  \/ in.allowed_environments = {}
  \/ \E envs \in in.allowed_environments : in.environment \in envs

task_deny_reasons(in) ==
  (IF ~task_is_active(in) THEN {"no active task"} ELSE {})
  \cup (IF task_is_active(in) /\ ~environment_allowed(in)
        THEN {"environment not allowed"} ELSE {})

(* rate_limit.rego *)

DefaultMaxActions == 30

max_actions_per_minute(in) ==
  IF in.max = {} THEN DefaultMaxActions ELSE CHOOSE m \in in.max : TRUE

within_rate_limit(in) ==
  in.count = {} \/ \E c \in in.count : c < max_actions_per_minute(in)

(* destructive_gate.rego *)

destructive_actions ==
  { "s3:DeleteObject", "s3:DeleteBucket", "ec2:TerminateInstances",
    "iam:DeleteRole", "iam:DeleteUser", "iam:DetachRolePolicy" }

iam_write_actions == {"iam:CreateUser", "iam:AttachRolePolicy"}

\* Mutant: the reason of a gate does not ask whether the request is approved.
MutReasonWhenApproved(in) ==
  (IF in.action \in destructive_actions THEN {"destructive action"} ELSE {})
  \cup (IF in.action \in iam_write_actions THEN {"iam write"} ELSE {})
  \cup (IF in.agent_type = "ProvisionerAgent" THEN {"provisioner"} ELSE {})

approval_reasons(in) ==
  IF in.pre_approved THEN {}
  ELSE (IF in.action \in destructive_actions THEN {"destructive action"} ELSE {})
       \cup (IF in.action \in iam_write_actions THEN {"iam write"} ELSE {})
       \cup (IF in.agent_type = "ProvisionerAgent" THEN {"provisioner"} ELSE {})

\* Mutant: IAM writes and ProvisionerAgent need no approval.
MutOnlyDestructive(in) == ~in.pre_approved /\ in.action \in destructive_actions

requires_approval(in) ==
  /\ ~in.pre_approved
  /\ \/ in.action \in destructive_actions
     \/ in.action \in iam_write_actions
     \/ in.agent_type = "ProvisionerAgent"

(* main.rego *)

claims_non_empty(c) ==
  c.active # "absent" \/ c.agent_id # {} \/ c.scopes # {} \/ c.source_ip # {}

\* The second body is the "dev/test fallback".  `not input.token_claims.active`
\* succeeds when the key is absent and also when it is false.
valid_token(in) ==
  \/ in.claims.active = "true" /\ in.agent_id \in in.claims.agent_id
  \/ claims_non_empty(in.claims) /\ in.claims.active # "true"

sub_policies_pass(in) ==
  /\ valid_token(in)
  /\ action_in_scope(in)
  /\ within_window(in)
  /\ task_is_active(in)
  /\ environment_allowed(in)
  /\ within_rate_limit(in)

effects(in) ==
  (IF sub_policies_pass(in) /\ ~requires_approval(in) THEN {"ALLOW"} ELSE {})
  \cup (IF sub_policies_pass(in) /\ requires_approval(in)
        THEN {"REQUIRE_APPROVAL"} ELSE {})

\* The reasons the bodies of `reason` give, the default one when none does.
reasons(in) ==
  LET valid  == valid_token(in)
      scoped == valid /\ action_in_scope(in)
      timely == scoped /\ within_window(in)
      tasked == timely /\ task_is_active(in)
      fired  == (IF ~valid THEN {"token invalid"} ELSE {})
                \cup (IF valid THEN scope_deny_reasons(in) ELSE {})
                \cup (IF scoped /\ ~within_window(in)
                      THEN {"outside time window"} ELSE {})
                \cup (IF timely THEN task_deny_reasons(in) ELSE {})
                \cup (IF tasked /\ ~within_rate_limit(in)
                      THEN {"rate limit exceeded"} ELSE {})
                \cup (IF tasked /\ within_rate_limit(in)
                      THEN approval_reasons(in) ELSE {})
  IN  IF fired = {} THEN {"denied by policy"} ELSE fired

Several(S) == \E x, y \in S : x # y

Conflicts(in) == Several(effects(in)) \/ Several(reasons(in))

\* The five rules `conditions_evaluated` refers to: none has a default, so the
\* whole response is undefined when one of them is.
conditions_defined(in) ==
  /\ valid_token(in)
  /\ action_in_scope(in)
  /\ within_window(in)
  /\ task_is_active(in)
  /\ within_rate_limit(in)

\* What OPA can answer.  Where a conflict and an undefined condition meet, the
\* one OPA's compiler orders first decides, so both answers are possible.
response(in) ==
  (IF Conflicts(in) THEN {"conflict"} ELSE {})
  \cup (IF ~conditions_defined(in) THEN {"undefined"} ELSE {})
  \cup (IF ~Conflicts(in) /\ conditions_defined(in)
        THEN IF effects(in) = {} THEN {"DENY"} ELSE effects(in)
        ELSE {})

=============================================================================
