------------------------------- MODULE Cedar --------------------------------
(***************************************************************************)
(* The resource policies (policy/cedar/) and the adapter that asks the     *)
(* cedar CLI about them (pep/cedar_evaluator.py), as operators.            *)
(*                                                                         *)
(* A Cedar request is a record with the fields agent_type, action and      *)
(* tags; tags holds the resource attributes DataClassification,            *)
(* Environment, managed_by and template_name, each optional (a set with at *)
(* most one element).                                                      *)
(*                                                                         *)
(* A Cedar condition is TRUE, FALSE or an evaluation error, and a policy   *)
(* whose condition errs is skipped.  Only whether a condition is TRUE      *)
(* matters then, so each condition below is an operator that is TRUE       *)
(* exactly when the Cedar condition evaluates to true.  Reading an absent  *)
(* attribute errs.  So does `in` when its left side is a string: it is     *)
(* Cedar's membership test on entities, and the policies apply it to       *)
(* agent_type and DataClassification.                                      *)
(***************************************************************************)

\* `string in [strings]`: an evaluation error, never true.
StringIn(values, list) == FALSE

(* s3_resource_policy.cedar *)

PublicOrInternal(req) == StringIn(req.tags.DataClassification, {"public", "internal"})

s3_permits(req) ==
  \/ /\ req.action \in {"s3:ListBuckets", "s3:GetObject"}
     /\ req.agent_type = "InfraAgent"
     /\ PublicOrInternal(req)
  \/ /\ req.action \in {"s3:GetObject", "s3:PutObject", "s3:ListBuckets"}
     /\ req.agent_type = "DataAgent"
     /\ PublicOrInternal(req)

s3_forbids(req) ==
  \/ StringIn(req.tags.DataClassification, {"confidential", "restricted"})
  \/ "prod" \in req.tags.Environment

(* iam_resource_policy.cedar *)

iam_permits(req) ==
  \/ /\ req.action = "iam:CreateRole"
     /\ req.agent_type = "ProvisionerAgent"
     /\ "nhi-sentinel" \in req.tags.managed_by
     /\ req.tags.template_name # {}
     /\ "" \notin req.tags.template_name
  \/ /\ req.action = "iam:ListRoles"
     /\ StringIn({req.agent_type}, {"InfraAgent", "SecOpsAgent"})

iam_forbids(req) ==
  \/ req.agent_type = "DataAgent"
  \/ req.action \in {"iam:CreatePolicy", "iam:PutUserPolicy", "iam:AttachUserPolicy"}
  \/ req.action \in {"iam:CreateUser", "iam:DeleteUser", "iam:UpdateAssumeRolePolicy"}

(* cedar_evaluator.py *)

S3_ACTIONS == {"s3:GetObject", "s3:PutObject", "s3:ListBuckets",
               "s3:DeleteObject", "s3:DeleteBucket"}

IAM_ACTIONS == {"iam:CreateRole", "iam:ListRoles", "iam:AttachRolePolicy",
                "iam:CreateUser", "iam:DeleteRole", "iam:DeleteUser"}

CEDAR_ACTIONS == S3_ACTIONS \cup IAM_ACTIONS

\* The files of policy/cedar/, of which a deployment may have lost some.
CedarFiles == {"s3_resource_policy.cedar", "iam_resource_policy.cedar"}

\* The file that governs an action, if it exists.
_select_policy_file(action, files) ==
  IF action \in S3_ACTIONS THEN {"s3_resource_policy.cedar"} \cap files
  ELSE {"iam_resource_policy.cedar"} \cap files

\* Cedar's decision on the policy file of the action: some permit applies and
\* no forbid does.
authorize(req) ==
  \/ req.action \in S3_ACTIONS /\ s3_permits(req) /\ ~s3_forbids(req)
  \/ req.action \in IAM_ACTIONS /\ iam_permits(req) /\ ~iam_forbids(req)

\* Cedar is asked: the CLI is there, and so is a policy for the action.
governed(req, cli, files) ==
  /\ cli
  /\ req.action \in CEDAR_ACTIONS
  /\ _select_policy_file(req.action, files) # {}

\* Mutant: a CLI that times out or crashes lets the action pass.
MutCliFailureAllows(req, cli, files) ==
  IF governed(req, cli, files) THEN {authorize(req), TRUE} ELSE {TRUE}

\* The values CedarDecision.permitted can take: without the CLI, for an action
\* no policy governs and without the policy file the action passes; a CLI that
\* times out or crashes denies.  (The two temporary files that carry the
\* request can be written.)
cedar_evaluate(req, cli, files) ==
  IF governed(req, cli, files) THEN {authorize(req), FALSE} ELSE {TRUE}

=============================================================================
