---------------------------- MODULE PolicyQuery -----------------------------
(***************************************************************************)
(* One request judged by both policy layers, as PolicyEnforcementPoint.    *)
(* enforce does once its own checks passed: OPA first, Cedar only for an   *)
(* OPA ALLOW.  Inputs is the set of requests to judge; every one of them   *)
(* is judged against every answer the engines may give.                    *)
(***************************************************************************)
EXTENDS Pep

CONSTANT Inputs

\* Hours and counts are numbers, and an optional key has at most one value.
ASSUME InputsAssumption ==
  \A in \in Inputs :
    /\ in.hour \in Nat /\ in.count \subseteq Nat /\ in.max \subseteq Nat
    /\ \A w \in in.time_window : w.start \in Nat /\ w.end \in Nat
    /\ ~Several(in.count) /\ ~Several(in.time_window)
    /\ ~Several(in.allowed_environments)

VARIABLES
  input,    \* the request
  files,    \* the Cedar policy files that exist
  pc,       \* "evaluate", "decide", "cedar" or "done"
  answer,   \* what the POST to OPA brought
  outcome   \* how enforce ends: "ALLOW" (it returns) or the exception's name

vars == <<input, files, pc, answer, outcome>>

Init ==
  /\ input \in Inputs
  /\ files \in SUBSET CedarFiles
  /\ pc = "evaluate"
  /\ answer = "none"
  /\ outcome = "none"

Evaluate ==
  /\ pc = "evaluate"
  /\ answer' \in PdpAnswers(input)
  /\ pc' = "decide"
  /\ UNCHANGED <<input, files, outcome>>

\* What enforce makes of the decision.  _queue_approval writes to Redis, whose
\* errors enforce does not catch, before ApprovalRequiredError is raised.
Decide ==
  /\ pc = "decide"
  /\ LET verdict == _evaluate(answer) IN
       \/ /\ verdict = "ALLOW"
          /\ pc' = "cedar"
          /\ UNCHANGED outcome
       \/ /\ verdict = "REQUIRE_APPROVAL"
          /\ outcome' \in {"ApprovalRequiredError", "ConnectionError"}
          /\ pc' = "done"
       \/ /\ verdict \notin {"ALLOW", "REQUIRE_APPROVAL"}
          /\ outcome' = PolicyOutcome(verdict)
          /\ pc' = "done"
  /\ UNCHANGED <<input, files, answer>>

EvaluateCedar ==
  /\ pc = "cedar"
  /\ \E permitted \in _evaluate_cedar(input, files) :
       outcome' = IF permitted THEN "ALLOW" ELSE "PolicyDenialError"
  /\ pc' = "done"
  /\ UNCHANGED <<input, files, answer>>

Next == Evaluate \/ Decide \/ EvaluateCedar

Spec == Init /\ [][Next]_vars

-----------------------------------------------------------------------------

\* The outcomes of enforce, and the order of its two layers.
TypeOK ==
  /\ input \in Inputs
  /\ files \subseteq CedarFiles
  /\ pc \in {"evaluate", "decide", "cedar", "done"}
  /\ answer \in {"none", "conflict", "undefined", "ALLOW", "DENY",
                 "REQUIRE_APPROVAL"} \cup PdpFailures
  /\ outcome \in {"none", "ALLOW", "PolicyDenialError", "ApprovalRequiredError",
                  "ConnectionError", "KeyError", "ValidationError"}
  /\ outcome = "none" <=> pc # "done"

\* The effect main.rego decides on reaches the PEP, although the response also
\* carries a reason and the conditions: for a request that one rule allows no
\* two bodies of `reason` fire and no condition is undefined, and for a request
\* to be approved that goes wrong only when two gates ask for approval at once.
\* OPA then answers with an error, so the request is denied and never queued.
EffectReachesThePep ==
  \A effect \in effects(input) :
    response(input) = IF effect = "REQUIRE_APPROVAL" /\ Several(approval_reasons(input))
                      THEN {"conflict"} ELSE {effect}

\* An allowed request was made with a token that the introspection called
\* active and that belongs to this agent.  The fallback body of valid_token
\* also accepts a token reported inactive; Keycloak's answer for such a token
\* carries no scope, and that is what keeps it from being allowed.
AllowNeedsActiveToken ==
  outcome = "ALLOW" =>
    /\ input.claims.active = "true"
    /\ input.agent_id \in input.claims.agent_id

\* Destructive actions, IAM writes and anything a ProvisionerAgent does are
\* never allowed without the pre_approved flag, through either layer.
GatedActionsNeedApproval ==
  outcome = "ALLOW" =>
    \/ input.pre_approved
    \/ /\ input.action \notin destructive_actions \cup iam_write_actions
       /\ input.agent_type # "ProvisionerAgent"

\* No failure of an engine that was asked stands for its consent: when enforce
\* returns, OPA did answer with ALLOW, and where the CLI and the policy file of
\* the action are there, Cedar's policies permit the request and forbid nothing
\* about it.  Without the CLI or the file Cedar is not asked, and the action
\* passes on OPA's ALLOW alone.
AllowNeedsBothLayers ==
  outcome = "ALLOW" =>
    /\ answer = "ALLOW"
    /\ governed(input, CedarInstalled, files)
         => /\ s3_permits(input) \/ iam_permits(input)
            /\ ~(input.action \in S3_ACTIONS /\ s3_forbids(input))
            /\ ~(input.action \in IAM_ACTIONS /\ iam_forbids(input))

\* What the invariants above rest on: from "cedar" on, OPA's ALLOW rule fired.
AllowRuleFired ==
  /\ input \in Inputs
  /\ pc \in {"decide", "cedar"} => answer \in PdpAnswers(input)
  /\ pc = "cedar" \/ outcome = "ALLOW" => "ALLOW" \in effects(input)

\* tight asks for no more than loose does: fewer scopes, a higher count, a
\* lower limit, a narrower window and fewer environments, all else equal.
Tighter(tight, loose) ==
  /\ tight.agent_id = loose.agent_id
  /\ tight.agent_type = loose.agent_type
  /\ tight.action = loose.action
  /\ tight.environment = loose.environment
  /\ tight.hour = loose.hour
  /\ tight.task_id => loose.task_id
  /\ tight.incident_id => loose.incident_id
  /\ tight.pre_approved => loose.pre_approved
  /\ tight.claims.active = loose.claims.active
  /\ tight.claims.agent_id = loose.claims.agent_id
  /\ tight.claims.source_ip = loose.claims.source_ip
  /\ tight.claims.scopes \subseteq loose.claims.scopes
  /\ \A w \in loose.time_window : \E v \in tight.time_window :
       w.start <= v.start /\ v.end <= w.end
  /\ \A c \in loose.count : \E d \in tight.count : c <= d
  /\ max_actions_per_minute(tight) <= max_actions_per_minute(loose)
  /\ \A e \in loose.allowed_environments :
       \E f \in tight.allowed_environments : f \subseteq e

\* The requests OPA's ALLOW rule fires for (as a union, which TLC computes once).
Allowed == UNION {IF "ALLOW" \in effects(in) THEN {in} ELSE {} : in \in Inputs}

\* Restricting an agent never gains it anything: a request that OPA allows is
\* allowed still when the same agent holds more scopes, a wider time window,
\* more environments or a lower action count.
RestrictionNeverGrants ==
  \A tight \in Allowed : Tighter(tight, input) => "ALLOW" \in effects(input)

-----------------------------------------------------------------------------
(* What the repository's comments say of the policies.                     *)

\* main.rego:100 "Structured response consumed by PEP": a response that has a
\* value is one the PEP can read.
ResponseIsConsumed ==
  outcome # "none" /\ answer \in {"ALLOW", "DENY", "REQUIRE_APPROVAL"}
    => outcome # "ValidationError"

=============================================================================
