------------------------- MODULE PolicyQueryProofs --------------------------
(* What the policy layers guarantee for every set of requests.             *)
EXTENDS PolicyQuery, TLAPS

LEMMA AllowAnswer ==
  ASSUME NEW in, NEW ans \in PdpAnswers(in), _evaluate(ans) = "ALLOW"
  PROVE  "ALLOW" \in effects(in)
BY DEF PdpAnswers, response, effects, PdpFailures, _evaluate

LEMMA AllowRuleInvariant == Spec => []AllowRuleFired
<1>1. Init => AllowRuleFired
  BY DEF Init, AllowRuleFired
<1>2. AllowRuleFired /\ [Next]_vars => AllowRuleFired'
  <2> SUFFICES ASSUME AllowRuleFired, [Next]_vars PROVE AllowRuleFired'
    OBVIOUS
  <2>1. CASE Evaluate
    BY <2>1 DEF AllowRuleFired, Evaluate
  <2>2. CASE Decide
    <3>1. CASE _evaluate(answer) = "ALLOW"
      <4>1. "ALLOW" \in effects(input)
        BY <2>2, <3>1, AllowAnswer DEF AllowRuleFired, Decide
      <4>2. pc' = "cedar" /\ UNCHANGED <<input, files, answer, outcome>>
        BY <2>2, <3>1 DEF Decide
      <4>3. QED
        BY <2>2, <4>1, <4>2 DEF AllowRuleFired, Decide
    <3>2. CASE _evaluate(answer) # "ALLOW"
      <4>1. pc' = "done" /\ outcome' # "ALLOW" /\ UNCHANGED <<input, files, answer>>
        BY <2>2, <3>2 DEF Decide, PolicyOutcome
      <4>2. QED
        BY <4>1 DEF AllowRuleFired
    <3>3. QED
      BY <3>1, <3>2
  <2>3. CASE EvaluateCedar
    BY <2>3 DEF AllowRuleFired, EvaluateCedar
  <2>4. CASE UNCHANGED vars
    BY <2>4 DEF AllowRuleFired, vars
  <2>5. QED
    BY <2>1, <2>2, <2>3, <2>4 DEF Next
<1>3. QED
  BY <1>1, <1>2, PTL DEF Spec

\* The response rule's other parts keep an ALLOW, and lose a REQUIRE_APPROVAL
\* exactly where two gates give a reason, for every request document.
THEOREM EffectsReachThePep == Spec => []EffectReachesThePep
<1>1. ASSUME NEW in, "ALLOW" \in effects(in) PROVE response(in) = {"ALLOW"}
  <2>1. sub_policies_pass(in) /\ ~requires_approval(in)
    BY <1>1 DEF effects
  <2>2. approval_reasons(in) = {}
    BY <2>1 DEF requires_approval, approval_reasons
  <2>3. reasons(in) = {"denied by policy"}
    BY <2>1, <2>2 DEF sub_policies_pass, reasons, scope_deny_reasons, task_deny_reasons,
       action_in_scope
  <2>4. effects(in) = {"ALLOW"}
    BY <2>1 DEF effects
  <2>5. ~Conflicts(in) /\ conditions_defined(in)
    BY <2>1, <2>3, <2>4 DEF Conflicts, Several, conditions_defined, sub_policies_pass
  <2>6. QED
    BY <2>4, <2>5 DEF response
<1>2. ASSUME NEW in, "REQUIRE_APPROVAL" \in effects(in)
      PROVE  response(in) = IF Several(approval_reasons(in)) THEN {"conflict"}
                            ELSE {"REQUIRE_APPROVAL"}
  <2>1. sub_policies_pass(in) /\ requires_approval(in)
    BY <1>2 DEF effects
  <2>2. approval_reasons(in) # {}
    BY <2>1 DEF requires_approval, approval_reasons
  <2>3. reasons(in) = approval_reasons(in)
    <3> HIDE DEF approval_reasons
    <3>1. QED
      BY <2>1, <2>2 DEF sub_policies_pass, reasons, scope_deny_reasons,
         task_deny_reasons, action_in_scope
  <2>4. effects(in) = {"REQUIRE_APPROVAL"}
    BY <2>1 DEF effects
  <2>5. conditions_defined(in)
    BY <2>1 DEF conditions_defined, sub_policies_pass
  <2>6. Conflicts(in) <=> Several(approval_reasons(in))
    BY <2>3, <2>4 DEF Conflicts, Several
  <2>7. QED
    BY <2>4, <2>5, <2>6 DEF response
<1>3. \A in : effects(in) \subseteq {"ALLOW", "REQUIRE_APPROVAL"}
  BY DEF effects
<1>4. EffectReachesThePep
  BY <1>1, <1>2, <1>3 DEF EffectReachesThePep
<1>5. QED
  BY <1>4, PTL

\* Neither layer lets a gated action pass without pre_approved.
THEOREM GateHolds == Spec => []GatedActionsNeedApproval
<1>1. AllowRuleFired => GatedActionsNeedApproval
  BY DEF AllowRuleFired, GatedActionsNeedApproval, effects, requires_approval
<1>2. QED
  BY <1>1, AllowRuleInvariant, PTL

-----------------------------------------------------------------------------
(* Each sub-policy is monotone in what it restricts.                       *)

LEMMA TokenMonotone ==
  ASSUME NEW tight, NEW loose, Tighter(tight, loose), valid_token(tight)
  PROVE  valid_token(loose)
BY DEF Tighter, valid_token, claims_non_empty

LEMMA ScopeMonotone ==
  ASSUME NEW tight, NEW loose, Tighter(tight, loose), action_in_scope(tight)
  PROVE  action_in_scope(loose)
BY DEF Tighter, action_in_scope

LEMMA WindowMonotone ==
  ASSUME NEW tight \in Inputs, NEW loose \in Inputs, Tighter(tight, loose),
         within_window(tight)
  PROVE  within_window(loose)
<1>1. CASE loose.time_window = {} \/ (tight.agent_type = "SecOpsAgent" /\ tight.incident_id)
  BY <1>1 DEF Tighter, within_window
<1>2. ASSUME NEW w \in loose.time_window,
             ~(tight.agent_type = "SecOpsAgent" /\ tight.incident_id)
      PROVE  within_window(loose)
  <2>1. PICK v \in tight.time_window : w.start <= v.start /\ v.end <= w.end
    BY <1>2 DEF Tighter
  <2>2. v.start <= tight.hour /\ tight.hour < v.end
    BY <1>2, <2>1, InputsAssumption DEF within_window, Several
  <2>3. w.start <= loose.hour /\ loose.hour < w.end
    BY <2>1, <2>2, InputsAssumption DEF Tighter
  <2>4. QED
    BY <1>2, <2>3 DEF within_window
<1>3. QED
  BY <1>1, <1>2

LEMMA EnvironmentMonotone ==
  ASSUME NEW tight \in Inputs, NEW loose \in Inputs, Tighter(tight, loose),
         environment_allowed(tight)
  PROVE  environment_allowed(loose)
BY InputsAssumption DEF Tighter, environment_allowed, Several

LEMMA RateMonotone ==
  ASSUME NEW tight \in Inputs, NEW loose \in Inputs, Tighter(tight, loose),
         within_rate_limit(tight)
  PROVE  within_rate_limit(loose)
<1>1. \A in \in Inputs : max_actions_per_minute(in) \in Nat
  BY InputsAssumption DEF max_actions_per_minute, DefaultMaxActions
<1>2. ASSUME NEW c \in loose.count PROVE c < max_actions_per_minute(loose)
  <2>1. PICK d \in tight.count : c <= d
    BY <1>2 DEF Tighter
  <2>2. d < max_actions_per_minute(tight)
    BY <2>1, InputsAssumption DEF within_rate_limit, Several
  <2>3. max_actions_per_minute(tight) <= max_actions_per_minute(loose)
    BY DEF Tighter
  <2>4. c \in Nat /\ d \in Nat
    BY <1>2, <2>1, InputsAssumption
  <2>5. QED
    BY <1>1, <2>1, <2>2, <2>3, <2>4
<1>3. QED
  BY <1>2 DEF within_rate_limit

LEMMA GateMonotone ==
  ASSUME NEW tight, NEW loose, Tighter(tight, loose), ~requires_approval(tight)
  PROVE  ~requires_approval(loose)
BY DEF Tighter, requires_approval

\* Whatever the requests, one that asks for less never gets more out of OPA.
THEOREM Monotone == Spec => []RestrictionNeverGrants
<1>1. input \in Inputs => RestrictionNeverGrants
  <2> SUFFICES ASSUME input \in Inputs, NEW tight \in Inputs, Tighter(tight, input),
                      "ALLOW" \in effects(tight)
               PROVE  "ALLOW" \in effects(input)
    BY DEF RestrictionNeverGrants, Allowed
  <2>1. sub_policies_pass(tight) /\ ~requires_approval(tight)
    BY DEF effects
  <2>2. task_is_active(input)
    BY <2>1 DEF sub_policies_pass, task_is_active, Tighter
  <2>3. sub_policies_pass(input)
    BY <2>1, <2>2, TokenMonotone, ScopeMonotone, WindowMonotone, EnvironmentMonotone,
       RateMonotone DEF sub_policies_pass
  <2>4. ~requires_approval(input)
    BY <2>1, GateMonotone
  <2>5. QED
    BY <2>3, <2>4 DEF effects
<1>2. AllowRuleFired => input \in Inputs
  BY DEF AllowRuleFired
<1>3. QED
  BY <1>1, <1>2, AllowRuleInvariant, PTL

-----------------------------------------------------------------------------
(* The two layers                                                          *)

\* What OPA answers, and what _evaluate makes of it.
LEMMA AnswersTyped ==
  ASSUME NEW in
  PROVE  PdpAnswers(in) \subseteq
           {"conflict", "undefined", "ALLOW", "DENY", "REQUIRE_APPROVAL"} \cup PdpFailures
BY DEF PdpAnswers, response, effects

\* _evaluate reads ALLOW out of nothing but an ALLOW.
LEMMA AllowIsRead ==
  ASSUME NEW ans, _evaluate(ans) = "ALLOW" PROVE ans = "ALLOW"
BY DEF _evaluate

\* An answer of OPA gives one of five verdicts.
LEMMA VerdictsTyped ==
  ASSUME NEW ans \in {"conflict", "undefined", "ALLOW", "DENY", "REQUIRE_APPROVAL"}
                     \cup PdpFailures
  PROVE  _evaluate(ans) \in {"ALLOW", "REQUIRE_APPROVAL", "DENY", "KeyError",
                             "ValidationError"}
BY DEF _evaluate, PdpFailures

\* Decide comes after an answer, and either asks Cedar or ends the call.
LEMMA DecideTyped ==
  ASSUME TypeOK, answer # "none", Decide
  PROVE  /\ UNCHANGED <<input, files, answer>>
         /\ \/ pc' = "cedar" /\ outcome' = outcome /\ _evaluate(answer) = "ALLOW"
            \/ /\ pc' = "done"
               /\ outcome' \in {"PolicyDenialError", "ApprovalRequiredError",
                                "ConnectionError", "KeyError", "ValidationError"}
<1>1. _evaluate(answer) \in {"ALLOW", "REQUIRE_APPROVAL", "DENY", "KeyError",
                             "ValidationError"}
  BY VerdictsTyped DEF TypeOK
<1>2. QED
  BY <1>1 DEF Decide, PolicyOutcome

\* The inductive form of TypeOK.
Typed == TypeOK /\ (pc = "decide" => answer # "none")

LEMMA TypedInvariant == Spec => []Typed
<1>1. Init => Typed
  BY DEF Init, TypeOK, Typed
<1>2. Typed /\ [Next]_vars => Typed'
  <2> SUFFICES ASSUME Typed, [Next]_vars PROVE Typed'
    OBVIOUS
  <2> USE DEF Typed, TypeOK
  <2>1. CASE Evaluate
    <3>1. answer' # "none" /\ answer' \in {"conflict", "undefined", "ALLOW", "DENY",
                                           "REQUIRE_APPROVAL"} \cup PdpFailures
      BY <2>1, AnswersTyped DEF Evaluate, PdpFailures
    <3>2. QED
      BY <2>1, <3>1 DEF Evaluate
  <2>2. CASE Decide
    <3>1. pc = "decide"
      BY <2>2 DEF Decide
    <3>2. QED
      BY <2>2, <3>1, DecideTyped
  <2>3. CASE EvaluateCedar
    BY <2>3 DEF EvaluateCedar
  <2>4. CASE UNCHANGED vars
    BY <2>4 DEF vars
  <2>5. QED
    BY <2>1, <2>2, <2>3, <2>4 DEF Next
<1>3. QED
  BY <1>1, <1>2, PTL DEF Spec

\* enforce takes its steps in order and ends in one of its outcomes, whatever the
\* engines answer and whether Redis takes the approval request or not.
THEOREM TypeCorrect == Spec => []TypeOK
<1>1. Typed => TypeOK
  BY DEF Typed
<1>2. QED
  BY <1>1, TypedInvariant, PTL

\* From "cedar" on OPA's answer was ALLOW, and an ALLOW of enforce is one that
\* Cedar permitted as well.
BothConsent ==
  /\ pc = "cedar" => answer = "ALLOW"
  /\ outcome = "ALLOW" => answer = "ALLOW" /\ TRUE \in _evaluate_cedar(input, files)

LEMMA BothConsentInvariant == Spec => []BothConsent
<1>1. Init => BothConsent
  BY DEF Init, BothConsent
<1>2. BothConsent /\ Typed /\ [Next]_vars => BothConsent'
  <2> SUFFICES ASSUME BothConsent, Typed, [Next]_vars PROVE BothConsent'
    OBVIOUS
  <2>1. CASE Evaluate
    BY <2>1 DEF BothConsent, Evaluate, Typed, TypeOK
  <2>2. CASE Decide
    <3>1. pc = "decide"
      BY <2>2 DEF Decide
    <3>2. outcome # "ALLOW"
      BY <3>1 DEF Typed, TypeOK
    <3>3. QED
      BY <2>2, <3>1, <3>2, DecideTyped, AllowIsRead DEF BothConsent, Typed
  <2>3. CASE EvaluateCedar
    BY <2>3 DEF BothConsent, EvaluateCedar
  <2>4. CASE UNCHANGED vars
    BY <2>4 DEF BothConsent, vars
  <2>5. QED
    BY <2>1, <2>2, <2>3, <2>4 DEF Next
<1>3. QED
  BY <1>1, <1>2, TypedInvariant, PTL DEF Spec

\* What a consent of Cedar means where Cedar is asked.
LEMMA CedarConsent ==
  ASSUME NEW in, NEW fs, TRUE \in _evaluate_cedar(in, fs),
         governed(in, CedarInstalled, fs)
  PROVE  /\ s3_permits(in) \/ iam_permits(in)
         /\ ~(in.action \in S3_ACTIONS /\ s3_forbids(in))
         /\ ~(in.action \in IAM_ACTIONS /\ iam_forbids(in))
<1>1. S3_ACTIONS \cap IAM_ACTIONS = {}
  BY DEF S3_ACTIONS, IAM_ACTIONS
<1>2. authorize(in)
  BY DEF _evaluate_cedar, cedar_evaluate
<1>3. QED
  BY <1>1, <1>2 DEF authorize

\* No error, timeout or crash of an engine that is asked stands for its consent.
THEOREM BothLayersConsent == Spec => []AllowNeedsBothLayers
<1>1. BothConsent => AllowNeedsBothLayers
  BY CedarConsent DEF BothConsent, AllowNeedsBothLayers
<1>2. QED
  BY <1>1, BothConsentInvariant, PTL

\* Keycloak's introspection says nothing of a token but that it is inactive.
KeycloakAnswers ==
  \A in \in Inputs : in.claims.active # "true" => in.claims.scopes = {}

\* Where claims come from Keycloak's introspection, the fallback body of
\* valid_token allows nothing: a token that is not active has no scope.
THEOREM ActiveTokenNeeded ==
  ASSUME KeycloakAnswers PROVE Spec => []AllowNeedsActiveToken
<1>1. AllowRuleFired => AllowNeedsActiveToken
  <2> SUFFICES ASSUME AllowRuleFired, outcome = "ALLOW"
               PROVE  input.claims.active = "true" /\ input.agent_id \in input.claims.agent_id
    BY DEF AllowNeedsActiveToken
  <2>1. input \in Inputs /\ valid_token(input) /\ action_in_scope(input)
    BY DEF AllowRuleFired, effects, sub_policies_pass
  <2>2. input.claims.scopes # {}
    BY <2>1 DEF action_in_scope
  <2>3. input.claims.active = "true"
    BY <2>1, <2>2, KeycloakAnswers DEF KeycloakAnswers
  <2>4. QED
    BY <2>1, <2>3 DEF valid_token
<1>2. QED
  BY <1>1, AllowRuleInvariant, PTL
=============================================================================
