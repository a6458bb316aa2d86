-------------------------------- MODULE Pep ---------------------------------
(***************************************************************************)
(* The stateless part of the policy enforcement point (pep/client.py): the *)
(* checks on the request itself, and what the PEP makes of the answers of  *)
(* the two policy engines.                                                 *)
(***************************************************************************)
EXTENDS Rego, Cedar

CONSTANTS
  TimestampIsText,  \* the PDP answers evaluated_at as PolicyDecision wants it
  CedarInstalled    \* the cedar CLI is on the PEP's PATH

ASSUME DeploymentAssumption ==
  TimestampIsText \in BOOLEAN /\ CedarInstalled \in BOOLEAN

\* _check_ip_binding passes: no source_ip claim, or the requester's own.
ip_bound(claims, source_ip) == claims.source_ip \subseteq {source_ip}

\* Answers to the POST that carry no decision: httpx raises for both.
PdpFailures == {"unreachable", "error status"}

PdpAnswers(in) == response(in) \cup PdpFailures

\* _evaluate: the effect it returns, or the name of the exception it raises.
\* No answer and an error status (OPA's for a conflict) are a DENY made by the
\* PEP.  An undefined response has no "result" key.  A response whose
\* evaluated_at is a number is refused by PolicyDecision, whose field is a str.
_evaluate(answer) ==
  CASE answer \in PdpFailures \cup {"conflict"} -> "DENY"
    [] answer = "undefined" -> "KeyError"
    [] OTHER -> IF TimestampIsText THEN answer ELSE "ValidationError"

\* _evaluate_cedar: the values CedarDecision.permitted can take, given the
\* policy files that exist at the time.
_evaluate_cedar(in, files) == cedar_evaluate(in, CedarInstalled, files)

\* Mutant: a refusal raises its bare effect.
MutBareVerdict(verdict) == verdict

\* enforce, after _evaluate: what the verdict leads to.
PolicyOutcome(verdict) ==
  IF verdict = "DENY" THEN "PolicyDenialError" ELSE verdict

=============================================================================
