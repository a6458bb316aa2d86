------------------------------ MODULE AgentRun ------------------------------
(***************************************************************************)
(* Agents taking governed actions: the graph BaseAgent.run walks           *)
(* (agents/base/agent.py) with every call of PolicyEnforcementPoint.enforce*)
(* (pep/client.py) a step of its own, because each one reads or writes     *)
(* state it shares with other processes: the suspended identities and the  *)
(* per-minute counters in Redis, the two policy engines, the audit bus.    *)
(*                                                                         *)
(* A runner is one BaseAgent instance in a process of its own; several     *)
(* runners may act for the same identity.  Time is a count of minutes.     *)
(***************************************************************************)
EXTENDS Pep, FiniteSets

CONSTANTS
  Runners,        \* agent instances
  Agents,         \* agent identities
  IdOf,           \* the identity a runner acts for
  TypeOf,         \* the agent_type of an identity
  Granted,        \* the scopes an identity's ToolRegistry was built with
  Handlers,       \* the tools an identity's agent class has a handler for
  SourceIp,       \* the address a runner finds for itself at start-up
  Jobs,           \* the arguments run() is called with
  Introspections, \* the claims Keycloak may return for a token
  CedarPolicies,  \* the Cedar policy files that exist
  RedisMayFail,   \* a Redis command may fail
  KafkaMayFail,   \* Kafka may refuse an event or not answer in time
  MaxRuns,        \* bound: calls of run() per runner
  MaxMinute       \* bound: minutes of history

Minutes == 0..MaxMinute

\* TOOL_CATALOG: tool key, action and required scope.
TOOL_CATALOG ==
  { <<"s3_list_buckets", "s3:ListBuckets", "cloud:s3:list">>,
    <<"s3_get_object", "s3:GetObject", "cloud:s3:read">>,
    <<"s3_put_object", "s3:PutObject", "cloud:s3:write">>,
    <<"s3_delete_object", "s3:DeleteObject", "cloud:s3:delete">>,
    <<"s3_delete_bucket", "s3:DeleteBucket", "cloud:s3:delete">>,
    <<"ec2_describe_instances", "ec2:DescribeInstances", "cloud:ec2:describe">>,
    <<"ec2_describe_security_groups", "ec2:DescribeSecurityGroups",
      "cloud:ec2:describe">>,
    <<"ec2_terminate_instance", "ec2:TerminateInstances", "cloud:ec2:terminate">>,
    <<"iam_list_roles", "iam:ListRoles", "cloud:iam:read">>,
    <<"iam_create_role", "iam:CreateRole", "cloud:iam:create-role">>,
    <<"securityhub_get_findings", "securityhub:GetFindings",
      "cloud:securityhub:read">> }

ASSUME RunnersAssumption ==
  /\ IdOf \in [Runners -> Agents]
  /\ Jobs # {} /\ Introspections # {}
  /\ \A j \in Jobs : j.max \subseteq Int
  /\ CedarPolicies \subseteq CedarFiles
  /\ RedisMayFail \in BOOLEAN /\ KafkaMayFail \in BOOLEAN
  /\ MaxRuns \in Nat /\ MaxMinute \in Nat

VARIABLES
  pc,         \* [runner] the node of the graph, or the step of enforce
  run,        \* [runner] how often run() was called
  job,        \* [runner] the arguments of the current call
  claims,     \* [runner] context["_token_claims"]
  bucket,     \* [runner] minute_bucket
  count,      \* [runner] current_action_count_per_minute, optional
  decision,   \* [runner] state["decision"]
  error,      \* [runner] state["error"] is set
  outcome,    \* [runner] how the last run ended
  minute,     \* wall clock
  counter,    \* Redis rate:{agent}:{minute}
  suspended,  \* Redis identities:suspended
  issued,     \* [runner] events it built; the last one numbers its event_id
  fallback,   \* [runner] events in the memory of its AuditProducer
  topic,      \* events in Kafka's topic
  executed,   \* history: the requests a tool handler was called for
  grants,     \* history: OPA ALLOWs given to a counted request
  blocked     \* history: suspended since before the run's suspension check,
              \* Redis answering

local  == <<job, claims, bucket, count, decision, error>>
redis  == <<minute, counter, suspended>>
audit  == <<issued, fallback, topic>>
ghosts == <<executed, grants, blocked>>
vars   == <<pc, run, local, outcome, redis, audit, ghosts>>

PepSteps == {"suspension", "rate", "evaluate", "cedar", "queue_approval"}

\* Where a run has yet to ask whether its identity is suspended.
Unchecked == {"fetch_token", "policy_check", "suspension"}

Nodes == {"fetch_token", "policy_check", "audit_decision", "execute_tool",
          "audit_result", "error_handler"}

Refusals == {"DENY", "PolicyDenialError", "ApprovalRequiredError", "KeyError",
             "ValidationError", "ConnectionError"}

Results == {"EXECUTED", "EXECUTION_FAILED"}

NoJob    == CHOOSE j \in Jobs : TRUE
NoClaims == CHOOSE c \in Introspections : TRUE

Init ==
  /\ pc = [r \in Runners |-> "idle"]
  /\ run = [r \in Runners |-> 0]
  /\ job = [r \in Runners |-> NoJob]
  /\ claims = [r \in Runners |-> NoClaims]
  /\ bucket = [r \in Runners |-> 0]
  /\ count = [r \in Runners |-> {}]
  /\ decision = [r \in Runners |-> "none"]
  /\ error = [r \in Runners |-> FALSE]
  /\ outcome = [r \in Runners |-> "none"]
  /\ minute = 0
  /\ counter = [a \in Agents |-> [m \in Minutes |-> 0]]
  /\ suspended = {}
  /\ issued = [r \in Runners |-> 0]
  /\ fallback = [r \in Runners |-> {}]
  /\ topic = {}
  /\ executed = {}
  /\ grants = {}
  /\ blocked = [r \in Runners |-> FALSE]

-----------------------------------------------------------------------------
(* Helpers                                                                 *)

\* ToolRegistry: the catalog entries whose scope the identity was granted.
available_tools(a) == {t \in TOOL_CATALOG : t[3] \in Granted[a]}

tool_available(r) == \E t \in available_tools(IdOf[r]) : t[1] = job[r].tool

ActionOf(tool) == (CHOOSE t \in TOOL_CATALOG : t[1] = tool)[2]

\* The ActionRequest _node_policy_check builds; count is the one field enforce
\* adds to it later.
Request(r) ==
  [agent_id |-> IdOf[r], agent_type |-> TypeOf[IdOf[r]],
   action |-> ActionOf(job[r].tool), environment |-> job[r].environment,
   task_id |-> job[r].task_id, claims |-> claims[r],
   time_window |-> job[r].time_window, incident_id |-> job[r].incident_id,
   max |-> job[r].max, count |-> count[r], pre_approved |-> job[r].pre_approved,
   allowed_environments |-> job[r].allowed_environments, hour |-> job[r].hour,
   tags |-> job[r].tags]

Goto(r, node) == pc' = [pc EXCEPT ![r] = node]

\* Mutant: the text of the exception is recorded instead of its class.
MutRefuseWithText(r, d) ==
  /\ decision' = [decision EXCEPT ![r] = "denied by policy"]
  /\ error' = [error EXCEPT ![r] = TRUE]
  /\ Goto(r, "audit_decision")

\* enforce, or the registry lookup before it, raised; the except clauses of
\* _node_policy_check record d and the error.
Refuse(r, d) ==
  /\ decision' = [decision EXCEPT ![r] = d]
  /\ error' = [error EXCEPT ![r] = TRUE]
  /\ Goto(r, "audit_decision")

\* The next event of r, with the event_id it alone bears.
NextEvent(r, d) ==
  [runner |-> r, id |-> issued[r] + 1, run |-> run[r], decision |-> d]

\* Mutant: an event that timed out is built and published anew.
MutPublishTwice(r, d) ==
  LET event == NextEvent(r, d) IN
    \/ /\ issued' = [issued EXCEPT ![r] = @ + 1]
       /\ topic' = topic \cup {event}
       /\ UNCHANGED fallback
    \/ /\ KafkaMayFail
       /\ issued' = [issued EXCEPT ![r] = @ + 2]
       /\ fallback' = [fallback EXCEPT ![r] = @ \cup {event, [event EXCEPT !.id = @ + 1]}]
       /\ UNCHANGED topic

\* AuditProducer.publish: acknowledged by Kafka, or kept in the memory of the
\* producer.  It does not raise.
Publish(r, d) ==
  /\ issued' = [issued EXCEPT ![r] = @ + 1]
  /\ \/ /\ topic' = topic \cup {NextEvent(r, d)}
        /\ UNCHANGED fallback
     \/ /\ KafkaMayFail
        /\ fallback' = [fallback EXCEPT ![r] = @ \cup {NextEvent(r, d)}]
        /\ UNCHANGED topic

\* The call of run() is over; its state is garbage.
Leave(r, how) ==
  /\ Goto(r, "idle")
  /\ outcome' = [outcome EXCEPT ![r] = how]
  /\ job' = [job EXCEPT ![r] = NoJob]
  /\ claims' = [claims EXCEPT ![r] = NoClaims]
  /\ bucket' = [bucket EXCEPT ![r] = 0]
  /\ count' = [count EXCEPT ![r] = {}]
  /\ decision' = [decision EXCEPT ![r] = "none"]
  /\ error' = [error EXCEPT ![r] = FALSE]

-----------------------------------------------------------------------------
(* The nodes of the graph, taken by the runner                             *)

Start(r, j) ==
  /\ pc[r] = "idle"
  /\ run[r] < MaxRuns
  /\ run' = [run EXCEPT ![r] = @ + 1]
  /\ job' = [job EXCEPT ![r] = j]
  /\ outcome' = [outcome EXCEPT ![r] = "none"]
  /\ blocked' = [blocked EXCEPT ![r] = IdOf[r] \in suspended]
  /\ Goto(r, "fetch_token")
  /\ UNCHANGED <<claims, bucket, count, decision, error, redis, audit,
                 executed, grants>>

\* A token from the cache or from Keycloak, then its introspection; load_task
\* does nothing but log.
FetchToken(r) ==
  /\ pc[r] = "fetch_token"
  /\ \E c \in Introspections : claims' = [claims EXCEPT ![r] = c]
  /\ Goto(r, "policy_check")
  /\ UNCHANGED <<run, job, bucket, count, decision, error, outcome, redis,
                 audit, ghosts>>

\* Acquisition or introspection raises, which nothing on the way out of
\* invoke() catches.
FetchTokenRaises(r) ==
  /\ pc[r] = "fetch_token"
  /\ Leave(r, "raised")
  /\ UNCHANGED <<run, redis, audit, ghosts>>

\* The registry lookup and enforce's IP check: local to the runner.
PolicyCheck(r) ==
  /\ pc[r] = "policy_check"
  /\ \/ /\ ~tool_available(r)
        /\ Refuse(r, "DENY")
     \/ /\ tool_available(r)
        /\ ~ip_bound(claims[r], SourceIp[r])
        /\ Refuse(r, "PolicyDenialError")
     \/ /\ tool_available(r)
        /\ ip_bound(claims[r], SourceIp[r])
        /\ Goto(r, "suspension")
        /\ UNCHANGED <<decision, error>>
  /\ UNCHANGED <<run, job, claims, bucket, count, outcome, redis, audit, ghosts>>

\* Mutant: the suspended set is not consulted.
MutSuspensionSkipped(r) ==
  /\ pc[r] = "suspension"
  /\ Goto(r, "rate")
  /\ bucket' = [bucket EXCEPT ![r] = minute]
  /\ UNCHANGED <<run, job, claims, count, decision, error, outcome, redis,
                 audit, ghosts>>

\* _check_suspension; a Redis failure passes through.  When it passes, the
\* first thing _inject_rate_limit_count does is to read the clock.
CheckSuspension(r) ==
  /\ pc[r] = "suspension"
  /\ \/ /\ IdOf[r] \in suspended
        /\ Refuse(r, "PolicyDenialError")
        /\ UNCHANGED <<bucket, blocked>>
     \/ /\ \/ IdOf[r] \notin suspended /\ UNCHANGED blocked
           \/ RedisMayFail /\ blocked' = [blocked EXCEPT ![r] = FALSE]
        /\ bucket' = [bucket EXCEPT ![r] = minute]
        /\ Goto(r, "rate")
        /\ UNCHANGED <<decision, error>>
  /\ UNCHANGED <<run, job, claims, count, outcome, redis, audit, executed, grants>>

\* _inject_rate_limit_count.  INCR may fail, or be applied and its answer (or
\* the EXPIRE after it) be lost; no count is injected then.
InjectRateLimitCount(r) ==
  /\ pc[r] = "rate"
  /\ LET n == counter[IdOf[r]][bucket[r]] + 1 IN
       \/ /\ counter' = [counter EXCEPT ![IdOf[r]][bucket[r]] = n]
          /\ count' = [count EXCEPT ![r] = {n}]
       \/ /\ RedisMayFail
          /\ UNCHANGED <<counter, count>>
       \/ /\ RedisMayFail
          /\ counter' = [counter EXCEPT ![IdOf[r]][bucket[r]] = n]
          /\ UNCHANGED count
  /\ Goto(r, "evaluate")
  /\ UNCHANGED <<run, job, claims, bucket, decision, error, outcome, minute,
                 suspended, audit, ghosts>>

Evaluate(r) ==
  /\ pc[r] = "evaluate"
  /\ \E answer \in PdpAnswers(Request(r)) :
       LET verdict == _evaluate(answer) IN
         \/ /\ verdict = "ALLOW"
            /\ Goto(r, "cedar")
            /\ grants' = grants \cup
                 {[agent |-> IdOf[r], bucket |-> bucket[r], count |-> n,
                   runner |-> r, run |-> run[r]] : n \in count[r]}
            /\ UNCHANGED <<decision, error>>
         \/ /\ verdict = "REQUIRE_APPROVAL"
            /\ Goto(r, "queue_approval")
            /\ UNCHANGED <<decision, error, grants>>
         \/ /\ verdict \notin {"ALLOW", "REQUIRE_APPROVAL"}
            /\ Refuse(r, PolicyOutcome(verdict))
            /\ UNCHANGED grants
  /\ UNCHANGED <<run, job, claims, bucket, count, outcome, redis, audit,
                 executed, blocked>>

EvaluateCedar(r) ==
  /\ pc[r] = "cedar"
  /\ \E permitted \in _evaluate_cedar(Request(r), CedarPolicies) :
       \/ /\ permitted
          /\ decision' = [decision EXCEPT ![r] = "ALLOW"]
          /\ Goto(r, "audit_decision")
          /\ UNCHANGED error
       \/ /\ ~permitted
          /\ Refuse(r, "PolicyDenialError")
  /\ UNCHANGED <<run, job, claims, bucket, count, outcome, redis, audit, ghosts>>

\* _queue_approval writes to Redis through a connection of its own, whose
\* errors enforce does not catch.
QueueApproval(r) ==
  /\ pc[r] = "queue_approval"
  /\ \/ Refuse(r, "ApprovalRequiredError")
     \/ RedisMayFail /\ Refuse(r, "ConnectionError")
  /\ UNCHANGED <<run, job, claims, bucket, count, outcome, redis, audit, ghosts>>

\* Mutant: the graph routes everything but a registry DENY to the tool.
MutRouteOnDeny(r) ==
  IF decision[r] = "DENY" THEN "error_handler" ELSE "execute_tool"

_route_after_policy(r) ==
  IF decision[r] = "ALLOW" THEN "execute_tool" ELSE "error_handler"

\* Mutant: an allowed action is audited by its result event alone.
MutAuditResultOnly(r) ==
  /\ pc[r] = "audit_decision"
  /\ IF decision[r] = "ALLOW" THEN UNCHANGED audit ELSE Publish(r, decision[r])
  /\ Goto(r, _route_after_policy(r))
  /\ UNCHANGED <<run, local, outcome, redis, ghosts>>

AuditDecision(r) ==
  /\ pc[r] = "audit_decision"
  /\ Publish(r, decision[r])
  /\ Goto(r, _route_after_policy(r))
  /\ UNCHANGED <<run, local, outcome, redis, ghosts>>

\* Mutant: a handler that raised is called again.
MutRetryTool(r) ==
  /\ pc[r] = "execute_tool"
  /\ executed' = executed \cup {[runner |-> r, run |-> run[r], request |-> Request(r)]}
  /\ \E raised \in BOOLEAN :
       /\ error' = [error EXCEPT ![r] = raised]
       /\ Goto(r, IF raised THEN "execute_tool" ELSE "audit_result")
  /\ UNCHANGED <<run, job, claims, bucket, count, decision, outcome, redis,
                 audit, grants, blocked>>

\* A handler may raise, before or after its cloud call; a tool without a
\* handler only leaves an error.
ExecuteTool(r) ==
  /\ pc[r] = "execute_tool"
  /\ \/ /\ job[r].tool \notin Handlers[IdOf[r]]
        /\ error' = [error EXCEPT ![r] = TRUE]
        /\ UNCHANGED executed
     \/ /\ job[r].tool \in Handlers[IdOf[r]]
        /\ executed' = executed \cup
             {[runner |-> r, run |-> run[r], request |-> Request(r)]}
        /\ \E raised \in BOOLEAN : error' = [error EXCEPT ![r] = raised]
  /\ Goto(r, "audit_result")
  /\ UNCHANGED <<run, job, claims, bucket, count, decision, outcome, redis,
                 audit, grants, blocked>>

AuditResult(r) ==
  /\ pc[r] = "audit_result"
  /\ Publish(r, IF error[r] THEN "EXECUTION_FAILED" ELSE "EXECUTED")
  /\ Leave(r, "completed")
  /\ UNCHANGED <<run, redis, ghosts>>

\* Mutant: the handler waits for a decision to appear.
MutErrorHandlerWaits(r) ==
  /\ pc[r] = "error_handler"
  /\ decision[r] # "ApprovalRequiredError"
  /\ Leave(r, "blocked")
  /\ UNCHANGED <<run, redis, audit, ghosts>>

ErrorHandler(r) ==
  /\ pc[r] = "error_handler"
  /\ Leave(r, "blocked")
  /\ UNCHANGED <<run, redis, audit, ghosts>>

\* The agent's process dies, in a run or between two, and with it the events in
\* its memory; it may be started again.
Crash(r) ==
  /\ Leave(r, "crashed")
  /\ fallback' = [fallback EXCEPT ![r] = {}]
  /\ UNCHANGED <<run, redis, issued, topic, ghosts>>

-----------------------------------------------------------------------------
(* The rest of the world                                                   *)

\* Kafka appends an event after its producer had stopped waiting for the answer.
LateAppend(r) ==
  /\ \E event \in fallback[r] :
       /\ event \notin topic
       /\ topic' = topic \cup {event}
  /\ UNCHANGED <<pc, run, local, outcome, redis, issued, fallback, ghosts>>

\* POST /identities/{id}/suspend and /unsuspend: the effect on the Redis set.
Suspend(a) ==
  /\ a \notin suspended
  /\ suspended' = suspended \cup {a}
  /\ blocked' = [r \in Runners |->
                   blocked[r] \/ (IdOf[r] = a /\ pc[r] \in Unchecked)]
  /\ UNCHANGED <<pc, run, local, outcome, minute, counter, audit, executed, grants>>

Unsuspend(a) ==
  /\ a \in suspended
  /\ suspended' = suspended \ {a}
  /\ blocked' = [r \in Runners |-> blocked[r] /\ IdOf[r] # a]
  /\ UNCHANGED <<pc, run, local, outcome, minute, counter, audit, executed, grants>>

\* Mutant: the counter expires with its own minute.
MutExpireAtOnce(m, now) == now < m + 1

\* A counter expires 120 s after its first INCR, never before the second
\* minute after its own.
Unexpired(m, now) == now < m + 2

\* A minute passes.  An INCR reaches Redis within a minute of the clock reading
\* that named its key (socket_timeout is 2 s).
Tick ==
  /\ minute < MaxMinute
  /\ \A r \in Runners : pc[r] = "rate" => bucket[r] = minute
  /\ minute' = minute + 1
  /\ counter' = [a \in Agents |-> [m \in Minutes |->
                   IF Unexpired(m, minute') THEN counter[a][m] ELSE 0]]
  /\ UNCHANGED <<pc, run, local, outcome, suspended, audit, ghosts>>

-----------------------------------------------------------------------------

\* The steps a call of run() takes of its own accord and in bounded time:
\* Redis answers within socket_timeout (2 s), OPA within 5 s and Keycloak within
\* 10 s (httpx), Cedar within 5 s (subprocess), Kafka within 5 s (future.get), the
\* cloud within boto3's default timeouts.
TimedStep(r) ==
  \/ FetchToken(r) \/ FetchTokenRaises(r)
  \/ PolicyCheck(r)
  \/ CheckSuspension(r)
  \/ InjectRateLimitCount(r)
  \/ Evaluate(r)
  \/ EvaluateCedar(r)
  \/ AuditDecision(r)
  \/ ExecuteTool(r)
  \/ AuditResult(r)
  \/ ErrorHandler(r)

\* The connection _queue_approval opens has no timeout.
RunnerStep(r) == TimedStep(r) \/ QueueApproval(r)

Next ==
  \/ \E r \in Runners :
       RunnerStep(r) \/ Crash(r) \/ LateAppend(r) \/ \E j \in Jobs : Start(r, j)
  \/ \E a \in Agents : Suspend(a) \/ Unsuspend(a)
  \/ Tick

Spec == Init /\ [][Next]_vars

\* A run whose current call has a timeout goes on, unless its process dies.
FairSpec == Spec /\ \A r \in Runners : WF_vars(TimedStep(r))

-----------------------------------------------------------------------------
(* Properties                                                              *)

Events == [runner : Runners, id : Nat, run : Nat, decision : {"ALLOW"} \cup Refusals \cup Results]

\* The state of every run, of Redis and of the audit bus.
TypeOK ==
  /\ pc \in [Runners -> {"idle"} \cup Nodes \cup PepSteps]
  /\ run \in [Runners -> Nat]
  /\ job \in [Runners -> Jobs]
  /\ claims \in [Runners -> Introspections]
  /\ bucket \in [Runners -> Minutes]
  /\ count \in [Runners -> SUBSET Nat]
  /\ decision \in [Runners -> {"none", "ALLOW"} \cup Refusals]
  /\ error \in [Runners -> BOOLEAN]
  /\ outcome \in [Runners -> {"none", "raised", "completed", "blocked", "crashed"}]
  /\ minute \in Minutes
  /\ counter \in [Agents -> [Minutes -> Nat]]
  /\ suspended \subseteq Agents
  /\ issued \in [Runners -> Nat]
  /\ fallback \in [Runners -> SUBSET Events]
  /\ topic \subseteq Events
  /\ grants \subseteq [agent : Agents, bucket : Minutes, count : Nat,
                       runner : Runners, run : Nat]
  /\ blocked \in [Runners -> BOOLEAN]

\* Every gate between a request and the cloud is open for it: the tool is
\* granted, the token is bound to this host, OPA's policy allows the request
\* with the count it carries, and Cedar may permit it.
Mediated(r, request) ==
  /\ \E t \in available_tools(request.agent_id) : t[2] = request.action
  /\ ip_bound(request.claims, SourceIp[r])
  /\ "ALLOW" \in effects(request)
  /\ TRUE \in _evaluate_cedar(request, CedarPolicies)

\* Complete mediation: a tool handler only ever runs for a request that all
\* four gates let through, whatever the policy engines, Redis and the other
\* runners did in between.
CompleteMediation == \A x \in executed : Mediated(x.runner, x.request)

\* The audit trail of run n of r: its events in Kafka and in the memory of r.
EventsOf(r, n) == {e \in topic \cup fallback[r] : e.runner = r /\ e.run = n}

Allowed(r, n) == \E e \in EventsOf(r, n) : e.decision = "ALLOW"

\* No handler is called, and no result is issued, before the ALLOW of the same
\* run is in the audit trail (FR-4.4).
AuditedBeforeExecution ==
  [][/\ \A x \in executed' \ executed : Allowed(x.runner, x.run)
     /\ \A r \in Runners : \A e \in EventsOf(r, run[r])' \ EventsOf(r, run[r]) :
          e.decision \in Results => Allowed(r, run[r])
    ]_vars

\* "If execution later fails or the process dies, the decision is already
\* durable": the ALLOW behind every executed request is in Kafka.
DecisionIsDurable ==
  \A x \in executed :
    \E e \in topic : e.runner = x.runner /\ e.run = x.run /\ e.decision = "ALLOW"

\* The trail of a run that came to its end, read while its process lives: one
\* ALLOW and one result if it was allowed, one refusal otherwise, each issued
\* once; a run whose token could not be had left nothing.
FinishedRunsAreAudited ==
  \A r \in Runners :
    LET events    == EventsOf(r, run[r])
        results   == {e \in events : e.decision \in Results}
        decisions == events \ results
    IN  /\ outcome[r] = "completed" =>
             /\ Cardinality(decisions) = 1 /\ Allowed(r, run[r])
             /\ Cardinality(results) = 1
        /\ outcome[r] = "blocked" =>
             /\ Cardinality(decisions) = 1 /\ ~Allowed(r, run[r])
             /\ results = {}
        /\ outcome[r] = "raised" => events = {}

\* An identity suspended before a run asked for it, and that nobody reinstated
\* meanwhile, does not act in that run as long as Redis answers.
SuspendedDoesNotAct ==
  \A r \in Runners :
    blocked[r] => /\ decision[r] # "ALLOW"
                  /\ \A x \in executed : x.runner = r => x.run # run[r]

DeclaredLimits == {IF j.max = {} THEN DefaultMaxActions
                   ELSE CHOOSE m \in j.max : TRUE : j \in Jobs}

\* Within one minute, the counted requests OPA allowed for an identity, over
\* all of its runners, stay below the largest limit its jobs declare.
RateIsLimited ==
  \A a \in Agents, m \in Minutes :
    \E limit \in DeclaredLimits :
      LET granted == {g \in grants : g.agent = a /\ g.bucket = m}
      IN  granted = {} \/ Cardinality(granted) < limit

\* A run ends, whatever fails on its way, or waits for ever for the Redis it
\* queues an approval request in: no other node waits for what may never come.
EveryRunEnds ==
  \A r \in Runners :
    (pc[r] # "idle") ~> (pc[r] = "idle" \/ [](pc[r] = "queue_approval"))

-----------------------------------------------------------------------------
(* The inductive invariant behind the safety properties                    *)

\* The gates run r has passed when it stands at a step of the graph.
GatesOf(r) ==
  /\ decision[r] = "none"
       <=> pc[r] \in {"idle", "fetch_token", "policy_check"} \cup PepSteps
  /\ pc[r] \in PepSteps =>
       tool_available(r) /\ ip_bound(claims[r], SourceIp[r])
  /\ pc[r] = "cedar" => "ALLOW" \in effects(Request(r))
  /\ decision[r] = "ALLOW" => Mediated(r, Request(r))

GatesPassed == \A r \in Runners : GatesOf(r)

\* A run that stands at its tool, or past it, has its ALLOW in the trail; a
\* producer keeps in memory only events of its own, and only when Kafka failed;
\* no event is about a run to come.
TrailKept ==
  /\ \A r \in Runners : pc[r] \in {"execute_tool", "audit_result"} =>
       decision[r] = "ALLOW" /\ Allowed(r, run[r])
  /\ \A r \in Runners : \A e \in fallback[r] : e.runner = r /\ KafkaMayFail
  /\ \A r \in Runners : \A e \in topic \cup fallback[r] : e.run <= run[e.runner]

\* A blocked run is suspended still and has not passed the suspension check; a
\* run that acted is past its tool, and no history is about a run to come.
SuspensionKept ==
  /\ \A r \in Runners : blocked[r] =>
       /\ IdOf[r] \in suspended
       /\ pc[r] \notin {"rate", "evaluate", "cedar", "queue_approval"}
       /\ decision[r] # "ALLOW"
       /\ \A x \in executed : x.runner = r => x.run # run[r]
  /\ \A x \in executed :
       /\ x.runner \in Runners /\ x.run \in Nat /\ x.run <= run[x.runner]
       /\ x.run = run[x.runner] => pc[x.runner] \in {"audit_result", "idle"}

IInv == TypeOK /\ GatesPassed /\ CompleteMediation /\ TrailKept /\ SuspensionKept

-----------------------------------------------------------------------------
(* Refinement                                                              *)

\* How far a run at a node of the graph is for a reader of the audit trail.
Stage(node) ==
  CASE node = "idle"          -> "idle"
    [] node = "execute_tool"  -> "allowed"
    [] node = "error_handler" -> "refused"
    [] node = "audit_result"  -> "acted"
    [] OTHER                  -> "deciding"

stages == [r \in Runners |-> Stage(pc[r])]

\* The runs in which a tool handler was called.
handled == {<<x.runner, x.run>> : x \in executed}

Guard == INSTANCE GuardedExecution
           WITH Verdicts <- {"ALLOW"} \cup Refusals, Outcomes <- Results,
                LogMayFail <- KafkaMayFail,
                stage <- stages, told <- issued, log <- topic, memory <- fallback,
                acted <- handled

\* The graph with all its gates, failures and crashes is one verdict, one action on
\* an ALLOW in the trail and one report for a reader of the audit trail.
ImplementsGuardedExecution == Guard!GuardSpec

=============================================================================
