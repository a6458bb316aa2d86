--------------------------- MODULE AgentRunProofs ---------------------------
(* What AgentRun guarantees for every set of runners, identities and jobs. *)
EXTENDS AgentRun, LeastNumber, FiniteSetTheorems, TLAPS

USE DeploymentAssumption, RunnersAssumption

\* What _evaluate makes of an answer is an effect or one of two exceptions.
LEMMA VerdictType ==
  ASSUME NEW in, NEW answer \in PdpAnswers(in)
  PROVE  _evaluate(answer) \in {"ALLOW", "REQUIRE_APPROVAL", "DENY", "KeyError",
                                "ValidationError"}
BY DEF PdpAnswers, response, effects, PdpFailures, _evaluate

\* The PEP reads an ALLOW only where the policy's ALLOW rule fires.
LEMMA AllowVerdict ==
  ASSUME NEW in, NEW answer \in PdpAnswers(in), _evaluate(answer) = "ALLOW"
  PROVE  "ALLOW" \in effects(in)
BY DEF PdpAnswers, response, effects, PdpFailures, _evaluate

LEMMA IdleValues == NoJob \in Jobs /\ NoClaims \in Introspections
BY DEF NoJob, NoClaims

\* Leaving run() keeps the types of what it resets.
LEMMA LeaveType ==
  ASSUME TypeOK, NEW r \in Runners,
         NEW how \in {"raised", "completed", "blocked", "crashed"}, Leave(r, how)
  PROVE  /\ pc' \in [Runners -> {"idle"} \cup Nodes \cup PepSteps]
         /\ outcome' \in [Runners -> {"none", "raised", "completed", "blocked", "crashed"}]
         /\ job' \in [Runners -> Jobs]
         /\ claims' \in [Runners -> Introspections]
         /\ bucket' \in [Runners -> Minutes]
         /\ count' \in [Runners -> SUBSET Nat]
         /\ decision' \in [Runners -> {"none", "ALLOW"} \cup Refusals]
         /\ error' \in [Runners -> BOOLEAN]
BY IdleValues DEF TypeOK, Leave, Goto, Minutes

LEMMA PublishType ==
  ASSUME TypeOK, NEW r \in Runners,
         NEW d \in {"ALLOW"} \cup Refusals \cup Results, Publish(r, d)
  PROVE  /\ issued' \in [Runners -> Nat]
         /\ fallback' \in [Runners -> SUBSET Events]
         /\ topic' \subseteq Events
<1>1. NextEvent(r, d) \in Events
  BY DEF TypeOK, Events, NextEvent
<1>2. QED
  BY <1>1 DEF TypeOK, Publish

LEMMA RefuseType ==
  ASSUME TypeOK, NEW r \in Runners, NEW d \in Refusals, Refuse(r, d)
  PROVE  /\ pc' \in [Runners -> {"idle"} \cup Nodes \cup PepSteps]
         /\ decision' \in [Runners -> {"none", "ALLOW"} \cup Refusals]
         /\ error' \in [Runners -> BOOLEAN]
BY DEF TypeOK, Refuse, Goto, Nodes

-----------------------------------------------------------------------------

\* Every step of Next keeps the types.
LEMMA TypeStep == TypeOK /\ GatesPassed /\ [Next]_vars => TypeOK'
<1> SUFFICES ASSUME TypeOK, GatesPassed, [Next]_vars PROVE TypeOK'
  OBVIOUS
<1> USE DEF redis, audit, local, ghosts
<1>1. ASSUME NEW r \in Runners, NEW j \in Jobs, Start(r, j) PROVE TypeOK'
  BY <1>1 DEF TypeOK, Start, Goto, Nodes
<1>2. ASSUME NEW r \in Runners, FetchToken(r) PROVE TypeOK'
  BY <1>2 DEF TypeOK, FetchToken, Goto, Nodes
<1>3. ASSUME NEW r \in Runners, FetchTokenRaises(r) PROVE TypeOK'
  BY <1>3, LeaveType DEF TypeOK, FetchTokenRaises
<1>4. ASSUME NEW r \in Runners, PolicyCheck(r) PROVE TypeOK'
  <2>1. CASE Refuse(r, "DENY") \/ Refuse(r, "PolicyDenialError")
    BY <1>4, <2>1, RefuseType DEF TypeOK, PolicyCheck, Refusals
  <2>2. CASE Goto(r, "suspension") /\ UNCHANGED <<decision, error>>
    BY <1>4, <2>2 DEF TypeOK, PolicyCheck, Goto, PepSteps
  <2>3. QED
    BY <1>4, <2>1, <2>2 DEF PolicyCheck
<1>5. ASSUME NEW r \in Runners, CheckSuspension(r) PROVE TypeOK'
  <2>1. CASE Refuse(r, "PolicyDenialError") /\ UNCHANGED <<bucket, blocked>>
    BY <1>5, <2>1, RefuseType DEF TypeOK, CheckSuspension, Refusals
  <2>2. CASE Goto(r, "rate") /\ UNCHANGED <<decision, error>>
    <3>1. bucket' \in [Runners -> Minutes]
      BY <1>5 DEF TypeOK, CheckSuspension
    <3>2. blocked' \in [Runners -> BOOLEAN]
      BY <1>5 DEF TypeOK, CheckSuspension
    <3>3. QED
      BY <1>5, <2>2, <3>1, <3>2 DEF TypeOK, CheckSuspension, Goto, PepSteps
  <2>3. QED
    BY <1>5, <2>1, <2>2 DEF CheckSuspension
<1>6. ASSUME NEW r \in Runners, InjectRateLimitCount(r) PROVE TypeOK'
  <2>1. counter[IdOf[r]][bucket[r]] + 1 \in Nat
    BY DEF TypeOK
  <2> DEFINE n == counter[IdOf[r]][bucket[r]] + 1
             c == [counter EXCEPT ![IdOf[r]][bucket[r]] = n]
  <2>2. c \in [Agents -> [Minutes -> Nat]] /\ {n} \in SUBSET Nat
    <3> IdOf[r] \in Agents /\ bucket[r] \in Minutes
      BY DEF TypeOK
    <3>1. [counter[IdOf[r]] EXCEPT ![bucket[r]] = n] \in [Minutes -> Nat]
      BY <2>1 DEF TypeOK
    <3>2. c = [counter EXCEPT ![IdOf[r]] = [counter[IdOf[r]] EXCEPT ![bucket[r]] = n]]
      BY DEF TypeOK
    <3>3. QED
      BY <2>1, <3>1, <3>2 DEF TypeOK
  <2>3. counter' \in {counter, c} /\ count' \in {count, [count EXCEPT ![r] = {n}]}
    BY <1>6 DEF InjectRateLimitCount
  <2> HIDE DEF n, c
  <2>4. counter' \in [Agents -> [Minutes -> Nat]] /\ count' \in [Runners -> SUBSET Nat]
    BY <2>2, <2>3 DEF TypeOK
  <2>5. QED
    BY <1>6, <2>4 DEF TypeOK, InjectRateLimitCount, Goto, PepSteps
<1>7. ASSUME NEW r \in Runners, Evaluate(r) PROVE TypeOK'
  <2>1. PICK answer \in PdpAnswers(Request(r)) : Evaluate(r)!2!(answer)
    BY <1>7 DEF Evaluate
  <2>2. _evaluate(answer) \in {"ALLOW", "REQUIRE_APPROVAL", "DENY", "KeyError",
                               "ValidationError"}
    BY VerdictType
  <2>3. CASE _evaluate(answer) = "ALLOW"
    <3>1. /\ Goto(r, "cedar")
          /\ grants' = grants \cup
                 {[agent |-> IdOf[r], bucket |-> bucket[r], count |-> n,
                   runner |-> r, run |-> run[r]] : n \in count[r]}
          /\ UNCHANGED <<decision, error>>
      BY <2>1, <2>3
    <3>2. grants' \subseteq [agent : Agents, bucket : Minutes, count : Nat,
                             runner : Runners, run : Nat]
      BY <3>1 DEF TypeOK
    <3>3. QED
      BY <1>7, <3>1, <3>2 DEF TypeOK, Evaluate, Goto, PepSteps
  <2>4. CASE _evaluate(answer) = "REQUIRE_APPROVAL"
    <3>1. Goto(r, "queue_approval") /\ UNCHANGED <<decision, error, grants>>
      BY <2>1, <2>4
    <3>2. QED
      BY <1>7, <3>1 DEF TypeOK, Evaluate, Goto, PepSteps
  <2>5. CASE _evaluate(answer) \notin {"ALLOW", "REQUIRE_APPROVAL"}
    <3>1. Refuse(r, PolicyOutcome(_evaluate(answer))) /\ UNCHANGED grants
      BY <2>1, <2>5
    <3>2. PolicyOutcome(_evaluate(answer)) \in Refusals
      BY <2>2, <2>5 DEF PolicyOutcome, Refusals
    <3>3. QED
      BY <1>7, <3>1, <3>2, RefuseType DEF TypeOK, Evaluate
  <2>6. QED
    BY <2>3, <2>4, <2>5
<1>8. ASSUME NEW r \in Runners, EvaluateCedar(r) PROVE TypeOK'
  <2>1. CASE Refuse(r, "PolicyDenialError")
    BY <1>8, <2>1, RefuseType DEF TypeOK, EvaluateCedar, Refusals
  <2>2. CASE /\ decision' = [decision EXCEPT ![r] = "ALLOW"]
             /\ Goto(r, "audit_decision")
             /\ UNCHANGED error
    BY <1>8, <2>2 DEF TypeOK, EvaluateCedar, Goto, Nodes
  <2>3. QED
    BY <1>8, <2>1, <2>2 DEF EvaluateCedar
<1>9. ASSUME NEW r \in Runners, QueueApproval(r) PROVE TypeOK'
  BY <1>9, RefuseType DEF TypeOK, QueueApproval, Refusals
<1>10. ASSUME NEW r \in Runners, AuditDecision(r) PROVE TypeOK'
  <2> decision[r] \in {"ALLOW"} \cup Refusals
    BY <1>10 DEF TypeOK, GatesPassed, GatesOf, AuditDecision, PepSteps
  <2>1. /\ issued' \in [Runners -> Nat]
        /\ fallback' \in [Runners -> SUBSET Events]
        /\ topic' \subseteq Events
    BY <1>10, PublishType DEF AuditDecision
  <2>2. QED
    BY <1>10, <2>1 DEF TypeOK, AuditDecision, _route_after_policy, Goto, Nodes
<1>11. ASSUME NEW r \in Runners, ExecuteTool(r) PROVE TypeOK'
  BY <1>11 DEF TypeOK, ExecuteTool, Goto, Nodes
<1>12. ASSUME NEW r \in Runners, AuditResult(r) PROVE TypeOK'
  <2>1. /\ issued' \in [Runners -> Nat]
        /\ fallback' \in [Runners -> SUBSET Events]
        /\ topic' \subseteq Events
    BY <1>12, PublishType DEF AuditResult, Results
  <2>2. QED
    BY <1>12, <2>1, LeaveType DEF TypeOK, AuditResult
<1>13. ASSUME NEW r \in Runners, ErrorHandler(r) \/ Crash(r) \/ LateAppend(r) PROVE TypeOK'
  <2>1. CASE ErrorHandler(r)
    BY <2>1, LeaveType DEF TypeOK, ErrorHandler
  <2>2. CASE Crash(r)
    BY <2>2, LeaveType DEF TypeOK, Crash
  <2>3. CASE LateAppend(r)
    BY <2>3 DEF TypeOK, LateAppend
  <2>4. QED
    BY <1>13, <2>1, <2>2, <2>3
<1>14. ASSUME NEW a \in Agents, Suspend(a) \/ Unsuspend(a) PROVE TypeOK'
  BY <1>14 DEF TypeOK, Suspend, Unsuspend
<1>15. CASE Tick
  <2>1. minute' \in Minutes
    BY <1>15 DEF TypeOK, Tick, Minutes
  <2>2. counter' \in [Agents -> [Minutes -> Nat]]
    BY <1>15 DEF TypeOK, Tick
  <2>3. QED
    BY <1>15, <2>1, <2>2 DEF TypeOK, Tick
<1>16. CASE UNCHANGED vars
  BY <1>16 DEF TypeOK, vars
<1>17. QED
  BY <1>1, <1>2, <1>3, <1>4, <1>5, <1>6, <1>7, <1>8, <1>9, <1>10, <1>11, <1>12,
     <1>13, <1>14, <1>15, <1>16 DEF Next, RunnerStep, TimedStep

-----------------------------------------------------------------------------

\* A tool key names one catalog entry, so the action of an available tool is
\* an action of an available entry.
LEMMA CatalogKeys ==
  ASSUME NEW t \in TOOL_CATALOG, NEW u \in TOOL_CATALOG, t[1] = u[1]
  PROVE  t = u
BY DEF TOOL_CATALOG

LEMMA AvailableAction ==
  ASSUME NEW r \in Runners, tool_available(r)
  PROVE  \E t \in available_tools(IdOf[r]) : t[2] = Request(r).action
<1>1. PICK t \in available_tools(IdOf[r]) : t[1] = job[r].tool
  BY DEF tool_available
<1>2. t \in TOOL_CATALOG
  BY DEF available_tools
<1>3. ActionOf(job[r].tool) = t[2]
  BY <1>1, <1>2, CatalogKeys DEF ActionOf
<1>4. QED
  BY <1>1, <1>3 DEF Request

\* A step that leaves the state of run r alone leaves its gates alone.
LEMMA SameGates ==
  ASSUME NEW r \in Runners, GatesOf(r),
         pc'[r] = pc[r], decision'[r] = decision[r], job'[r] = job[r],
         claims'[r] = claims[r], count'[r] = count[r]
  PROVE  GatesOf(r)'
<1>1. Request(r)' = Request(r)
  BY DEF Request
<1>2. QED
  BY <1>1 DEF GatesOf, tool_available, Mediated

\* A step of runner q.
StepOf(q) == RunnerStep(q) \/ Crash(q) \/ \E j \in Jobs : Start(q, j)

\* Runners share nothing but Redis and the audit bus.
LEMMA OthersUntouched ==
  ASSUME TypeOK, NEW q \in Runners, StepOf(q), NEW r \in Runners, r # q
  PROVE  /\ pc'[r] = pc[r] /\ run'[r] = run[r] /\ decision'[r] = decision[r]
         /\ job'[r] = job[r] /\ claims'[r] = claims[r] /\ count'[r] = count[r]
         /\ blocked'[r] = blocked[r] /\ bucket'[r] = bucket[r] /\ outcome'[r] = outcome[r]
<1> USE DEF redis, audit, local, ghosts, Goto, Refuse, Leave, TypeOK
<1>1. CASE FetchToken(q)
  BY <1>1 DEF FetchToken
<1>2. CASE FetchTokenRaises(q)
  BY <1>2 DEF FetchTokenRaises
<1>3. CASE PolicyCheck(q)
  BY <1>3 DEF PolicyCheck
<1>4. CASE CheckSuspension(q)
  BY <1>4 DEF CheckSuspension
<1>5. CASE InjectRateLimitCount(q)
  BY <1>5 DEF InjectRateLimitCount
<1>6. CASE Evaluate(q)
  BY <1>6 DEF Evaluate
<1>7. CASE EvaluateCedar(q)
  BY <1>7 DEF EvaluateCedar
<1>8. CASE QueueApproval(q)
  BY <1>8 DEF QueueApproval
<1>9. CASE AuditDecision(q)
  BY <1>9 DEF AuditDecision
<1>10. CASE ExecuteTool(q)
  BY <1>10 DEF ExecuteTool
<1>11. CASE AuditResult(q)
  BY <1>11 DEF AuditResult
<1>12. CASE ErrorHandler(q) \/ Crash(q)
  BY <1>12 DEF ErrorHandler, Crash
<1>13. ASSUME NEW j \in Jobs, Start(q, j)
       PROVE  /\ pc'[r] = pc[r] /\ run'[r] = run[r] /\ decision'[r] = decision[r]
              /\ job'[r] = job[r] /\ claims'[r] = claims[r] /\ count'[r] = count[r]
              /\ blocked'[r] = blocked[r] /\ bucket'[r] = bucket[r] /\ outcome'[r] = outcome[r]
  BY <1>13 DEF Start
<1>14. QED
  BY <1>1, <1>2, <1>3, <1>4, <1>5, <1>6, <1>7, <1>8, <1>9, <1>10, <1>11, <1>12,
     <1>13 DEF StepOf, RunnerStep, TimedStep

\* What each step of a run establishes about the gates it has passed.
LEMMA GatesStep == TypeOK /\ GatesPassed /\ [Next]_vars => GatesPassed'
<1> SUFFICES ASSUME TypeOK, GatesPassed, [Next]_vars, NEW r \in Runners
             PROVE  GatesOf(r)'
  BY DEF GatesPassed
<1> USE DEF redis, audit, local, ghosts
<1>a. GatesOf(r)
  BY DEF GatesPassed
<1>b. ASSUME Refuse(r, "DENY") \/ \E d \in Refusals : Refuse(r, d) PROVE GatesOf(r)'
  BY <1>b DEF Refuse, Goto, GatesOf, TypeOK, Refusals, PepSteps
<1>c. ASSUME NEW how, Leave(r, how) PROVE GatesOf(r)'
  BY <1>c DEF Leave, Goto, GatesOf, TypeOK, PepSteps
<1>1. ASSUME NEW q \in Runners, StepOf(q), r # q PROVE GatesOf(r)'
  BY <1>1, <1>a, OthersUntouched, SameGates
<1>2. ASSUME NEW j \in Jobs, Start(r, j) PROVE GatesOf(r)'
  BY <1>2, <1>a DEF Start, Goto, GatesOf, TypeOK, PepSteps
<1>3. CASE FetchToken(r)
  BY <1>3, <1>a DEF FetchToken, Goto, GatesOf, TypeOK, PepSteps
<1>4. CASE FetchTokenRaises(r) \/ AuditResult(r) \/ ErrorHandler(r) \/ Crash(r)
  BY <1>4, <1>c DEF FetchTokenRaises, AuditResult, ErrorHandler, Crash
<1>5. CASE PolicyCheck(r)
  <2>1. CASE Goto(r, "suspension") /\ tool_available(r) /\ ip_bound(claims[r], SourceIp[r])
             /\ UNCHANGED <<decision, error>>
    BY <1>5, <1>a, <2>1 DEF PolicyCheck, Goto, GatesOf, TypeOK, PepSteps, tool_available
  <2>2. QED
    BY <1>5, <1>b, <2>1 DEF PolicyCheck, Refusals
<1>6. CASE CheckSuspension(r)
  <2>1. CASE Goto(r, "rate") /\ UNCHANGED <<decision, error>>
    BY <1>6, <1>a, <2>1 DEF CheckSuspension, Goto, GatesOf, TypeOK, PepSteps, tool_available
  <2>2. QED
    BY <1>6, <1>b, <2>1 DEF CheckSuspension, Refusals
<1>7. CASE InjectRateLimitCount(r)
  BY <1>7, <1>a DEF InjectRateLimitCount, Goto, GatesOf, TypeOK, PepSteps, tool_available
<1>8. CASE Evaluate(r)
  <2>1. PICK answer \in PdpAnswers(Request(r)) : Evaluate(r)!2!(answer)
    BY <1>8 DEF Evaluate
  <2>2. Request(r)' = Request(r)
    BY <1>8 DEF Evaluate, Request
  <2>3. CASE _evaluate(answer) = "ALLOW"
    <3>1. Goto(r, "cedar") /\ UNCHANGED <<decision, error>>
      BY <2>1, <2>3
    <3>2. "ALLOW" \in effects(Request(r))
      BY <2>3, AllowVerdict
    <3>3. QED
      BY <1>8, <1>a, <2>2, <3>1, <3>2
         DEF Evaluate, Goto, GatesOf, TypeOK, PepSteps, tool_available
  <2>4. CASE _evaluate(answer) = "REQUIRE_APPROVAL"
    <3>1. Goto(r, "queue_approval") /\ UNCHANGED <<decision, error>>
      BY <2>1, <2>4
    <3>2. QED
      BY <1>8, <1>a, <3>1 DEF Evaluate, Goto, GatesOf, TypeOK, PepSteps, tool_available
  <2>5. CASE _evaluate(answer) \notin {"ALLOW", "REQUIRE_APPROVAL"}
    <3>1. PolicyOutcome(_evaluate(answer)) \in Refusals
      BY <2>5, VerdictType DEF PolicyOutcome, Refusals
    <3>2. QED
      BY <1>b, <2>1, <2>5, <3>1
  <2>6. QED
    BY <2>3, <2>4, <2>5
<1>9. CASE EvaluateCedar(r)
  <2>1. CASE /\ TRUE \in _evaluate_cedar(Request(r), CedarPolicies)
             /\ decision' = [decision EXCEPT ![r] = "ALLOW"]
             /\ Goto(r, "audit_decision")
    <3>1. Request(r)' = Request(r) /\ Request(r).agent_id = IdOf[r]
          /\ Request(r).claims = claims[r]
      BY <1>9 DEF EvaluateCedar, Request
    <3>2. Mediated(r, Request(r))
      BY <1>9, <1>a, <2>1, <3>1, AvailableAction DEF EvaluateCedar, GatesOf, Mediated, PepSteps
    <3>3. Mediated(r, Request(r))'
      BY <3>1, <3>2 DEF Mediated
    <3>4. QED
      BY <2>1, <3>3 DEF Goto, GatesOf, TypeOK, PepSteps
  <2>2. QED
    BY <1>9, <1>b, <2>1 DEF EvaluateCedar, Refusals
<1>10. CASE QueueApproval(r)
  BY <1>10, <1>b DEF QueueApproval, Refusals
<1>11. CASE AuditDecision(r)
  <2>1. Request(r)' = Request(r)
    BY <1>11 DEF AuditDecision, Request
  <2>2. QED
    BY <1>11, <1>a, <2>1
       DEF AuditDecision, _route_after_policy, Goto, GatesOf, TypeOK, PepSteps, Mediated
<1>12. CASE ExecuteTool(r)
  <2>1. Request(r)' = Request(r)
    BY <1>12 DEF ExecuteTool, Request
  <2>2. QED
    BY <1>12, <1>a, <2>1 DEF ExecuteTool, Goto, GatesOf, TypeOK, PepSteps, Mediated
<1>13. ASSUME NEW a \in Agents, Suspend(a) \/ Unsuspend(a) PROVE GatesOf(r)'
  BY <1>13, <1>a, SameGates DEF Suspend, Unsuspend
<1>14. CASE Tick \/ (\E q \in Runners : LateAppend(q)) \/ UNCHANGED vars
  BY <1>14, <1>a, SameGates DEF Tick, LateAppend, vars
<1>15. ASSUME NEW q \in Runners, StepOf(q) PROVE GatesOf(r)'
  BY <1>1, <1>2, <1>3, <1>4, <1>5, <1>6, <1>7, <1>8, <1>9, <1>10, <1>11, <1>12,
     <1>15 DEF StepOf, RunnerStep, TimedStep
<1>16. QED
  BY <1>13, <1>14, <1>15 DEF Next, StepOf

-----------------------------------------------------------------------------

\* ExecuteTool is the one step that adds to executed.
LEMMA ExecutedBy ==
  ASSUME [Next]_vars
  PROVE  \/ UNCHANGED executed
         \/ \E r \in Runners :
              /\ ExecuteTool(r)
              /\ executed' = executed \cup
                   {[runner |-> r, run |-> run[r], request |-> Request(r)]}
<1> USE DEF redis, audit, local, ghosts
<1>1. ASSUME NEW r \in Runners, RunnerStep(r), ~ExecuteTool(r) PROVE UNCHANGED executed
  BY <1>1 DEF RunnerStep, TimedStep, FetchToken, FetchTokenRaises, PolicyCheck, CheckSuspension,
     InjectRateLimitCount, Evaluate, EvaluateCedar, QueueApproval, AuditDecision,
     AuditResult, ErrorHandler
<1>2. ASSUME NEW r \in Runners, ExecuteTool(r), ~UNCHANGED executed
      PROVE  executed' = executed \cup
               {[runner |-> r, run |-> run[r], request |-> Request(r)]}
  BY <1>2 DEF ExecuteTool
<1>3. ASSUME NEW r \in Runners, Crash(r) \/ \E j \in Jobs : Start(r, j)
      PROVE  UNCHANGED executed
  BY <1>3 DEF Crash, Start
<1>4. ASSUME NEW a \in Agents, Suspend(a) \/ Unsuspend(a) PROVE UNCHANGED executed
  BY <1>4 DEF Suspend, Unsuspend
<1>5. CASE Tick \/ (\E q \in Runners : LateAppend(q)) \/ UNCHANGED vars
  BY <1>5 DEF Tick, LateAppend, vars
<1>6. QED
  BY <1>1, <1>2, <1>3, <1>4, <1>5 DEF Next

\* A handler is called from a mediated state, and past calls stay mediated.
LEMMA MediationStep == IInv /\ [Next]_vars => CompleteMediation'
<1> SUFFICES ASSUME IInv, [Next]_vars, NEW x \in executed'
             PROVE  Mediated(x.runner, x.request)
  BY DEF CompleteMediation, Mediated
<1>1. CASE x \in executed
  BY <1>1 DEF IInv, CompleteMediation
<1>2. CASE x \notin executed
  <2>1. PICK r \in Runners :
          /\ ExecuteTool(r)
          /\ x = [runner |-> r, run |-> run[r], request |-> Request(r)]
    BY <1>2, ExecutedBy
  <2>2. Mediated(r, Request(r))
    BY <2>1 DEF IInv, GatesPassed, GatesOf, TrailKept, ExecuteTool
  <2>3. QED
    BY <2>1, <2>2
<1>3. QED
  BY <1>1, <1>2

\* The trail changes when a run issues its decision or its result, when a
\* process dies and when Kafka appends late.
LEMMA TrailBy ==
  ASSUME [Next]_vars
  PROVE  \/ UNCHANGED <<topic, fallback>>
         \/ \E r \in Runners : AuditDecision(r) /\ Publish(r, decision[r])
         \/ \E r \in Runners : AuditResult(r) /\ \E d \in Results : Publish(r, d)
         \/ \E r \in Runners : Crash(r) \/ LateAppend(r)
<1> USE DEF redis, audit, local, ghosts
<1>1. ASSUME NEW r \in Runners, RunnerStep(r), ~AuditDecision(r), ~AuditResult(r)
      PROVE  UNCHANGED <<topic, fallback>>
  BY <1>1 DEF RunnerStep, TimedStep, FetchToken, FetchTokenRaises, PolicyCheck,
     CheckSuspension, InjectRateLimitCount, Evaluate, EvaluateCedar, QueueApproval,
     ExecuteTool, ErrorHandler
<1>2. ASSUME NEW r \in Runners, AuditDecision(r) PROVE Publish(r, decision[r])
  BY <1>2 DEF AuditDecision
<1>3. ASSUME NEW r \in Runners, AuditResult(r) PROVE \E d \in Results : Publish(r, d)
  BY <1>3 DEF AuditResult, Results
<1>4. ASSUME NEW r \in Runners, NEW j \in Jobs, Start(r, j)
      PROVE  UNCHANGED <<topic, fallback>>
  BY <1>4 DEF Start
<1>5. ASSUME NEW a \in Agents, Suspend(a) \/ Unsuspend(a)
      PROVE  UNCHANGED <<topic, fallback>>
  BY <1>5 DEF Suspend, Unsuspend
<1>6. CASE Tick \/ UNCHANGED vars
  BY <1>6 DEF Tick, vars
<1>7. QED
  BY <1>1, <1>2, <1>3, <1>4, <1>5, <1>6 DEF Next

\* An event issued by r joins the trail of its run.
LEMMA EventsGrow ==
  ASSUME TypeOK, NEW r \in Runners, NEW d, Publish(r, d), run'[r] = run[r]
  PROVE  EventsOf(r, run[r])' = EventsOf(r, run[r]) \cup {NextEvent(r, d)}
<1>1. topic' \cup fallback'[r] = topic \cup fallback[r] \cup {NextEvent(r, d)}
  BY DEF TypeOK, Publish
<1>2. NextEvent(r, d).runner = r /\ NextEvent(r, d).run = run[r]
  BY DEF NextEvent
<1>3. QED
  BY <1>1, <1>2 DEF EventsOf

\* What other runners issue, a death of theirs and a late append leave it alone.
LEMMA EventsKept ==
  ASSUME TypeOK, TrailKept, [Next]_vars, NEW r \in Runners, run'[r] = run[r],
         ~AuditDecision(r), ~AuditResult(r), ~Crash(r)
  PROVE  EventsOf(r, run[r])' = EventsOf(r, run[r])
<1>1. ASSUME NEW q \in Runners, q # r, NEW d, Publish(q, d)
      PROVE  EventsOf(r, run[r])' = EventsOf(r, run[r])
  <2>1. fallback'[r] = fallback[r] /\ topic' \in {topic, topic \cup {NextEvent(q, d)}}
    BY <1>1 DEF TypeOK, Publish
  <2>2. NextEvent(q, d).runner # r
    BY <1>1 DEF NextEvent
  <2>3. QED
    BY <2>1, <2>2 DEF EventsOf
<1>2. ASSUME NEW q \in Runners, q # r, Crash(q)
      PROVE  EventsOf(r, run[r])' = EventsOf(r, run[r])
  <2>1. fallback'[r] = fallback[r] /\ topic' = topic
    BY <1>2 DEF TypeOK, Crash
  <2>2. QED
    BY <2>1 DEF EventsOf
<1>3. ASSUME NEW q \in Runners, LateAppend(q)
      PROVE  EventsOf(r, run[r])' = EventsOf(r, run[r])
  <2>1. PICK e \in fallback[q] : topic' = topic \cup {e}
    BY <1>3 DEF LateAppend
  <2>2. fallback' = fallback /\ e.runner = q
    BY <1>3, <2>1 DEF LateAppend, TrailKept
  <2>3. QED
    BY <2>1, <2>2 DEF EventsOf
<1>4. CASE UNCHANGED <<topic, fallback>>
  BY <1>4 DEF EventsOf
<1>5. QED
  BY <1>1, <1>2, <1>3, <1>4, TrailBy

\* A run at its tool, or past it, has its ALLOW in the trail.
LEMMA AtToolStep ==
  ASSUME IInv, [Next]_vars, NEW r \in Runners,
         pc'[r] \in {"execute_tool", "audit_result"}
  PROVE  decision'[r] = "ALLOW" /\ Allowed(r, run[r])'
<1> USE DEF redis, audit, local, ghosts
<1>a. TypeOK /\ TrailKept
  BY DEF IInv
<1>1. ASSUME run'[r] = run[r], decision'[r] = decision[r],
             pc[r] \in {"execute_tool", "audit_result"}
      PROVE  decision'[r] = "ALLOW" /\ Allowed(r, run[r])'
  <2>1. ~AuditDecision(r) /\ ~AuditResult(r) /\ ~Crash(r)
    BY <1>a, <1>1 DEF AuditDecision, AuditResult, Crash, Leave, Goto, TypeOK
  <2>2. EventsOf(r, run[r])' = EventsOf(r, run[r])
    BY <1>a, <1>1, <2>1, EventsKept
  <2>3. decision[r] = "ALLOW" /\ Allowed(r, run[r])
    BY <1>a, <1>1 DEF TrailKept
  <2>4. QED
    BY <1>1, <2>2, <2>3 DEF Allowed
<1>2. CASE AuditDecision(r)
  <2>1. /\ Publish(r, decision[r]) /\ run'[r] = run[r] /\ decision'[r] = decision[r]
        /\ decision[r] = "ALLOW"
    BY <1>2, <1>a DEF TypeOK, AuditDecision, _route_after_policy, Goto
  <2>2. EventsOf(r, run[r])' = EventsOf(r, run[r]) \cup {NextEvent(r, decision[r])}
    BY <1>a, <2>1, EventsGrow
  <2>3. NextEvent(r, decision[r]).decision = "ALLOW"
    BY <2>1 DEF NextEvent
  <2>4. QED
    BY <2>1, <2>2, <2>3 DEF Allowed
<1>3. CASE ExecuteTool(r)
  BY <1>1, <1>3 DEF ExecuteTool
<1>4. ASSUME StepOf(r), ~AuditDecision(r), ~ExecuteTool(r) PROVE FALSE
  BY <1>4 DEF IInv, TypeOK, StepOf, RunnerStep, TimedStep, FetchToken, FetchTokenRaises,
     PolicyCheck, CheckSuspension, InjectRateLimitCount, Evaluate, EvaluateCedar,
     QueueApproval, AuditResult, ErrorHandler, Crash, Start, Leave, Refuse, Goto
<1>5. ASSUME pc'[r] = pc[r], run'[r] = run[r], decision'[r] = decision[r]
      PROVE  decision'[r] = "ALLOW" /\ Allowed(r, run[r])'
  BY <1>1, <1>5
<1>6. ASSUME NEW q \in Runners, StepOf(q), q # r
      PROVE  decision'[r] = "ALLOW" /\ Allowed(r, run[r])'
  BY <1>a, <1>5, <1>6, OthersUntouched
<1>7. ASSUME NEW a \in Agents, Suspend(a) \/ Unsuspend(a)
      PROVE  decision'[r] = "ALLOW" /\ Allowed(r, run[r])'
  BY <1>5, <1>7 DEF Suspend, Unsuspend
<1>8. CASE Tick \/ (\E q \in Runners : LateAppend(q)) \/ UNCHANGED vars
  BY <1>5, <1>8 DEF Tick, LateAppend, vars
<1>9. QED
  BY <1>2, <1>3, <1>4, <1>6, <1>7, <1>8 DEF Next, StepOf

-----------------------------------------------------------------------------

\* A call of run() never goes back to an earlier number.
LEMMA RunGrows ==
  ASSUME TypeOK, [Next]_vars, NEW r \in Runners
  PROVE  run'[r] \in Nat /\ run[r] <= run'[r]
<1> USE DEF redis, audit, local, ghosts
<1>1. ASSUME NEW q \in Runners, RunnerStep(q) \/ Crash(q) PROVE UNCHANGED run
  BY <1>1 DEF RunnerStep, TimedStep, FetchToken, FetchTokenRaises, PolicyCheck, CheckSuspension,
     InjectRateLimitCount, Evaluate, EvaluateCedar, QueueApproval, AuditDecision,
     ExecuteTool, AuditResult, ErrorHandler, Crash
<1>2. ASSUME NEW q \in Runners, NEW j \in Jobs, Start(q, j)
      PROVE  run'[r] \in Nat /\ run[r] <= run'[r]
  BY <1>2 DEF Start, TypeOK
<1>3. ASSUME NEW a \in Agents, Suspend(a) \/ Unsuspend(a) PROVE UNCHANGED run
  BY <1>3 DEF Suspend, Unsuspend
<1>4. CASE Tick \/ (\E q \in Runners : LateAppend(q)) \/ UNCHANGED vars
  BY <1>4 DEF Tick, LateAppend, vars, TypeOK
<1>5. QED
  BY <1>1, <1>2, <1>3, <1>4 DEF Next, TypeOK

\* An event of the trail was there before, or is the next one of its runner.
LEMMA EventsBy ==
  ASSUME TypeOK, [Next]_vars, NEW r \in Runners, NEW e \in topic' \cup fallback'[r]
  PROVE  \/ e \in topic \cup fallback[r]
         \/ \E q \in Runners : e \in fallback[q]
         \/ \E q \in Runners : e.runner = q /\ e.run = run[q]
<1>1. ASSUME NEW q \in Runners, NEW d, Publish(q, d)
      PROVE  e \in topic \cup fallback[r] \/ (e.runner = q /\ e.run = run[q])
  <2>1. topic' \cup fallback'[r] \subseteq topic \cup fallback[r] \cup {NextEvent(q, d)}
    BY <1>1 DEF TypeOK, Publish
  <2>2. NextEvent(q, d).runner = q /\ NextEvent(q, d).run = run[q]
    BY DEF NextEvent
  <2>3. QED
    BY <2>1, <2>2
<1>2. ASSUME NEW q \in Runners, Crash(q)
      PROVE  e \in topic \cup fallback[r]
  BY <1>2 DEF TypeOK, Crash
<1>3. ASSUME NEW q \in Runners, LateAppend(q)
      PROVE  e \in topic \cup fallback[r] \/ e \in fallback[q]
  BY <1>3 DEF LateAppend
<1>4. QED
  BY <1>1, <1>2, <1>3, TrailBy

LEMMA FutureStep ==
  ASSUME IInv, [Next]_vars, NEW r \in Runners, NEW e \in topic' \cup fallback'[r]
  PROVE  e.run <= run'[e.runner]
<1>a. TypeOK /\ TrailKept
  BY DEF IInv
<1>1. ASSUME NEW q \in Runners, e \in topic \cup fallback[q] PROVE e.run <= run'[e.runner]
  <2>1. e.run \in Nat /\ e.runner \in Runners
    BY <1>a, <1>1 DEF TypeOK, Events
  <2>2. e.run <= run[e.runner]
    BY <1>a, <1>1 DEF TrailKept
  <2>3. /\ run[e.runner] \in Nat /\ run'[e.runner] \in Nat
        /\ run[e.runner] <= run'[e.runner]
    BY <1>a, <2>1, RunGrows DEF TypeOK
  <2>4. QED
    BY <2>1, <2>2, <2>3
<1>2. ASSUME NEW q \in Runners, e.runner = q, e.run = run[q] PROVE e.run <= run'[e.runner]
  BY <1>a, <1>2, RunGrows
<1>3. QED
  BY <1>a, <1>1, <1>2, EventsBy

\* A producer's memory holds its own events, and only after a failure of Kafka.
LEMMA MemoryStep ==
  ASSUME IInv, [Next]_vars, NEW r \in Runners, NEW e \in fallback'[r]
  PROVE  e.runner = r /\ KafkaMayFail
<1>a. TypeOK /\ TrailKept
  BY DEF IInv
<1>1. ASSUME e \in fallback[r] PROVE e.runner = r /\ KafkaMayFail
  BY <1>a, <1>1 DEF TrailKept
<1>2. ASSUME NEW q \in Runners, NEW d, Publish(q, d) PROVE e.runner = r /\ KafkaMayFail
  <2>1. CASE e \in fallback[r]
    BY <1>1, <2>1
  <2>2. CASE e \notin fallback[r]
    <3>1. KafkaMayFail /\ q = r /\ e = NextEvent(r, d)
      BY <1>a, <1>2, <2>2 DEF TypeOK, Publish
    <3>2. QED
      BY <3>1 DEF NextEvent
  <2>3. QED
    BY <2>1, <2>2
<1>3. ASSUME NEW q \in Runners, Crash(q) \/ LateAppend(q) PROVE e \in fallback[r]
  BY <1>a, <1>3 DEF TypeOK, Crash, LateAppend
<1>4. QED
  BY <1>1, <1>2, <1>3, TrailBy

LEMMA TrailStep == IInv /\ [Next]_vars => TrailKept'
BY AtToolStep, FutureStep, MemoryStep DEF TrailKept

\* A run past its tool can only end.
LEMMA PastToolStep ==
  ASSUME TypeOK, [Next]_vars, NEW r \in Runners, run'[r] = run[r],
         pc[r] \in {"audit_result", "idle"}
  PROVE  pc'[r] \in {"audit_result", "idle"}
<1> USE DEF redis, audit, local, ghosts
<1>1. ASSUME NEW j \in Jobs, Start(r, j) PROVE FALSE
  BY <1>1 DEF Start, TypeOK
<1>2. ASSUME RunnerStep(r) \/ Crash(r) PROVE pc'[r] \in {"audit_result", "idle"}
  BY <1>2 DEF TypeOK, RunnerStep, TimedStep, FetchToken, FetchTokenRaises, PolicyCheck,
     CheckSuspension, InjectRateLimitCount, Evaluate, EvaluateCedar, QueueApproval,
     AuditDecision, ExecuteTool, AuditResult, ErrorHandler, Crash, Leave, Goto
<1>3. ASSUME NEW q \in Runners, StepOf(q), q # r PROVE pc'[r] = pc[r]
  BY <1>3, OthersUntouched
<1>4. ASSUME NEW a \in Agents, Suspend(a) \/ Unsuspend(a) PROVE pc'[r] = pc[r]
  BY <1>4 DEF Suspend, Unsuspend
<1>5. CASE Tick \/ (\E q \in Runners : LateAppend(q)) \/ UNCHANGED vars
  BY <1>5 DEF Tick, LateAppend, vars
<1>6. QED
  BY <1>1, <1>2, <1>3, <1>4, <1>5 DEF Next, StepOf

LEMMA HistoryStep ==
  ASSUME IInv, [Next]_vars, NEW x \in executed'
  PROVE  /\ x.runner \in Runners /\ x.run \in Nat /\ x.run <= run'[x.runner]
         /\ x.run = run'[x.runner] => pc'[x.runner] \in {"audit_result", "idle"}
<1>a. TypeOK
  BY DEF IInv
<1>1. CASE x \in executed
  <2>1. /\ x.runner \in Runners /\ x.run \in Nat /\ x.run <= run[x.runner]
        /\ x.run = run[x.runner] => pc[x.runner] \in {"audit_result", "idle"}
    BY <1>1 DEF IInv, SuspensionKept
  <2>2. /\ run[x.runner] \in Nat /\ run'[x.runner] \in Nat
        /\ run[x.runner] <= run'[x.runner]
    BY <1>a, <2>1, RunGrows DEF TypeOK
  <2>3. ASSUME x.run = run'[x.runner] PROVE pc'[x.runner] \in {"audit_result", "idle"}
    <3>1. /\ run'[x.runner] = run[x.runner]
          /\ pc[x.runner] \in {"audit_result", "idle"}
      BY <2>1, <2>2, <2>3
    <3>2. QED
      BY <1>a, <2>1, <3>1, PastToolStep
  <2>4. QED
    BY <2>1, <2>2, <2>3
<1>2. CASE x \notin executed
  <2>1. PICK r \in Runners :
          /\ ExecuteTool(r)
          /\ x = [runner |-> r, run |-> run[r], request |-> Request(r)]
    BY <1>2, ExecutedBy
  <2>2. pc'[r] = "audit_result" /\ run[r] \in Nat /\ run[r] <= run'[r]
    BY <1>a, <2>1, RunGrows DEF ExecuteTool, Goto, TypeOK
  <2>3. x.runner = r /\ x.run = run[r]
    BY <2>1
  <2>4. QED
    BY <2>2, <2>3
<1>3. QED
  BY <1>1, <1>2

\* What holds of a blocked run.
BlockedOf(r) ==
  /\ IdOf[r] \in suspended
  /\ pc[r] \notin {"rate", "evaluate", "cedar", "queue_approval"}
  /\ decision[r] # "ALLOW"
  /\ \A x \in executed : x.runner = r => x.run # run[r]

LEMMA BlockedStep ==
  ASSUME IInv, [Next]_vars, NEW r \in Runners, blocked'[r]
  PROVE  BlockedOf(r)'
<1> USE DEF redis, audit, local, ghosts
<1>1. ASSUME NEW j \in Jobs, Start(r, j) PROVE BlockedOf(r)'
  <2>1. /\ pc'[r] = "fetch_token" /\ run'[r] = run[r] + 1
        /\ IdOf[r] \in suspended /\ UNCHANGED <<suspended, executed, decision>>
    BY <1>1 DEF IInv, TypeOK, Start, Goto
  <2>2. decision[r] = "none"
    BY <1>1 DEF IInv, GatesPassed, GatesOf, Start
  <2>3. \A x \in executed : x.runner = r => x.run # run[r] + 1
    BY DEF IInv, TypeOK, SuspensionKept
  <2>4. QED
    BY <2>1, <2>2, <2>3 DEF BlockedOf
<1>2. ASSUME RunnerStep(r) \/ Crash(r) PROVE BlockedOf(r)'
  <2>1. blocked[r]
    <3>1. CASE CheckSuspension(r)
      BY <3>1 DEF IInv, TypeOK, CheckSuspension
    <3>2. CASE ~CheckSuspension(r)
      BY <1>2, <3>2 DEF RunnerStep, TimedStep, FetchToken, FetchTokenRaises, PolicyCheck,
         InjectRateLimitCount, Evaluate, EvaluateCedar, QueueApproval, AuditDecision,
         ExecuteTool, AuditResult, ErrorHandler, Crash
    <3>3. QED
      BY <3>1, <3>2
  <2>2. BlockedOf(r)
    BY <2>1 DEF IInv, SuspensionKept, BlockedOf
  <2>3. ~InjectRateLimitCount(r) /\ ~Evaluate(r) /\ ~EvaluateCedar(r) /\ ~QueueApproval(r)
    BY <2>2 DEF BlockedOf, InjectRateLimitCount, Evaluate, EvaluateCedar, QueueApproval
  <2>4. ~ExecuteTool(r) /\ ~AuditResult(r)
    BY <2>2 DEF BlockedOf, ExecuteTool, AuditResult, IInv, TrailKept
  <2>5. CASE CheckSuspension(r)
    <3>1. Refuse(r, "PolicyDenialError")
      BY <2>2, <2>5 DEF CheckSuspension, BlockedOf, IInv, TypeOK
    <3>2. QED
      BY <2>2, <2>5, <3>1 DEF CheckSuspension, Refuse, Goto, BlockedOf, IInv, TypeOK
  <2>6. CASE FetchToken(r) \/ FetchTokenRaises(r) \/ ErrorHandler(r) \/ Crash(r)
    BY <2>2, <2>6 DEF FetchToken, FetchTokenRaises, ErrorHandler, Crash, Leave, Goto,
       BlockedOf, IInv, TypeOK
  <2>7. CASE PolicyCheck(r)
    BY <2>2, <2>7 DEF PolicyCheck, Refuse, Goto, BlockedOf, IInv, TypeOK
  <2>8. CASE AuditDecision(r)
    BY <2>2, <2>8 DEF AuditDecision, _route_after_policy, Goto, BlockedOf, IInv, TypeOK
  <2>9. QED
    BY <1>2, <2>3, <2>4, <2>5, <2>6, <2>7, <2>8 DEF RunnerStep, TimedStep
<1>3. ASSUME NEW q \in Runners, StepOf(q), q # r PROVE BlockedOf(r)'
  <2>1. /\ pc'[r] = pc[r] /\ run'[r] = run[r] /\ decision'[r] = decision[r]
        /\ blocked'[r] = blocked[r]
    BY <1>3, OthersUntouched DEF IInv
  <2>2. BlockedOf(r)
    BY <2>1 DEF IInv, SuspensionKept, BlockedOf
  <2>3. UNCHANGED suspended
    BY <1>3 DEF StepOf, RunnerStep, TimedStep, FetchToken, FetchTokenRaises, PolicyCheck,
       CheckSuspension, InjectRateLimitCount, Evaluate, EvaluateCedar, QueueApproval,
       AuditDecision, ExecuteTool, AuditResult, ErrorHandler, Crash, Start
  <2>4. \A x \in executed' : x.runner = r => x \in executed
    <3>1. CASE ExecuteTool(q)
      BY <1>3, <3>1 DEF ExecuteTool
    <3>2. CASE ~ExecuteTool(q)
      BY <1>3, <3>2 DEF StepOf, RunnerStep, TimedStep, FetchToken, FetchTokenRaises, PolicyCheck,
         CheckSuspension, InjectRateLimitCount, Evaluate, EvaluateCedar, QueueApproval,
         AuditDecision, AuditResult, ErrorHandler, Crash, Start
    <3>3. QED
      BY <3>1, <3>2
  <2>5. QED
    BY <2>1, <2>2, <2>3, <2>4 DEF BlockedOf
<1>4. ASSUME NEW a \in Agents, Suspend(a) PROVE BlockedOf(r)'
  <2>1. /\ suspended' = suspended \cup {a}
        /\ blocked'[r] = (blocked[r] \/ (IdOf[r] = a /\ pc[r] \in Unchecked))
        /\ UNCHANGED <<pc, run, decision, executed>>
    BY <1>4 DEF Suspend
  <2>2. CASE blocked[r]
    BY <2>1, <2>2 DEF IInv, SuspensionKept, BlockedOf
  <2>3. CASE IdOf[r] = a /\ pc[r] \in Unchecked
    <3>1. pc[r] \notin {"rate", "evaluate", "cedar", "queue_approval", "audit_result", "idle"}
      BY <2>3 DEF Unchecked
    <3>2. decision[r] = "none"
      BY <2>3 DEF IInv, GatesPassed, GatesOf, Unchecked, PepSteps
    <3>3. \A x \in executed : x.runner = r => x.run # run[r]
      BY <3>1 DEF IInv, SuspensionKept
    <3>4. QED
      BY <2>1, <2>3, <3>1, <3>2, <3>3 DEF BlockedOf
  <2>4. QED
    BY <2>1, <2>2, <2>3
<1>5. ASSUME NEW a \in Agents, Unsuspend(a) PROVE BlockedOf(r)'
  BY <1>5 DEF Unsuspend, BlockedOf, IInv, TypeOK, SuspensionKept
<1>6. CASE Tick \/ (\E q \in Runners : LateAppend(q)) \/ UNCHANGED vars
  BY <1>6 DEF Tick, LateAppend, vars, BlockedOf, IInv, SuspensionKept
<1>7. QED
  BY <1>1, <1>2, <1>3, <1>4, <1>5, <1>6 DEF Next, StepOf

LEMMA SuspensionStep == IInv /\ [Next]_vars => SuspensionKept'
BY BlockedStep, HistoryStep DEF SuspensionKept, BlockedOf

-----------------------------------------------------------------------------

LEMMA InitIInv == Init => IInv
<1> SUFFICES ASSUME Init PROVE IInv
  OBVIOUS
<1>1. TypeOK
  BY IdleValues DEF Init, TypeOK, Minutes
<1>2. GatesPassed
  BY DEF Init, GatesPassed, GatesOf, PepSteps
<1>3. CompleteMediation /\ TrailKept /\ SuspensionKept
  BY DEF Init, CompleteMediation, TrailKept, SuspensionKept
<1>4. QED
  BY <1>1, <1>2, <1>3 DEF IInv

\* The conjunction of the parts is inductive.
THEOREM Inductive == Spec => []IInv
<1>1. IInv /\ [Next]_vars => IInv'
  BY TypeStep, GatesStep, MediationStep, TrailStep, SuspensionStep DEF IInv
<1>2. QED
  BY InitIInv, <1>1, PTL DEF Spec

\* Every reachable state is well typed: in particular only known decisions and
\* results are ever issued, and a run decides nothing outside the known outcomes.
THEOREM TypeCorrect == Spec => []TypeOK
BY Inductive, PTL DEF IInv

\* No tool handler runs for a request that the registry, the IP binding, OPA
\* or Cedar would refuse, for any number of runners and any engine failure.
THEOREM Mediation == Spec => []CompleteMediation
BY Inductive, PTL DEF IInv

\* A handler is only called, and a result only issued, when the ALLOW of the run
\* is in Kafka or in the memory of the process, for any failure of Kafka.
THEOREM AuditFirst == Spec => AuditedBeforeExecution
<1>1. ASSUME IInv, [Next]_vars, NEW x \in executed' \ executed
      PROVE  Allowed(x.runner, x.run)
  <2>1. PICK r \in Runners :
          /\ ExecuteTool(r)
          /\ x = [runner |-> r, run |-> run[r], request |-> Request(r)]
    BY <1>1, ExecutedBy
  <2>2. Allowed(r, run[r]) /\ x.runner = r /\ x.run = run[r]
    BY <1>1, <2>1 DEF IInv, TrailKept, ExecuteTool
  <2>3. QED
    BY <2>2
<1>2. ASSUME IInv, [Next]_vars, NEW r \in Runners,
             NEW e \in EventsOf(r, run[r])' \ EventsOf(r, run[r]), e.decision \in Results
      PROVE  Allowed(r, run[r])
  <2>a. TypeOK /\ TrailKept
    BY <1>2 DEF IInv
  <2>1. CASE AuditResult(r)
    BY <2>1, <2>a DEF TrailKept, AuditResult
  <2>2. CASE AuditDecision(r)
    <3>1. Publish(r, decision[r]) /\ run'[r] = run[r]
      BY <2>2, <2>a DEF AuditDecision
    <3>2. e = NextEvent(r, decision[r])
      BY <1>2, <2>a, <3>1, EventsGrow
    <3>3. e.decision \notin Results
      BY <3>2, <2>a DEF NextEvent, TypeOK, Results, Refusals
    <3>4. QED
      BY <1>2, <3>3
  <2>3. CASE run'[r] # run[r]
    <3>1. e.runner = r /\ e.run = run'[r] /\ e \in topic' \cup fallback'[r]
      BY <1>2 DEF EventsOf
    <3>2. run[r] \in Nat /\ run'[r] \in Nat /\ run[r] < run'[r]
      <4>1. run'[r] \in Nat /\ run[r] <= run'[r]
        BY <1>2, <2>a, RunGrows
      <4>2. run[r] \in Nat
        BY <2>a DEF TypeOK
      <4>3. QED
        BY <2>3, <4>1, <4>2
    <3>3. ASSUME NEW q \in Runners, e \in topic \cup fallback[q] PROVE FALSE
      BY <2>a, <3>1, <3>2, <3>3 DEF TrailKept
    <3>4. QED
      BY <1>2, <2>a, <3>1, <3>2, <3>3, EventsBy
  <2>4. CASE Crash(r)
    <3>1. topic' = topic /\ fallback'[r] = {} /\ run'[r] = run[r]
      BY <2>4, <2>a DEF Crash, TypeOK
    <3>2. QED
      BY <1>2, <3>1 DEF EventsOf
  <2>5. QED
    BY <1>2, <2>a, <2>1, <2>2, <2>3, <2>4, EventsKept
<1>3. IInv /\ [Next]_vars =>
        [/\ \A x \in executed' \ executed : Allowed(x.runner, x.run)
         /\ \A r \in Runners : \A e \in EventsOf(r, run[r])' \ EventsOf(r, run[r]) :
              e.decision \in Results => Allowed(r, run[r])]_vars
  BY <1>1, <1>2
<1>4. QED
  BY Inductive, <1>3, PTL DEF Spec, AuditedBeforeExecution

\* As long as Kafka takes every event, the ALLOW behind every execution is there,
\* whatever dies; with a failing Kafka run agent_durable refutes it.
THEOREM DurableWhileKafkaAnswers == Spec => [](~KafkaMayFail => DecisionIsDurable)
<1> DEFINE Durable == ~KafkaMayFail => DecisionIsDurable
<1>1. Init => Durable
  BY DEF Init, DecisionIsDurable
<1>2. IInv /\ Durable /\ [Next]_vars => Durable'
  <2> SUFFICES ASSUME IInv, DecisionIsDurable, [Next]_vars, ~KafkaMayFail,
                      NEW x \in executed'
               PROVE  \E e \in topic' : /\ e.runner = x.runner /\ e.run = x.run
                                        /\ e.decision = "ALLOW"
    BY DEF DecisionIsDurable
  <2>1. topic \subseteq topic'
    BY TrailBy DEF Publish, Crash, LateAppend
  <2>2. CASE x \in executed
    BY <2>1, <2>2 DEF DecisionIsDurable
  <2>3. CASE x \notin executed
    <3>1. PICK r \in Runners :
            /\ ExecuteTool(r)
            /\ x = [runner |-> r, run |-> run[r], request |-> Request(r)]
      BY <2>3, ExecutedBy
    <3>2. Allowed(r, run[r]) /\ fallback[r] = {} /\ x.runner = r /\ x.run = run[r]
      BY <3>1 DEF IInv, TrailKept, ExecuteTool
    <3>3. QED
      BY <2>1, <3>2 DEF Allowed, EventsOf
  <2>4. QED
    BY <2>2, <2>3
<1>3. QED
  BY Inductive, <1>1, <1>2, PTL DEF Spec

\* A suspension that precedes a run's check and outlives the run keeps it from acting,
\* for any number of runners of the identity.
THEOREM SuspensionHolds == Spec => []SuspendedDoesNotAct
<1>1. IInv => SuspendedDoesNotAct
  BY DEF IInv, SuspensionKept, SuspendedDoesNotAct
<1>2. QED
  BY Inductive, <1>1, PTL

-----------------------------------------------------------------------------
(* The audit trail of a finished run                                       *)

\* The nodes a run passes before its decision is issued.
Undecided == {"fetch_token", "policy_check", "audit_decision"} \cup PepSteps

One(trail, decisions) == \E e \in trail : trail = {e} /\ e.decision \in decisions

\* The trail of the current or last run of r, exactly, at each node and after
\* each regular end.
TrailAt(r) ==
  LET trail == EventsOf(r, run[r])
  IN  /\ pc[r] # "idle" => outcome[r] = "none"
      /\ pc[r] \in Undecided => trail = {}
      /\ pc[r] \in {"execute_tool", "audit_result"} => One(trail, {"ALLOW"})
      /\ pc[r] = "error_handler" => One(trail, Refusals)
      /\ outcome[r] = "blocked" => One(trail, Refusals)
      /\ outcome[r] = "raised" => trail = {}
      /\ outcome[r] = "completed" =>
           \E e, f \in trail : /\ trail = {e, f}
                               /\ e.decision = "ALLOW" /\ f.decision \in Results

TrailsExact == \A r \in Runners : TrailAt(r)

LEMMA TrailAtStep ==
  ASSUME IInv, TrailsExact, [Next]_vars, NEW r \in Runners
  PROVE  TrailAt(r)'
<1> USE DEF redis, audit, local, ghosts
<1>a. TrailAt(r) /\ TypeOK /\ TrailKept
  BY DEF TrailsExact, IInv
<1>1. ASSUME pc'[r] = pc[r], run'[r] = run[r], outcome'[r] = outcome[r],
             ~AuditDecision(r), ~AuditResult(r), ~Crash(r)
      PROVE  TrailAt(r)'
  <2>1. EventsOf(r, run[r])' = EventsOf(r, run[r])
    BY <1>1, <1>a, EventsKept
  <2>2. QED
    BY <1>1, <1>a, <2>1 DEF TrailAt
<1>2. ASSUME NEW j \in Jobs, Start(r, j) PROVE TrailAt(r)'
  <2>1. /\ pc'[r] = "fetch_token" /\ run'[r] = run[r] + 1 /\ outcome'[r] = "none"
        /\ UNCHANGED <<topic, fallback>>
    BY <1>2, <1>a DEF TypeOK, Start, Goto
  <2>2. EventsOf(r, run[r])' = {}
    <3>1. run[r] \in Nat /\ \A e \in topic \cup fallback[r] : e.runner = r => e.run <= run[r]
      BY <1>a DEF TrailKept, TypeOK
    <3>2. QED
      BY <2>1, <3>1 DEF EventsOf
  <2>3. QED
    BY <2>1, <2>2 DEF TrailAt, Undecided
<1>3. CASE AuditDecision(r)
  <2>1. EventsOf(r, run[r])' = {NextEvent(r, decision[r])}
    <3>1. EventsOf(r, run[r]) = {}
      BY <1>3, <1>a DEF AuditDecision, TrailAt, Undecided
    <3>2. Publish(r, decision[r]) /\ run'[r] = run[r]
      BY <1>3 DEF AuditDecision
    <3>3. QED
      BY <1>a, <3>1, <3>2, EventsGrow
  <2>2. decision[r] \in {"ALLOW"} \cup Refusals
    BY <1>3 DEF IInv, TypeOK, GatesPassed, GatesOf, AuditDecision, PepSteps
  <2>3. /\ pc'[r] = IF decision[r] = "ALLOW" THEN "execute_tool" ELSE "error_handler"
        /\ outcome'[r] = outcome[r] /\ outcome[r] = "none"
    BY <1>3, <1>a DEF TypeOK, AuditDecision, _route_after_policy, Goto, TrailAt
  <2>4. NextEvent(r, decision[r]).decision = decision[r]
    BY DEF NextEvent
  <2>5. QED
    BY <2>1, <2>2, <2>3, <2>4 DEF TrailAt, One, Undecided, PepSteps
<1>4. CASE AuditResult(r)
  <2>1. PICK d \in Results : Publish(r, d)
    BY <1>4 DEF AuditResult, Results
  <2>2. run'[r] = run[r] /\ pc'[r] = "idle" /\ outcome'[r] = "completed"
    BY <1>4, <1>a DEF TypeOK, AuditResult, Leave, Goto
  <2>3. PICK e \in EventsOf(r, run[r]) : /\ EventsOf(r, run[r]) = {e}
                                         /\ e.decision = "ALLOW"
    BY <1>4, <1>a DEF AuditResult, TrailAt, One
  <2>4. EventsOf(r, run[r])' = {e, NextEvent(r, d)}
    BY <1>a, <2>1, <2>2, <2>3, EventsGrow
  <2>5. NextEvent(r, d).decision \in Results
    BY DEF NextEvent
  <2>6. QED
    BY <2>2, <2>3, <2>4, <2>5 DEF TrailAt, Undecided, PepSteps
<1>5. CASE ErrorHandler(r)
  <2>1. run'[r] = run[r] /\ pc'[r] = "idle" /\ outcome'[r] = "blocked"
    BY <1>5, <1>a DEF TypeOK, ErrorHandler, Leave, Goto
  <2>2. UNCHANGED <<topic, fallback>>
    BY <1>5 DEF ErrorHandler
  <2>3. EventsOf(r, run[r])' = EventsOf(r, run[r])
    BY <2>1, <2>2 DEF EventsOf
  <2>4. QED
    BY <1>5, <1>a, <2>1, <2>3 DEF ErrorHandler, TrailAt, Undecided, PepSteps
<1>6. CASE FetchTokenRaises(r)
  <2>1. run'[r] = run[r] /\ pc'[r] = "idle" /\ outcome'[r] = "raised"
    BY <1>6, <1>a DEF TypeOK, FetchTokenRaises, Leave, Goto
  <2>2. UNCHANGED <<topic, fallback>> /\ pc[r] = "fetch_token"
    BY <1>6 DEF FetchTokenRaises
  <2>3. EventsOf(r, run[r])' = {}
    BY <1>a, <2>1, <2>2 DEF EventsOf, TrailAt, Undecided
  <2>4. QED
    BY <2>1, <2>3 DEF TrailAt, Undecided, PepSteps
<1>7. CASE Crash(r)
  BY <1>7, <1>a DEF TypeOK, Crash, Leave, Goto, TrailAt, Undecided, PepSteps
<1>8. ASSUME FetchToken(r) \/ PolicyCheck(r) \/ CheckSuspension(r) \/ InjectRateLimitCount(r)
               \/ Evaluate(r) \/ EvaluateCedar(r) \/ QueueApproval(r)
      PROVE TrailAt(r)'
  <2>1. /\ pc[r] \in Undecided /\ pc'[r] \in Undecided /\ run'[r] = run[r]
        /\ outcome'[r] = outcome[r]
    BY <1>8, <1>a DEF TypeOK, FetchToken, PolicyCheck, CheckSuspension,
       InjectRateLimitCount, Evaluate, EvaluateCedar, QueueApproval, Refuse, Goto,
       Undecided, PepSteps
  <2>2. UNCHANGED <<topic, fallback>>
    BY <1>8 DEF FetchToken, PolicyCheck, CheckSuspension, InjectRateLimitCount, Evaluate,
       EvaluateCedar, QueueApproval
  <2>3. EventsOf(r, run[r])' = EventsOf(r, run[r])
    BY <2>1, <2>2 DEF EventsOf
  <2>4. QED
    BY <1>a, <2>1, <2>3 DEF TrailAt, Undecided, PepSteps
<1>9. CASE ExecuteTool(r)
  <2>1. /\ pc[r] = "execute_tool" /\ pc'[r] = "audit_result" /\ run'[r] = run[r]
        /\ outcome'[r] = outcome[r] /\ UNCHANGED <<topic, fallback>>
    BY <1>9, <1>a DEF TypeOK, ExecuteTool, Goto
  <2>2. EventsOf(r, run[r])' = EventsOf(r, run[r])
    BY <2>1 DEF EventsOf
  <2>3. QED
    BY <1>a, <2>1, <2>2 DEF TrailAt, Undecided, PepSteps
<1>10. ASSUME NEW q \in Runners, StepOf(q), q # r PROVE TrailAt(r)'
  <2>1. pc'[r] = pc[r] /\ run'[r] = run[r] /\ outcome'[r] = outcome[r]
    BY <1>10, <1>a, OthersUntouched
  <2>2. QED
    BY <1>1, <1>3, <1>4, <1>7, <2>1
<1>11. ASSUME NEW a \in Agents, Suspend(a) \/ Unsuspend(a) PROVE TrailAt(r)'
  BY <1>11, <1>1, <1>3, <1>4, <1>7 DEF Suspend, Unsuspend
<1>12. CASE Tick \/ (\E q \in Runners : LateAppend(q)) \/ UNCHANGED vars
  BY <1>12, <1>1, <1>3, <1>4, <1>7 DEF Tick, LateAppend, vars
<1>13. QED
  BY <1>2, <1>3, <1>4, <1>5, <1>6, <1>7, <1>8, <1>9, <1>10, <1>11, <1>12
     DEF Next, StepOf, RunnerStep, TimedStep

\* The trail of every run is exactly what its node or its end says.
THEOREM TrailsAreExact == Spec => []TrailsExact
<1>1. Init => TrailsExact
  BY DEF Init, TrailsExact, TrailAt, EventsOf, Undecided, PepSteps
<1>2. IInv /\ TrailsExact /\ [Next]_vars => TrailsExact'
  BY TrailAtStep DEF TrailsExact
<1>3. QED
  BY Inductive, <1>1, <1>2, PTL DEF Spec

\* While its process lives, a run that ended has issued one decision, one result
\* if that decision is ALLOW, and nothing if its token could not be had, whatever
\* the other runners issue and Kafka does.
THEOREM FinishedAudited == Spec => []FinishedRunsAreAudited
<1>1. TrailsExact => FinishedRunsAreAudited
  <2> SUFFICES ASSUME TrailsExact, NEW r \in Runners
               PROVE  FinishedRunsAreAudited!(r)
    BY DEF FinishedRunsAreAudited
  <2> DEFINE trail == EventsOf(r, run[r])
             results == {e \in trail : e.decision \in Results}
             decisions == trail \ results
  <2>1. CASE outcome[r] = "completed"
    <3>1. PICK e, f \in trail : /\ trail = {e, f}
                               /\ e.decision = "ALLOW" /\ f.decision \in Results
      BY <2>1 DEF TrailsExact, TrailAt
    <3>2. decisions = {e} /\ results = {f} /\ Allowed(r, run[r])
      BY <3>1 DEF Results, Allowed
    <3>3. Cardinality(decisions) = 1 /\ Cardinality(results) = 1
      BY <3>2, FS_Singleton
    <3>4. QED
      BY <2>1, <3>2, <3>3
  <2>2. CASE outcome[r] = "blocked"
    <3>1. PICK e \in trail : trail = {e} /\ e.decision \in Refusals
      BY <2>2 DEF TrailsExact, TrailAt, One
    <3>2. decisions = {e} /\ results = {} /\ ~Allowed(r, run[r])
      BY <3>1 DEF Results, Refusals, Allowed
    <3>3. Cardinality(decisions) = 1
      BY <3>2, FS_Singleton
    <3>4. QED
      BY <2>2, <3>2, <3>3
  <2>3. CASE outcome[r] = "raised"
    BY <2>3 DEF TrailsExact, TrailAt
  <2>4. QED
    BY <2>1, <2>2, <2>3
<1>2. QED
  BY TrailsAreExact, <1>1, PTL

-----------------------------------------------------------------------------
(* The rate limit                                                          *)

\* The count n that INCR gave run r, with the key it was given for.
Ticket(r, n) == [agent |-> IdOf[r], bucket |-> bucket[r], count |-> n,
                 runner |-> r, run |-> run[r]]

\* The counts a request holds before OPA has seen it, and those OPA allowed.
Tickets ==
  grants \cup UNION {{Ticket(r, n) : n \in count[r]} :
                       r \in {q \in Runners : pc[q] = "evaluate"}}

\* The steps at which a run has no count yet.
Uncounted == {"idle", "fetch_token", "policy_check", "suspension", "rate"}

CountsHeld ==
  \A r \in Runners :
    /\ pc[r] = "rate" => minute <= bucket[r] + 1
    /\ pc[r] \in Uncounted => count[r] = {}
    /\ \A m, n \in count[r] : m = n

\* A counter that still exists has counted every ticket drawn from it, and no
\* two tickets of a key bear the same count, even after the counter is gone.
TicketsCounted ==
  \A t \in Tickets :
    /\ 1 <= t.count
    /\ Unexpired(t.bucket, minute) => t.count <= counter[t.agent][t.bucket]

TicketsDiffer ==
  \A t, u \in Tickets :
    t.agent = u.agent /\ t.bucket = u.bucket /\ t.count = u.count => t = u

\* Each grant was below the limit of some job, and there is a highest one.
GrantsBounded ==
  /\ \A g \in grants : \E limit \in DeclaredLimits : g.count < limit
  /\ \E top \in Nat : \A g \in grants : g.count <= top

RateKept == CountsHeld /\ TicketsCounted /\ TicketsDiffer /\ GrantsBounded

LEMMA TicketIn ==
  ASSUME NEW t
  PROVE  t \in Tickets <=>
           \/ t \in grants
           \/ \E r \in Runners : /\ pc[r] = "evaluate"
                                 /\ \E n \in count[r] : t = Ticket(r, n)
BY DEF Tickets

LEMMA TicketType ==
  ASSUME TypeOK, NEW t \in Tickets
  PROVE  t.agent \in Agents /\ t.bucket \in Minutes /\ t.count \in Nat
BY TicketIn DEF TypeOK, Ticket

\* A grant is made of a ticket, for a request the policy allows.
LEMMA GrantsBy ==
  ASSUME [Next]_vars
  PROVE  \/ UNCHANGED grants
         \/ \E r \in Runners : /\ Evaluate(r)
                               /\ "ALLOW" \in effects(Request(r))
                               /\ grants' = grants \cup {Ticket(r, n) : n \in count[r]}
<1> USE DEF redis, audit, local, ghosts
<1>1. ASSUME NEW r \in Runners, RunnerStep(r), ~Evaluate(r) PROVE UNCHANGED grants
  BY <1>1 DEF RunnerStep, TimedStep, FetchToken, FetchTokenRaises, PolicyCheck, CheckSuspension,
     InjectRateLimitCount, EvaluateCedar, QueueApproval, AuditDecision, ExecuteTool,
     AuditResult, ErrorHandler
<1>2. ASSUME NEW r \in Runners, Evaluate(r), ~UNCHANGED grants
      PROVE  /\ "ALLOW" \in effects(Request(r))
             /\ grants' = grants \cup {Ticket(r, n) : n \in count[r]}
  <2>1. PICK answer \in PdpAnswers(Request(r)) : Evaluate(r)!2!(answer)
    BY <1>2 DEF Evaluate
  <2>2. _evaluate(answer) = "ALLOW"
    BY <1>2, <2>1
  <2>3. QED
    BY <2>1, <2>2, AllowVerdict DEF Ticket
<1>3. ASSUME NEW r \in Runners, Crash(r) \/ \E j \in Jobs : Start(r, j)
      PROVE  UNCHANGED grants
  BY <1>3 DEF Crash, Start
<1>4. ASSUME NEW a \in Agents, Suspend(a) \/ Unsuspend(a) PROVE UNCHANGED grants
  BY <1>4 DEF Suspend, Unsuspend
<1>5. CASE Tick \/ (\E q \in Runners : LateAppend(q)) \/ UNCHANGED vars
  BY <1>5 DEF Tick, LateAppend, vars
<1>6. QED
  BY <1>1, <1>2, <1>3, <1>4, <1>5 DEF Next

\* A run comes to evaluate from the rate step only, and waits there unchanged.
LEMMA AtEvaluate ==
  ASSUME TypeOK, [Next]_vars, NEW r \in Runners, pc'[r] = "evaluate"
  PROVE  \/ InjectRateLimitCount(r)
         \/ /\ pc[r] = "evaluate" /\ count'[r] = count[r]
            /\ bucket'[r] = bucket[r] /\ run'[r] = run[r]
<1> USE DEF redis, audit, local, ghosts
<1>1. ASSUME StepOf(r), ~InjectRateLimitCount(r) PROVE FALSE
  BY <1>1 DEF TypeOK, StepOf, RunnerStep, TimedStep, FetchToken, FetchTokenRaises, PolicyCheck,
     CheckSuspension, Evaluate, EvaluateCedar, QueueApproval, AuditDecision,
     _route_after_policy, ExecuteTool, AuditResult, ErrorHandler, Crash, Start, Leave,
     Refuse, Goto
<1>2. ASSUME NEW q \in Runners, StepOf(q), q # r
      PROVE  /\ pc[r] = "evaluate" /\ count'[r] = count[r]
             /\ bucket'[r] = bucket[r] /\ run'[r] = run[r]
  BY <1>2, OthersUntouched
<1>3. ASSUME NEW a \in Agents, Suspend(a) \/ Unsuspend(a)
      PROVE  /\ pc[r] = "evaluate" /\ count'[r] = count[r]
             /\ bucket'[r] = bucket[r] /\ run'[r] = run[r]
  BY <1>3 DEF Suspend, Unsuspend
<1>4. CASE Tick \/ (\E q \in Runners : LateAppend(q)) \/ UNCHANGED vars
  BY <1>4 DEF Tick, LateAppend, vars
<1>5. QED
  BY <1>1, <1>2, <1>3, <1>4 DEF Next, StepOf

\* An INCR that is answered draws the one new ticket; every other step leaves
\* the tickets as they are or drops some.
LEMMA TicketsBy ==
  ASSUME TypeOK, CountsHeld, [Next]_vars, NEW t \in Tickets', t \notin Tickets
  PROVE  \E r \in Runners :
           LET n == counter[IdOf[r]][bucket[r]] + 1 IN
             /\ InjectRateLimitCount(r)
             /\ t = Ticket(r, n)
             /\ counter' = [counter EXCEPT ![IdOf[r]][bucket[r]] = n]
<1>1. t \notin grants'
  <2>1. ASSUME NEW r \in Runners, Evaluate(r), NEW n \in count[r] PROVE Ticket(r, n) \in Tickets
    BY <2>1, TicketIn DEF Evaluate
  <2>2. QED
    BY <2>1, TicketIn, GrantsBy
<1>2. PICK r \in Runners : /\ pc'[r] = "evaluate"
                           /\ \E n \in count'[r] : t = Ticket(r, n)'
  BY <1>1 DEF Tickets
<1>3. PICK n \in count'[r] : t = Ticket(r, n)'
  BY <1>2
<1>4. InjectRateLimitCount(r)
  <2>1. SUFFICES ASSUME ~InjectRateLimitCount(r) PROVE FALSE
    OBVIOUS
  <2>2. /\ pc[r] = "evaluate" /\ count'[r] = count[r]
        /\ bucket'[r] = bucket[r] /\ run'[r] = run[r]
    BY <1>2, <2>1, AtEvaluate
  <2>3. t = Ticket(r, n) /\ n \in count[r]
    BY <1>3, <2>2 DEF Ticket
  <2>4. QED
    BY <2>2, <2>3, TicketIn
<1>5. Ticket(r, n)' = Ticket(r, n)
  BY <1>4 DEF InjectRateLimitCount, Ticket
<1>6. count[r] = {}
  BY <1>4 DEF InjectRateLimitCount, CountsHeld, Uncounted
<1>7. /\ n = counter[IdOf[r]][bucket[r]] + 1
      /\ counter' = [counter EXCEPT ![IdOf[r]][bucket[r]] = counter[IdOf[r]][bucket[r]] + 1]
  BY <1>3, <1>4, <1>6 DEF InjectRateLimitCount, TypeOK
<1>8. QED
  BY <1>3, <1>4, <1>5, <1>7

\* A counter that survives a step survived until then, and never went down.
LEMMA CounterStep ==
  ASSUME TypeOK, [Next]_vars, NEW a \in Agents, NEW m \in Minutes, Unexpired(m, minute')
  PROVE  Unexpired(m, minute) /\ counter[a][m] <= counter'[a][m]
<1> USE DEF redis, audit, local, ghosts
<1>a. counter[a][m] \in Nat /\ minute \in Nat /\ m \in Nat
  BY DEF TypeOK, Minutes
<1>1. ASSUME UNCHANGED <<minute, counter>>
      PROVE  Unexpired(m, minute) /\ counter[a][m] <= counter'[a][m]
  BY <1>1, <1>a
<1>2. ASSUME NEW r \in Runners, InjectRateLimitCount(r)
      PROVE  Unexpired(m, minute) /\ counter[a][m] <= counter'[a][m]
  <2>1. IdOf[r] \in Agents /\ bucket[r] \in Minutes /\ UNCHANGED minute
    BY <1>2 DEF TypeOK, InjectRateLimitCount
  <2>2. \/ UNCHANGED counter
        \/ counter' = [counter EXCEPT ![IdOf[r]][bucket[r]] =
                         counter[IdOf[r]][bucket[r]] + 1]
    BY <1>2 DEF InjectRateLimitCount
  <2>3. counter'[a][m] \in {counter[a][m], counter[a][m] + 1}
    <3>1. counter \in [Agents -> [Minutes -> Nat]]
      BY DEF TypeOK
    <3>2. QED
      BY <2>1, <2>2, <3>1
  <2>4. QED
    BY <1>a, <2>1, <2>3
<1>3. CASE Tick
  BY <1>3, <1>a DEF Tick, Unexpired
<1>4. ASSUME NEW r \in Runners, StepOf(r), ~InjectRateLimitCount(r)
      PROVE  UNCHANGED <<minute, counter>>
  BY <1>4 DEF StepOf, RunnerStep, TimedStep, FetchToken, FetchTokenRaises, PolicyCheck,
     CheckSuspension, Evaluate, EvaluateCedar, QueueApproval, AuditDecision, ExecuteTool,
     AuditResult, ErrorHandler, Crash, Start
<1>5. ASSUME NEW b \in Agents, Suspend(b) \/ Unsuspend(b) PROVE UNCHANGED <<minute, counter>>
  BY <1>5 DEF Suspend, Unsuspend
<1>6. CASE (\E q \in Runners : LateAppend(q)) \/ UNCHANGED vars
  BY <1>1, <1>6 DEF LateAppend, vars
<1>7. QED
  BY <1>1, <1>2, <1>3, <1>4, <1>5, <1>6 DEF Next, StepOf

LEMMA TicketsCountedStep ==
  IInv /\ CountsHeld /\ TicketsCounted /\ [Next]_vars => TicketsCounted'
<1> SUFFICES ASSUME IInv, CountsHeld, TicketsCounted, [Next]_vars, NEW t \in Tickets'
             PROVE  /\ 1 <= t.count
                    /\ Unexpired(t.bucket, minute') => t.count <= counter'[t.agent][t.bucket]
  BY DEF TicketsCounted, Unexpired
<1>1. TypeOK /\ TypeOK'
  BY TypeStep DEF IInv
<1>2. CASE t \in Tickets
  <2>1. t.agent \in Agents /\ t.bucket \in Minutes /\ t.count \in Nat
    BY <1>1, <1>2, TicketType
  <2>2. 1 <= t.count
    BY <1>2 DEF TicketsCounted
  <2>3. ASSUME Unexpired(t.bucket, minute') PROVE t.count <= counter'[t.agent][t.bucket]
    <3>1. /\ Unexpired(t.bucket, minute)
          /\ counter[t.agent][t.bucket] <= counter'[t.agent][t.bucket]
      BY <1>1, <2>1, <2>3, CounterStep
    <3>2. t.count <= counter[t.agent][t.bucket]
      BY <1>2, <3>1 DEF TicketsCounted
    <3>3. counter[t.agent][t.bucket] \in Nat /\ counter'[t.agent][t.bucket] \in Nat
      BY <1>1, <2>1 DEF TypeOK
    <3>4. QED
      BY <2>1, <3>1, <3>2, <3>3
  <2>4. QED
    BY <2>2, <2>3
<1>3. CASE t \notin Tickets
  <2>1. PICK r \in Runners :
          LET n == counter[IdOf[r]][bucket[r]] + 1 IN
            /\ InjectRateLimitCount(r)
            /\ t = Ticket(r, n)
            /\ counter' = [counter EXCEPT ![IdOf[r]][bucket[r]] = n]
    BY <1>1, <1>3, TicketsBy
  <2> DEFINE n == counter[IdOf[r]][bucket[r]] + 1
  <2>2. IdOf[r] \in Agents /\ bucket[r] \in Minutes /\ counter[IdOf[r]][bucket[r]] \in Nat
    BY <1>1 DEF TypeOK
  <2>3. t.agent = IdOf[r] /\ t.bucket = bucket[r] /\ t.count = n
    BY <2>1 DEF Ticket
  <2>4. counter'[IdOf[r]][bucket[r]] = n
    BY <1>1, <2>1, <2>2 DEF TypeOK
  <2>5. QED
    BY <2>2, <2>3, <2>4
<1>4. QED
  BY <1>2, <1>3

\* INCR answers a number above all those it has answered for the key: a runner
\* that reaches INCR does so before its counter expires.
LEMMA TicketsDifferStep ==
  IInv /\ CountsHeld /\ TicketsCounted /\ TicketsDiffer /\ [Next]_vars => TicketsDiffer'
<1> SUFFICES ASSUME IInv, CountsHeld, TicketsCounted, TicketsDiffer, [Next]_vars
             PROVE  TicketsDiffer'
  OBVIOUS
<1>a. TypeOK
  BY DEF IInv
<1>1. ASSUME NEW t \in Tickets', NEW u \in Tickets', t \in Tickets, u \notin Tickets,
             t.agent = u.agent, t.bucket = u.bucket
      PROVE  t.count # u.count
  <2>1. PICK r \in Runners :
          LET n == counter[IdOf[r]][bucket[r]] + 1 IN
            InjectRateLimitCount(r) /\ u = Ticket(r, n)
    BY <1>a, <1>1, TicketsBy
  <2>2. IdOf[r] \in Agents /\ bucket[r] \in Minutes /\ counter[IdOf[r]][bucket[r]] \in Nat
    BY <1>a DEF TypeOK
  <2>3. /\ u.agent = IdOf[r] /\ u.bucket = bucket[r]
        /\ u.count = counter[IdOf[r]][bucket[r]] + 1
    BY <2>1 DEF Ticket
  <2>4. Unexpired(bucket[r], minute)
    BY <1>a, <2>1, <2>2 DEF InjectRateLimitCount, CountsHeld, Unexpired, TypeOK, Minutes
  <2>5. t.count <= counter[IdOf[r]][bucket[r]]
    BY <1>1, <2>3, <2>4 DEF TicketsCounted
  <2>6. t.count \in Nat
    BY <1>a, <1>1, TicketType
  <2>7. QED
    BY <2>2, <2>3, <2>5, <2>6
<1>2. ASSUME NEW t \in Tickets', NEW u \in Tickets', t \notin Tickets, u \notin Tickets
      PROVE  t = u
  <2>1. PICK r \in Runners : /\ InjectRateLimitCount(r)
                             /\ t = Ticket(r, counter[IdOf[r]][bucket[r]] + 1)
    BY <1>a, <1>2, TicketsBy
  <2>2. PICK q \in Runners : /\ InjectRateLimitCount(q)
                             /\ u = Ticket(q, counter[IdOf[q]][bucket[q]] + 1)
    BY <1>a, <1>2, TicketsBy
  <2>3. r = q
    BY <1>a, <2>1, <2>2 DEF InjectRateLimitCount, Goto, TypeOK
  <2>4. QED
    BY <2>1, <2>2, <2>3
<1>3. QED
  BY <1>1, <1>2 DEF TicketsDiffer

LEMMA CountsHeldStep == IInv /\ CountsHeld /\ [Next]_vars => CountsHeld'
<1> SUFFICES ASSUME IInv, CountsHeld, [Next]_vars, NEW r \in Runners
             PROVE  /\ pc'[r] = "rate" => minute' <= bucket'[r] + 1
                    /\ pc'[r] \in Uncounted => count'[r] = {}
                    /\ \A m, n \in count'[r] : m = n
  BY DEF CountsHeld
<1> USE DEF redis, audit, local, ghosts
<1> DEFINE Goal == /\ pc'[r] = "rate" => minute' <= bucket'[r] + 1
                   /\ pc'[r] \in Uncounted => count'[r] = {}
                   /\ \A m, n \in count'[r] : m = n
<1>a. TypeOK /\ bucket[r] \in Nat /\ minute \in Nat
  <2>1. TypeOK
    BY DEF IInv
  <2>2. bucket[r] \in Nat /\ minute \in Nat
    BY <2>1 DEF TypeOK, Minutes
  <2>3. QED
    BY <2>1, <2>2
<1>b. /\ pc[r] = "rate" => minute <= bucket[r] + 1
      /\ pc[r] \in Uncounted => count[r] = {}
      /\ \A m, n \in count[r] : m = n
  BY DEF CountsHeld
<1>1. ASSUME NEW q \in Runners, StepOf(q), q # r PROVE Goal
  <2>1. UNCHANGED minute
    BY <1>1 DEF StepOf, RunnerStep, TimedStep, FetchToken, FetchTokenRaises, PolicyCheck,
       CheckSuspension, InjectRateLimitCount, Evaluate, EvaluateCedar, QueueApproval,
       AuditDecision, ExecuteTool, AuditResult, ErrorHandler, Crash, Start
  <2>2. QED
    BY <1>1, <1>a, <1>b, <2>1, OthersUntouched
<1>2. ASSUME NEW how, Leave(r, how) PROVE Goal
  BY <1>2, <1>a DEF Leave, Goto, TypeOK
<1>3. CASE FetchTokenRaises(r) \/ AuditResult(r) \/ ErrorHandler(r) \/ Crash(r)
  BY <1>2, <1>3 DEF FetchTokenRaises, AuditResult, ErrorHandler, Crash
<1>4. ASSUME NEW j \in Jobs, Start(r, j) PROVE Goal
  BY <1>4, <1>a, <1>b DEF Start, Goto, TypeOK, Uncounted
<1>5. CASE FetchToken(r) \/ PolicyCheck(r)
  BY <1>5, <1>a, <1>b DEF FetchToken, PolicyCheck, Refuse, Goto, TypeOK, Uncounted
<1>6. CASE CheckSuspension(r)
  BY <1>6, <1>a, <1>b DEF CheckSuspension, Refuse, Goto, TypeOK, Uncounted
<1>7. CASE InjectRateLimitCount(r)
  BY <1>7, <1>a, <1>b DEF InjectRateLimitCount, Goto, TypeOK, Uncounted
<1>8. CASE Evaluate(r) \/ EvaluateCedar(r) \/ QueueApproval(r)
  BY <1>8, <1>a, <1>b DEF Evaluate, EvaluateCedar, QueueApproval, Refuse, Goto, TypeOK,
     Uncounted
<1>9. CASE AuditDecision(r) \/ ExecuteTool(r)
  BY <1>9, <1>a, <1>b DEF AuditDecision, _route_after_policy, ExecuteTool, Goto, TypeOK,
     Uncounted
<1>10. ASSUME NEW a \in Agents, Suspend(a) \/ Unsuspend(a) PROVE Goal
  BY <1>10, <1>b DEF Suspend, Unsuspend
<1>11. CASE Tick
  BY <1>11, <1>a, <1>b DEF Tick
<1>12. CASE (\E q \in Runners : LateAppend(q)) \/ UNCHANGED vars
  BY <1>12, <1>b DEF LateAppend, vars
<1>13. QED
  BY <1>1, <1>3, <1>4, <1>5, <1>6, <1>7, <1>8, <1>9, <1>10, <1>11, <1>12
     DEF Next, StepOf, RunnerStep, TimedStep

\* The limit OPA compares with is that of the job at hand.
LEMMA LimitDeclared ==
  ASSUME TypeOK, NEW r \in Runners
  PROVE  max_actions_per_minute(Request(r)) \in DeclaredLimits
<1>1. Request(r).max = job[r].max /\ job[r] \in Jobs
  BY DEF Request, TypeOK
<1>2. QED
  BY <1>1 DEF max_actions_per_minute, DeclaredLimits

LEMMA LimitType == DeclaredLimits \subseteq Int
BY DEF DeclaredLimits, DefaultMaxActions

LEMMA GrantsBoundedStep ==
  IInv /\ CountsHeld /\ GrantsBounded /\ [Next]_vars => GrantsBounded'
<1> SUFFICES ASSUME IInv, CountsHeld, GrantsBounded, [Next]_vars, ~UNCHANGED grants
             PROVE  GrantsBounded'
  BY DEF GrantsBounded, DeclaredLimits
<1>a. TypeOK
  BY DEF IInv
<1>1. PICK r \in Runners : /\ "ALLOW" \in effects(Request(r))
                           /\ grants' = grants \cup {Ticket(r, n) : n \in count[r]}
  BY GrantsBy
<1>2. within_rate_limit(Request(r)) /\ Request(r).count = count[r]
  BY <1>1 DEF effects, sub_policies_pass, Request
<1>3. PICK c \in count[r] : c < max_actions_per_minute(Request(r))
  BY <1>1, <1>2 DEF within_rate_limit
<1>4. grants' = grants \cup {Ticket(r, c)} /\ c \in Nat
  <2>1. count[r] = {c} /\ c \in Nat
    BY <1>a DEF CountsHeld, TypeOK
  <2>2. QED
    BY <1>1, <2>1
<1>5. \A g \in grants' : \E limit \in DeclaredLimits : g.count < limit
  <2>1. Ticket(r, c).count = c
    BY DEF Ticket
  <2>2. QED
    BY <1>a, <1>3, <1>4, <2>1, LimitDeclared DEF GrantsBounded
<1>6. \E top \in Nat : \A g \in grants' : g.count <= top
  <2>1. PICK top \in Nat : \A g \in grants : g.count <= top
    BY DEF GrantsBounded
  <2>2. \A g \in grants : g.count \in Nat
    BY <1>a DEF TypeOK
  <2>3. Ticket(r, c).count = c
    BY DEF Ticket
  <2>4. \A g \in grants' : g.count <= top + c
    BY <1>4, <2>1, <2>2, <2>3
  <2>5. QED
    BY <1>4, <2>4
<1>7. QED
  BY <1>5, <1>6 DEF GrantsBounded, DeclaredLimits

\* The tickets of a key stay apart, counted and bounded.
THEOREM RateIsKept == Spec => []RateKept
<1>1. Init => RateKept
  BY DEF Init, RateKept, CountsHeld, Uncounted, TicketsCounted, TicketsDiffer, Tickets,
     GrantsBounded
<1>2. IInv /\ RateKept /\ [Next]_vars => RateKept'
  BY CountsHeldStep, TicketsCountedStep, TicketsDifferStep, GrantsBoundedStep DEF RateKept
<1>3. QED
  BY Inductive, <1>1, <1>2, PTL DEF Spec

\* The grants of a minute bear different counts from 1 on, so there are at most
\* as many as the highest of these counts, and that one was below a limit.
LEMMA GrantsOfMinute ==
  ASSUME TypeOK, RateKept, NEW a \in Agents, NEW m \in Minutes,
         {g \in grants : g.agent = a /\ g.bucket = m} # {}
  PROVE  \E limit \in DeclaredLimits :
           Cardinality({g \in grants : g.agent = a /\ g.bucket = m}) < limit
<1> DEFINE granted == {g \in grants : g.agent = a /\ g.bucket = m}
           T == {g.count : g \in granted}
<1>1. \A g \in granted : g \in grants /\ g \in Tickets /\ g.count \in Nat /\ 1 <= g.count
  BY TicketIn DEF TypeOK, RateKept, TicketsCounted
<1>2. PICK g \in granted : \A h \in granted : h.count <= g.count
  <2>1. PICK top \in Nat : \A h \in grants : h.count <= top
    BY DEF RateKept, GrantsBounded
  <2>2. T \in SUBSET Nat /\ T # {} /\ \A y \in T : y <= top
    BY <1>1, <2>1
  <2>3. PICK x \in T : \A y \in T : y <= x
    <3> HIDE DEF T
    <3>1. QED
      BY <2>2, GreatestElement
  <2>4. QED
    BY <2>3
<1> DEFINE f == [h \in granted |-> h.count]
<1>3. f \in Injection(granted, 1 .. g.count)
  <2>1. f \in [granted -> 1 .. g.count]
    BY <1>1, <1>2
  <2>2. ASSUME NEW h \in granted, NEW k \in granted, f[h] = f[k] PROVE h = k
    BY <1>1, <2>2 DEF RateKept, TicketsDiffer
  <2>3. QED
    BY <2>1, <2>2 DEF Injection, IsInjective
<1>4. Cardinality(granted) <= g.count /\ Cardinality(granted) \in Nat
  <2> HIDE DEF granted, f
  <2>1. g.count \in Nat /\ 1 <= g.count
    BY <1>1, <1>2
  <2> DEFINE n == g.count
  <2> HIDE DEF n
  <2>2. IsFiniteSet(1 .. g.count) /\ Cardinality(1 .. g.count) = g.count
    <3>1. n \in Int /\ 1 <= n
      BY <2>1 DEF n
    <3>2. IsFiniteSet(1 .. n) /\ Cardinality(1 .. n) = n
      BY <3>1, FS_Interval
    <3>3. QED
      BY <3>2 DEF n
  <2>3. IsFiniteSet(granted) /\ Cardinality(granted) <= Cardinality(1 .. g.count)
    BY <1>3, <2>2, FS_Injection
  <2>4. QED
    BY <2>2, <2>3, FS_CardinalityType
<1>5. PICK limit \in DeclaredLimits : g.count < limit
  BY <1>1, <1>2 DEF RateKept, GrantsBounded
<1>6. Cardinality(granted) < limit
  <2> HIDE DEF granted
  <2>1. g.count \in Nat /\ limit \in Int
    BY <1>1, <1>2, LimitType
  <2>2. QED
    BY <1>4, <1>5, <2>1
<1>7. QED
  BY <1>6

\* However many runners of an identity race for one counter, over minute
\* boundaries, expiries and lost answers of Redis, the requests OPA allows on
\* a count stay below a limit one of its jobs declares.
THEOREM RateLimitHolds == Spec => []RateIsLimited
<1>1. IInv /\ RateKept => RateIsLimited
  <2> SUFFICES ASSUME IInv, RateKept, NEW a \in Agents, NEW m \in Minutes
               PROVE  \E limit \in DeclaredLimits :
                        LET granted == {g \in grants : g.agent = a /\ g.bucket = m}
                        IN  granted = {} \/ Cardinality(granted) < limit
    BY DEF RateIsLimited
  <2>1. DeclaredLimits # {}
    BY DEF DeclaredLimits
  <2>2. CASE {g \in grants : g.agent = a /\ g.bucket = m} = {}
    BY <2>1, <2>2
  <2>3. CASE {g \in grants : g.agent = a /\ g.bucket = m} # {}
    BY <2>3, GrantsOfMinute DEF IInv
  <2>4. QED
    BY <2>2, <2>3
<1>2. QED
  BY Inductive, RateIsKept, <1>1, PTL
=============================================================================
