----------------------- MODULE AgentRefinementProofs ------------------------
(* AgentRun implements GuardedExecution, for every set of runners.         *)
EXTENDS AgentRunProofs

USE DEF local, redis, audit, ghosts

\* A run that goes to a node moves to its stage, and no other run does.
LEMMA StageMoves ==
  ASSUME TypeOK, NEW r \in Runners, NEW node, Goto(r, node)
  PROVE  /\ stages' = [stages EXCEPT ![r] = Stage(node)]
         /\ stages[r] = Stage(pc[r])
BY DEF TypeOK, Goto, stages

\* What a runner does before its verdict is recorded changes nothing that a reader
\* of the trail sees, except that the run may end.
LEMMA Deciding ==
  ASSUME TypeOK, NEW r \in Runners,
         FetchToken(r) \/ PolicyCheck(r) \/ CheckSuspension(r) \/ InjectRateLimitCount(r)
           \/ Evaluate(r) \/ EvaluateCedar(r) \/ QueueApproval(r)
  PROVE  UNCHANGED <<stages, run, issued, topic, fallback, handled>>
<1>1. UNCHANGED <<run, issued, topic, fallback, executed>>
  BY DEF FetchToken, PolicyCheck, CheckSuspension, InjectRateLimitCount, Evaluate,
         EvaluateCedar, QueueApproval
<1>2. /\ Stage(pc[r]) = "deciding"
      /\ \E node : Goto(r, node) /\ Stage(node) = "deciding"
  BY DEF FetchToken, PolicyCheck, CheckSuspension, InjectRateLimitCount, Evaluate,
         EvaluateCedar, QueueApproval, Refuse, Stage
<1>3. stages' = stages
  <2>1. stages' = [stages EXCEPT ![r] = "deciding"] /\ stages[r] = "deciding"
    BY <1>2, StageMoves
  <2>2. QED
    BY <2>1 DEF stages
<1>4. QED
  BY <1>1, <1>3 DEF handled

\* Every end of a run without a report is a Stop, and so is the death of an idle
\* process.
LEMMA Stopping ==
  ASSUME TypeOK, NEW r \in Runners, FetchTokenRaises(r) \/ ErrorHandler(r) \/ Crash(r)
  PROVE  Guard!Stop(r)
<1>1. /\ UNCHANGED <<run, issued, topic, executed>> /\ Goto(r, "idle")
      /\ fallback' \in {fallback, [fallback EXCEPT ![r] = {}]}
  BY DEF FetchTokenRaises, ErrorHandler, Crash, Leave
<1>2. stages' = [stages EXCEPT ![r] = "idle"]
  BY <1>1, StageMoves DEF Stage
<1>3. QED
  BY <1>1, <1>2 DEF Guard!Stop, handled

LEMMA Beginning ==
  ASSUME TypeOK, NEW r \in Runners, NEW j \in Jobs, Start(r, j)
  PROVE  Guard!Begin(r)
<1>1. /\ pc[r] = "idle" /\ Goto(r, "fetch_token")
      /\ run' = [run EXCEPT ![r] = @ + 1] /\ UNCHANGED <<issued, topic, fallback, executed>>
  BY DEF Start
<1>2. stages' = [stages EXCEPT ![r] = "deciding"] /\ stages[r] = "idle"
  BY <1>1, StageMoves DEF Stage
<1>3. QED
  BY <1>1, <1>2 DEF Guard!Begin, Guard!Move, handled

\* What a producer issues is told to the log, or kept in memory.
LEMMA Telling ==
  ASSUME NEW r \in Runners, NEW d, Publish(r, d)
  PROVE  Guard!Tell(r, d)
BY DEF Publish, NextEvent, Guard!Tell

\* The decision event is the verdict, and the graph branches on the same verdict.
LEMMA Recording ==
  ASSUME TypeOK, GatesPassed, NEW r \in Runners, AuditDecision(r)
  PROVE  \E d \in {"ALLOW"} \cup Refusals : Guard!RecordVerdict(r, d)
<1>1. pc[r] = "audit_decision" /\ UNCHANGED <<run, executed>>
  BY DEF AuditDecision
<1>2. decision[r] \in {"ALLOW"} \cup Refusals
  <2>1. decision[r] # "none"
    BY <1>1 DEF GatesPassed, GatesOf, PepSteps
  <2>2. decision[r] \in {"none", "ALLOW"} \cup Refusals
    BY DEF TypeOK
  <2>3. QED
    BY <2>1, <2>2
<1>3. Guard!Tell(r, decision[r])
  BY Telling DEF AuditDecision
<1>4. Goto(r, IF decision[r] = "ALLOW" THEN "execute_tool" ELSE "error_handler")
  BY DEF AuditDecision, _route_after_policy
<1>5. /\ stages' = [stages EXCEPT ![r] =
                      IF decision[r] = "ALLOW" THEN "allowed" ELSE "refused"]
      /\ stages[r] = "deciding"
  BY <1>1, <1>4, StageMoves DEF Stage
<1>6. QED
  BY <1>1, <1>2, <1>3, <1>5 DEF Guard!RecordVerdict, Guard!Move, handled

\* A tool call, or the discovery that there is no handler, is one Act.
LEMMA Acting ==
  ASSUME TypeOK, TrailKept, NEW r \in Runners, ExecuteTool(r)
  PROVE  Guard!Act(r)
<1>1. /\ pc[r] = "execute_tool" /\ Goto(r, "audit_result")
      /\ UNCHANGED <<run, issued, topic, fallback>>
  BY DEF ExecuteTool
<1>a. \E e \in topic \cup fallback[r] :
        e.runner = r /\ e.run = run[r] /\ e.decision = "ALLOW"
  BY <1>1 DEF TrailKept, Allowed, EventsOf
<1>2. stages' = [stages EXCEPT ![r] = "acted"] /\ stages[r] = "allowed"
  BY <1>1, StageMoves DEF Stage
<1>3. CASE executed' = executed
  BY <1>1, <1>2, <1>a, <1>3 DEF Guard!Act, Guard!Move, handled
<1>4. CASE executed' = executed \cup {[runner |-> r, run |-> run[r], request |-> Request(r)]}
  <2>1. handled' = handled \cup {<<r, run[r]>>}
    <3> DEFINE new == [runner |-> r, run |-> run[r], request |-> Request(r)]
    <3>1. new.runner = r /\ new.run = run[r]
      OBVIOUS
    <3> HIDE DEF new
    <3>2. executed' = executed \cup {new}
      BY <1>4 DEF new
    <3>3. QED
      BY <3>1, <3>2, Zenon DEF handled
  <2>2. QED
    BY <1>1, <1>2, <1>a, <2>1 DEF Guard!Act, Guard!Move
<1>5. QED
  BY <1>3, <1>4 DEF ExecuteTool

LEMMA Reporting ==
  ASSUME TypeOK, NEW r \in Runners, AuditResult(r)
  PROVE  \E how \in Results : Guard!Report(r, how)
<1> DEFINE how == IF error[r] THEN "EXECUTION_FAILED" ELSE "EXECUTED"
<1>1. /\ pc[r] = "audit_result" /\ Goto(r, "idle") /\ UNCHANGED <<run, executed>>
      /\ Guard!Tell(r, how)
  BY Telling DEF AuditResult, Leave
<1>2. stages' = [stages EXCEPT ![r] = "idle"] /\ stages[r] = "acted"
  BY <1>1, StageMoves DEF Stage
<1>3. how \in Results
  BY DEF Results
<1>4. Guard!Report(r, how)
  BY <1>1, <1>2 DEF Guard!Report, Guard!Move, handled
<1>5. QED
  BY <1>3, <1>4

\* A late append brings a record from memory to the log.
LEMMA Appending ==
  ASSUME NEW r \in Runners, LateAppend(r)
  PROVE  Guard!ReachLog(r)
BY DEF LateAppend, Guard!ReachLog, stages, handled

\* What is no runner's step is invisible.
LEMMA Elsewhere ==
  ASSUME (\E a \in Agents : Suspend(a) \/ Unsuspend(a)) \/ Tick \/ UNCHANGED vars
  PROVE  UNCHANGED <<stages, run, issued, topic, fallback, handled>>
<1>1. UNCHANGED <<pc, run, issued, topic, fallback, executed>>
  BY DEF Suspend, Unsuspend, Tick, vars
<1>2. QED
  BY <1>1 DEF stages, handled

\* Every step of a run is a step of the abstract run, or a stutter.
LEMMA StepRefines ==
  ASSUME TypeOK, GatesPassed, TrailKept, [Next]_vars
  PROVE  [Guard!GuardNext]_(Guard!guardVars)
<1>1. ASSUME NEW r \in Runners, RunnerStep(r)
      PROVE  Guard!GuardNext \/ UNCHANGED <<stages, run, issued, topic, fallback, handled>>
  BY <1>1, Deciding, Stopping, Recording, Acting, Reporting
     DEF RunnerStep, TimedStep, Guard!GuardNext
<1>2. ASSUME NEW r \in Runners, Crash(r) \/ LateAppend(r) PROVE Guard!GuardNext
  BY <1>2, Stopping, Appending DEF Guard!GuardNext
<1>3. ASSUME NEW r \in Runners, NEW j \in Jobs, Start(r, j) PROVE Guard!GuardNext
  BY <1>3, Beginning DEF Guard!GuardNext
<1>4. QED
  BY <1>1, <1>2, <1>3, Elsewhere DEF Next, Guard!guardVars

LEMMA InitRefines == Init => Guard!GuardInit
BY DEF Init, Guard!GuardInit, stages, Stage, handled

\* For a reader of Kafka and of the memory of the living processes, the graph with
\* all its gates, failures and crashes is one verdict, one action on an ALLOW that
\* is there, and one report per run.
THEOREM Refinement == Spec => ImplementsGuardedExecution
<1>1. IInv => TypeOK /\ GatesPassed /\ TrailKept
  BY DEF IInv
<1>2. QED
  BY <1>1, InitRefines, StepRefines, Inductive, PTL
     DEF Spec, ImplementsGuardedExecution, Guard!GuardSpec

=============================================================================
