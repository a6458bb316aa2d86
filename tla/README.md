# NHI-Sentinel: specifications

NHI-Sentinel governs what software agents do with cloud credentials. Every tool
call of an agent passes a policy enforcement point (PEP) that asks two policy
engines, every decision goes to a hash-chained audit trail, risky actions wait
for a human, and an anomaly service suspends identities that misbehave. This
directory holds TLA+ models of those parts, TLC runs over small instances, and
TLAPS proofs of the most important results for instances of any size.

    tlc -workers 2 -config agent_paths.cfg MCAgentRun      # one run
    tlapm AgentRunProofs.tla                               # one proof module

`PROJECT.json` lists the runs with their configurations, which source lines each
definition stands for, and the mutants: for each property, one plausible bug
in the code that makes the property fail.

## 1. The system

| part | state it keeps | operations | talks to |
|---|---|---|---|
| agent graph (`agents/base/`) | the state of one `run()`; the tool registry | `run`: fetch_token, load_task, policy_check, audit_decision, execute_tool, audit_result, error_handler | Keycloak, PEP, audit producer, cloud |
| PEP (`pep/client.py`) | none of its own; counters and suspended set in Redis | `enforce`: IP binding, suspension, rate count, OPA, Cedar, approval record | Redis, OPA, Cedar CLI |
| Rego bundle (`policy/rego/nhi/`) | none | `response` on one input document | asked by the PEP |
| Cedar (`policy/cedar/`, `pep/cedar_evaluator.py`) | none | `evaluate` on one request | asked by the PEP |
| audit producer, schema, consumer (`audit/`) | chain head and fallback queue per process; Kafka log; offsets; table `audit_events` | `publish`, the poll/INSERT loop, `/chain/verify` | Kafka, PostgreSQL |
| approvals (`approval/`) | records `approval:{id}`, set `approval:pending` | `enqueue`, `resolve`, `list_pending` | Redis, console |
| identity API (`identity/api.py`) | set `identities:suspended`, reason keys, two counters | suspend, unsuspend, status | Redis |
| token manager (`identity/token_manager.py`) | the private key, one cached token and its expiry | `load_key_from_file`, `get_token`, `introspect` | Keycloak |
| provisioner (`identity/provisioner.py`, `identity/vault_client.py`) | key in Vault, client in Keycloak | `provision`, `suspend_client`, `delete_client`, `delete_agent_keypair` | Vault, Keycloak |
| anomaly service (`anomaly/`) | per agent: history, scorer, burst counter, "suspended" mark; its offset | consumer task, `_process_event`, `_suspend_identity`, `POST /score` | Kafka, identity API |

What is hard in it: several processes act for one identity and share Redis; each
step of `enforce` reads or writes something another process changes; processes
die between the decision, the action and the record of it; the consumer commits
offsets apart from its INSERTs; `resolve` and `list_pending` are sequences of
separate Redis commands run by a thread pool, and so are suspend and unsuspend; the
anomaly service remembers what it asked for, not what became of it; provisioning
writes Vault and Keycloak one after the other; token lifetimes are counted by two
clocks; Rego rules are partial, and complete rules with several bodies may
contradict each other.

What makes each part correct:

- policies: what the rules decide reaches the PEP; no ALLOW without token, scope, task,
  window, environment and budget; gated actions only with an approval;
  restricting a request never helps it;
- PEP and graph: complete mediation; the decision is in the trail before the action,
  and survives the process while Kafka answers; an identity suspended before a run asked
  for it does not act in that run; the per-minute budget holds over all
  processes; every run ends, or waits for the Redis of the approval queue;
- audit: nothing committed that was not settled; one row per event; complete
  rows of one process verify, incomplete or altered ones or those of two do not;
- approvals: no self-approval, an answered decision is final, nothing that waits is lost,
  what is over never waits again, nothing stays listed for ever;
- suspension: a suspended identity has a reason unless two handlers overlapped or
  Redis failed under one, the counters agree with the set while Redis answers,
  no agent is marked for what another did, an alarm that reaches the API
  ends in SADD or a 503, a dead API does not stop the scoring;
- credentials: a returned token outlives its use, a revoked key authorises nothing
  later than one introspection after its revocation.

## 2. The modules

| module | models | composed of |
|---|---|---|
| `Rego` | the six files of `policy/rego/nhi/` | |
| `Cedar` | the two Cedar files and `CedarEvaluator` | |
| `Pep` | the stateless steps of `enforce` | `Rego`, `Cedar` |
| `PolicyQuery` | one request through both layers | `Pep` |
| `AgentRun` | the graph and `enforce` step by step, many processes, Redis, suspension, time | `Pep` |
| `AuditPipeline` | producer, Kafka, consumer, PostgreSQL, verification | |
| `ApprovalQueue` | approval records, API threads, both writers | |
| `GuardedExecution` | what a run promises: one verdict, one action, one report | implemented by `AgentRun` |
| `IdentityApi` | suspend and unsuspend, command by command | |
| `AnomalyService` | the consumer task, scoring, alarms, restarts | `IdentityApi` |
| `Credentials` | provisioner, Vault, Keycloak, token manager | |
| `MC*` | the finite instances | |
| `PolicyQueryProofs`, `AgentRunProofs`, `AuditPipelineProofs`, `ApprovalQueueProofs`, `AnomalyServiceProofs`, `CredentialsProofs` | theorems about the module of that name | it |
| `AgentRefinementProofs` | that `AgentRun` implements `GuardedExecution` | `AgentRunProofs` |
| `LeastNumber` | least and greatest elements of sets of naturals, for the proofs | |

### Rego, Cedar, Pep, PolicyQuery

A Rego rule is an operator that is TRUE exactly when the rule is defined. A
complete rule with several bodies is the *set* of values its bodies give, so that
OPA's conflict error can be expressed. An optional key is a set with at most one
element. `response` has no value when one of the five rules in
`conditions_evaluated` is undefined, because none of them has a default.
`_evaluate` maps each of these answers to what `pep/client.py` makes of it: an error
status is a denial made by the PEP, a missing `result` is a `KeyError`.

A Cedar policy whose condition errs is skipped; `in` on a string errs. Cedar is asked
only where the CLI is installed (`CedarInstalled`), the action is one of those it knows and the
policy file of the action exists (`files` in `PolicyQuery`, `CedarPolicies` in `AgentRun`):
`governed` is that condition, and without it the action passes. A CLI that times
out or crashes denies. The two temporary files of a query are taken to be writable.

An approval is queued before `ApprovalRequiredError` is raised, and the Redis error of
`_queue_approval` leaves `enforce` in its place: `Decide` and `QueueApproval` have both outcomes.

`TimestampIsText` separates two deployments. `main.rego` sends `evaluated_at` as a
number, which `PolicyDecision` refuses, so with the repository as it is no request is
ever allowed (run `policy_response_consumed`). The other runs set it to TRUE,
the response the PEP and its tests are written for: otherwise nothing behind
the first gate could be examined.

`docker-compose.yml` mounts all of `policy/rego`, which also holds an older
`authorization.rego` in the same package with a second `default effect`. Those two
files do not compile together; the model is of `policy/rego/nhi/`.

### AgentRun

`pc[r]` is the node of the graph, or the step of `enforce`, runner `r` stands at; the
actions are named after the nodes and the PEP's methods. One step is one access to
shared state. `load_task` only logs and is part of `FetchToken`. Refusals are
recorded under the names the code uses: `DENY` from the registry, otherwise the
exception's class name. `Crash` may happen anywhere. A Redis failure takes the path
the code gives it: the suspension check passes, no count is injected,
`_queue_approval` raises. `InjectRateLimitCount` includes the INCR that was applied
though its answer was lost.

Time is a count of minutes. `Tick` does not overtake an INCR by more than one
minute: the clock reading that names the key and the INCR are adjacent statements
with a 2 s socket timeout. That is the one timing assumption, and it is what
makes the 120 s expiry safe: with an expiry of one minute (the mutant
`MutExpireAtOnce`) the limit fails.

The audit trail has two parts. An event carries an `event_id` of its own (its runner and the
number in `issued`), so that one that is built twice counts twice. `publish` puts it into
`topic`, or, when Kafka refuses it or does not answer in time (`KafkaMayFail`), into
`fallback`, the memory of the producer, which `Crash` empties and nothing replays.
`LateAppend` is a record that Kafka appended although its producer had given it up. The trail of a run
(`EventsOf`) is what is in either place.

`blocked` says that an identity was suspended before the run sent its SISMEMBER, was not reinstated
since, and Redis answered. What is suspended after that check is acted on by the run
under way and refused by the next one.

`executed`, `grants`, `blocked` and `outcome` are histories the properties speak of; no
guard reads them.

### AuditPipeline

A hash is the sequence of everything that went into it, so two events have the
same hash exactly when SHA-256 has no collision. Ids are in order of creation,
which is also the order of timestamps (one clock). The topic has one partition.
`Publish` covers acknowledgement, failure and the time-out on a record the broker
did append. `Poll` commits the *previous* position, as kafka-python's auto-commit
does. Only `AlterRow` changes a row: the trigger of `init.sql` keeps the application from
it. `drain()` is called by tests only and is no action.

### ApprovalQueue

Each Redis command is a step; handlers run in FastAPI's thread pool, so two PATCH
requests and a GET interleave. A handler that fails half way is one that takes no
further step. `PepQueueApproval` is the PEP's own writer. What refuses a PATCH (404, 409,
403, 422, 500) changes nothing and is the negation of `Resolvable`.

### GuardedExecution

The view of an auditor: a run decides, records its verdict, acts on a recorded ALLOW and
reports. A record is in the `log`, which outlives everything, or, only where the log may fail,
in the `memory` of its runner, which is lost when the runner stops. `Act` needs the run's ALLOW
in one of them. The refinement mapping in `AgentRun` takes a node of the graph to one of five
stages (`Stage`), the topic to the log, the producer's fallback queue to the memory, the
number of events issued to `told` and the handler calls to `acted`. All of `enforce`, with its failures, is then a stutter, and an exception that
leaves the graph is a run that stops. The mutant calls a failed handler again: each call
is mediated and audited before it happens, so only the refinement finds it.

### IdentityApi and AnomalyService

`thread[w].pc` names the Redis command a handler is about to send; the last command, the
counter and the answer are one step (nothing in between is shared except the counter,
whose `+= 1` in a thread of one interpreter is taken as atomic). `RedisFails` covers a
command that was applied though its answer was lost. `torn` is a history: suspensions
that met a reinstatement between its SREM and its DEL, or lost Redis half way.

The anomaly service is one asyncio task, which gives up the loop only while it awaits the
API; so everything up to `_suspend_identity`'s request is one step (`HandleNormal`,
`IgnoreAlarm`, `RaiseAlarm`), and `Resume` is what follows the await. `POST /score` runs in
a thread and only touches the detector. A fitted model may find any event anomalous
or not: the isolation forest is not modelled. A request may be lost; `GiveUp` is the
timeout or a lost connection, and the handler it called goes on. `AutoCommit` commits what the
consumer has taken, at any time; `Crash` forgets everything but the topic and the
committed offset. A record that is JSON but no event is skipped (`SkipMalformed`); one that is
not JSON raises in the deserializer, outside the `try`, and ends the task
(`DeserializerRaises`). Whether the offset is past that record by then is aiokafka's affair, so either may
be the case. The service goes on without its consumer (`"deaf"`), as it does when
`Start` could not start one.

`AgentRun` has a suspended set of its own, changed by one-step `Suspend` and `Unsuspend`: the
PEP reads only the set, in one SISMEMBER, and the set changes in one command of the handler.

### Credentials

One agent and any number of provisioning runs; a run names its key pair. Keycloak accepts an
assertion exactly when the client is enabled and holds the agent's key. Its verdict on a token
(`Introspected`) and the arrival of that verdict (`ReceiveClaims`, `IntrospectFails`) are two
steps, between which the client may be suspended or deleted; `revokedAt` is a history of
when a key lost its right. Time is a
counter; `Tick` does not pass the timeout of a call under way. `TimingAssumption` is what
the code's numbers satisfy: 900 s for realm and agent, 30 s of buffer, a 10 s and a
5 s timeout (httpx applies a timeout to each phase of a call, so that is the constant to watch:
the assumption holds up to 30 s together). The agent's and Keycloak's clocks
run alike; a difference between them adds to `Latency`.

## 3. The runs

Passing:

| run | bounds | shows |
|---|---|---|
| policy_layers | every agent type, destructive, IAM and S3 actions, each field at the values the policies tell apart, resource tags, the CLI with each subset of its policy files; all pairs of comparable requests; 306k states | EffectReachesThePep, AllowNeedsActiveToken, GatedActionsNeedApproval, AllowNeedsBothLayers, RestrictionNeverGrants |
| agent_paths | 1 process, 2 runs, 6 jobs, 3 kinds of token, everything may fail, Kafka included, suspension at any point; 148k states | CompleteMediation, AuditedBeforeExecution, FinishedRunsAreAudited, SuspendedDoesNotAct, EveryRunEnds, the refinement of GuardedExecution |
| agent_rate | 3 processes of one identity, limit 3, 2 minutes, a Kafka that answers, crashes; 99k states | RateIsLimited, DecisionIsDurable |
| audit_delivery | 3 events, 2 consumer ends, failing sends and INSERTs, altered rows | CommittedIsSettled, OneRowPerEvent, AlterationIsDetected, EveryEventSettles |
| audit_chain | 2 producers, 3 events, lost sends, restarts, rows with results | UnbrokenVerifies, VerifiedHasNoGap, VerifiedIsOneProcess |
| suspension_alarms | 2 agents, 2 API threads, 2 records (events, no events, not JSON), 2 crashes, 1 operator request, 1 failing command, lost requests, late answers | BooksBalance, SuspendedHasReason, SuspendedForItsOwnEvents, ScorerKeepsUp, AlarmReachesRedis |
| credentials_lifecycle | 2 provisioning runs, lifespan 6, buffer 3, latency 1, introspection 2, 8 units of time; 4.1m states | ReturnedTokenIsLive, RevokedKeyIsDead |
| approval_threads | 2 requests, 2 PATCH threads that may stop, 1 GET thread, expiry | NoSelfApproval, WaitingIsListed, DecisionIsFinal, NeverWaitsAgain, RequestsLeaveTheList |

Why the bounds are enough. Policies compare each field with constants, so one value on
each side of each comparison covers the rule. Without the CLI `governed` is false for every
request, as it is when both policy files are gone, which is among the states of policy_layers;
the agent_rate run has no CLI at all. A limit of three with three processes is the
smallest case where the last permitted and the first refused increment belong to
different processes. Two runs show what a run inherits from one before. Three
events are enough for a predecessor, a gap and a successor. Two requests and
three threads give every pair of racing commands on one record and one
uninvolved record. Two records fit a model or exceed the
burst limit, or one with a `POST /score` does and the other comes after the alarm, is
ignored, belongs to the other agent or is redelivered after a crash; two API threads
are one alarm and one operator. Its invariants are proved for every bound (section 4). The four durations of `Credentials` meet their assumption with
equality, so that one unit less of buffer fails. Deadlock checking is off only where a run uses up its events,
runs or request ids.

Each *violation* run checks a sentence of the repository that the code does
not keep; `PROJECT.json` quotes it under "findings":

| run | what happens |
|---|---|
| policy_response_consumed | `evaluated_at` is a number, the PEP's schema wants text: no response is accepted |
| agent_durable | Kafka refuses the decision event, the tool runs, the ALLOW is in the producer's memory only |
| approval_double_resolve | two threads both read PENDING and both answer 200 |
| suspension_resuspend | one failed command under a suspension, and the next breach of the agent is ignored |

Other divergences met while modelling. The modules have this behaviour, no run is
devoted to it:

- a request that fails a sub-policy leaves `response` undefined, so it ends in `KeyError`
  and not in a denial with a reason (`main.rego:109`, "Everything else is DENY");
- the request whose count equals the limit is refused (`rate_limit.rego:24`);
- Cedar's `in` on strings errs, so an InfraAgent never reads a public bucket once the
  CLI is installed (`s3_resource_policy.cedar:22`);
- an exception in `fetch_token` leaves the graph without an event (`readme.md:76` says
  all paths emit one, `FinishedRunsAreAudited` says that such a run left none), and refusals are recorded as exception names
  (`audit/schema.py:30` lists three decisions);
- a suspension after the check of a run does not stop that run (`pep/client.py:135`), as
  `SuspendedDoesNotAct` spells out;
- Cedar lets an action pass when the CLI or the policy file is missing or the action is not
  in its lists (`cedar_evaluator.py:98`), so "both layers" is true of governed actions only;
- the connection `_queue_approval` opens has no timeout, unlike the PEP's other one
  (`pep/client.py:291`, `pep/client.py:203`): a Redis that accepts and does not answer stops the run there,
  and a refused one ends it as `ConnectionError` with nothing queued;
- a foreign environment and an exceeded limit give `reason` two values (`main.rego:73`,
  `main.rego:80`): OPA answers with an error instead of a denial;
- the fallback queue is never replayed (`ADR-004:25` says it is), and an event whose INSERT
  failed is not tried again;
- `decision_reason` and the execution fields are outside the hash
  (`docs/threat_model.md:115`), and one row with an `execution_result` makes
  `/chain/verify` answer 503 for its agent;
- a destructive or IAM-write request of a ProvisionerAgent makes two bodies of `approval_reason`
  conflict, so OPA fails and the request is denied, never queued
  (`destructive_gate.rego:41`; line 35 says its actions always require approval);
- a restart, a second process or a lost send breaks the chain of an agent although nothing
  was altered (`audit/producer.py:35`; `ADR-004:35` says the chain is preserved), which is why
  `UnbrokenVerifies` speaks of the complete rows of one process;
- an approval that expires between GET and SETEX comes back resolved, one between
  SETEX and SREM is listed as pending, and the PEP's own records are not JSON and
  not in the pending set (`pep/client.py:305`);
- the anomaly service reads `audit.events` from `KAFKA_BOOTSTRAP_SERVERS`, the producer writes
  `nhi.audit.events` to `KAFKA_BOOTSTRAP` (`anomaly/service.py:59`, `audit/producer.py:27`); the
  model is of a deployment that sets them alike;
- one record that is not JSON ends the consumer task of the anomaly service, which goes on
  answering "ok" (`service.py:73`, `service.py:78`);
- a `BurstDetector` has no window: it counts from the start of the process to its next
  alarm (`scorer.py:11` says a rolling window), and a scorer is fitted once
  (`service.py:98` says "Fit / refit");
- a crash after the commit of a record in hand loses its alarm, an alarm that is ignored
  is counted in `_suspensions`, and a consumer that does not start leaves a service that
  answers "ok" (`service.py:75`, `service.py:164`);
- a suspension that meets a reinstatement between SREM and DEL stays without a reason, and a
  client told 503 may have suspended the agent all the same (`identity/api.py:66`);
- an "active" that Keycloak sent just before a revocation still counts when it arrives, and no later
  step of the run asks again (`token_manager.py:123`);
- suspension touches Redis only, while `ADR-005:40` says that Keycloak stops issuing tokens, and
  the key is loaded once, while `ADR-005:38` says it is read on each acquisition;
- provisioning an agent again puts a new key into the Vault and leaves the old one registered
  (`provisioner.py:84`; `threat_model.md:204` describes a rotation that replaces both): agents
  started afterwards cannot authenticate;
- a cached token is returned for another task or environment than the one it was issued for
  (`token_manager.py:62`), and nothing compares them; `expires_at` is computed and never enforced.

### Fairness

- `AgentRun!FairSpec`: weak fairness of each process's `TimedStep`, the steps whose calls have a
  timeout: Redis 2 s (`client.py:203`), OPA 5 s (`client.py:45`), Cedar 5 s
  (`cedar_evaluator.py:169`), Keycloak 10 and 5 s (`token_manager.py:82`, `:131`), Kafka 5 s
  (`future.get`), boto3's defaults for the cloud. `QueueApproval` is not among them, because its
  connection has none, so `EveryRunEnds` says that a run ends or waits there for ever. `Crash` is
  never required.
- `AuditPipeline!FairSpec`: the consumer loop polls and works off its batch. That it
  stays up is a premise of the property, not of the specification.
- `AnomalyService!FairSpec`: the event loop runs the consumer task whenever it can go on, and the
  pool runs its threads, whose Redis commands have a 2 s timeout. That the process stays up with
  its consumer is a premise of `ScorerKeepsUp`. Nothing is assumed of producers,
  operators, auto-commit or restarts.
- `ApprovalQueue!FairSpec`: the console polls every five seconds and Redis expires
  keys. Nothing is assumed of writers and PATCH threads, which may stop anywhere.

## 4. The proofs

Every invariant and every action property that a passing run checks is also a theorem, for
instances of any size (`DecisionIsDurable` under its condition, that Kafka does not fail). The runs came first: each inductive invariant was checked by TLC on the
configurations of its module while it was found, except for conjuncts that TLC cannot evaluate
(types over all sequences, the bound on counts).

Assumptions, all but the last evaluated by TLC on the passing runs:

- `InputsAssumption`: numbers are naturals, optional keys have at most one value;
- `DeploymentAssumption`: two Booleans;
- `RunnersAssumption`: identities of runners, non-empty sets of jobs and tokens, limits are
  integers (`manifest_schema.py:31`), bounds are naturals;
- `PipelineAssumption`: Booleans and bounds have their types, and the marker for altered data is
  no decision;
- `ApprovalAssumption`: a Boolean, and the requester is not the marker for "nobody";
- `ApiAssumption`: finitely many threads and agents, without which nothing can be counted;
- `AnomalyAssumption`: a history is long enough to fit a model;
- `TimingAssumption`: see section 2;
- `KeycloakAnswers`, the hypothesis of one theorem: introspection of a token that is not active
  carries no scope (RFC 7662; Keycloak answers `{"active": false}`). The inputs of
  `policy_layers` satisfy it. Claims made up by a developer need not, and then the fallback
  body of `valid_token` does allow them, so it is no assumption about every instance.

`PolicyQueryProofs`, for any set of requests:

- `EffectsReachThePep`: where an effect has a value, every rule `response` reads has exactly one,
  except `approval_reason` when two gates ask for approval;
- `GateHolds` and `BothLayersConsent`: from the invariants that say what OPA had answered
  once `enforce` reaches Cedar, and what Cedar had once it returns, for every set of policy files: the outcome alone does not
  remember the answers it was made of;
- `ActiveTokenNeeded`: the fallback body of `valid_token` is harmless under `KeycloakAnswers`,
  because no action is in an empty scope;
- `Monotone`: one lemma per sub-policy; the rate lemma needs that a present count
  cannot be dropped by a tighter request;
- `TypeCorrect`, with the `ConnectionError` among the outcomes.

`AgentRunProofs`, for any number of processes, identities, jobs and tokens, through the
inductive invariant `IInv`:

- `TypeOK`;
- `GatesPassed`: at each step of the graph, which gates the run has passed; without it
  mediation is not inductive, since the action that executes sees only the recorded
  decision. The request a run is judged on cannot change between gates: its fields
  are written only before `evaluate`, which is the lemma `SameGates`;
- `TrailKept`: a run at or past `execute_tool` has its ALLOW event in Kafka or in memory, and only a
  Kafka that fails leaves anything in memory;
- `SuspensionKept`: a blocked run is still suspended and stands before the check, and no
  history is about a run to come (otherwise `Start` could inherit one).

`Mediation`, `AuditFirst` (an action property), `SuspensionHolds` and `TypeCorrect` follow from it.
`DurableWhileKafkaAnswers` follows from `TrailKept` and an invariant of its own, that the ALLOW behind
an executed request is in the topic unless Kafka may fail: topics lose nothing. Two more
invariants build on it:

- `TrailsExact` gives `FinishedAudited`: at each node, the events of the current run are exactly
  those of the nodes behind it, each with an id of its own that is at most `issued`, and none is about
  a run to come, so that `Start` begins with an empty trail. A crash loses those in memory, so
  the statement is about a process that lives;
- `RateKept` gives `RateLimitHolds`. A *ticket* is a count that INCR answered, held by a run at
  `evaluate` or by a grant. A counter that still exists is at least every ticket drawn
  from it, and a run at INCR finds its counter unexpired (`Unexpired`, the 120 s, and `Tick`'s guard), so a
  new ticket differs from all others of its key; old tickets differ although their counter may
  be gone. A step of OPA turns a ticket into a grant and changes the set of tickets by nothing. At the
  end a map from grants to counts is an injection into `1..n`, where `n` is the highest count
  granted, and `n` was below the limit of its own job.

`AuditPipelineProofs`, for any number of producers, identities, events, lost sends, restarts and
crashes; a hash is modelled without collisions (section 2):

- `SentIsHashed`: log and fallback queues hold events as they were sent, and an event's id is its place;
- `ChainKept`: an event holds the hash of the event its process sent just before it, and the head of a
  producer that of its last one. It has to be about the process (producer and incarnation), as a
  restart begins a new chain;
- `RowsFromSent`: a row is a sent event except where `AlterRow` touched it;
- `DoneIsSettled`: what the loop has behind it is settled and nothing more is committed; without
  `done`, `CommittedIsSettled` is not inductive because `Poll` commits the position of the batch
  before.

From these: `CommitsAreSettled`, `NoDuplicateRows`, `AlterationsAreDetected` (an altered row
does not hash to its `event_hash`), `UnbrokenChainsVerify` (each
row's predecessor in the table is its predecessor in the chain), `VerifiedChainsHaveNoGap`
(the last row below a gap and the first above it would need equal hashes) and
`VerifiedChainsHaveOneProcess` (a row above another holds the hash of the row before it, which only the process that sent that one knows). The last ones look at the
least or greatest row with a property (`LeastNumber`), which takes the place of induction.

`ApprovalQueueProofs`, for any requests, approvers and threads that may stop after any command:

- `CheckedResolvers`: a thread past its checks holds a decision by someone else; gives
  `NobodyApprovesThemselves`;
- `RemovedIsOver`: what a thread is about to take out of the set does not wait any more and never
  will, since ids are not used twice; without it `WaitingIsListed` is not inductive, because SREM comes
  some steps after the GET that justified it;
- `OverIsOver`: the same fact, as an action property, for a record that was PENDING and is not: its
  writer is spent, and no thread puts a status but an approver's into a record;
- `OneAnswerEach` and `AllAccounted`: a stored decision is answered already or still in the hands of a
  thread; they give `AnsweredDecisionIsFinal`. Threads that race may still overwrite each other (run
  `approval_double_resolve`).

`AgentRefinementProofs`: `Refinement`, that `AgentRun` implements `GuardedExecution`. Initial
states map to initial states, and each action maps to one abstract step or a stutter; that
`AuditResult` only follows an action is in the program counter, that `ExecuteTool` finds its ALLOW in the
topic or in memory comes from `TrailKept`, the types from `TypeOK`.

`AnomalyServiceProofs`, for any agents, threads and limits:

- `BooksBalance` is inductive by itself: each command moves one agent in or out of the set and
  one thread in or out of `Uncounted`;
- `SuspendedHasReason` needs `DeletesNoReason`: a DEL that is about to happen meets its agent
  suspended only if that suspension is torn;
- `SuspendedForItsOwnEvents` needs `CountsItsOwnEvents`: a detector never counts more than was
  recorded for its agent, a fitted model saw enough;
- `TypeOK` includes the order of offsets, `committed <= position <= Len(log)`.

`CredentialsProofs`, for any provisioning runs and durations:

- `KeysKept`: a run that has not created its client has a key that is neither registered nor
  revoked, and an enabled client's key was never revoked;
- `AnswersKept`: while an "active" is on its way, the key is not revoked or the agent's deadline is at most
  one introspection after the revocation; with `KeysKept` it gives `RevokedKeyIsDead`, an action
  property (`RevocationHolds`);
- `TokensKept`: the agent's expiry is at most `Latency + Ttl - Lifespan` past Keycloak's, and a
  call under way has not timed out; with `TimingAssumption` it gives `ReturnedTokenIsLive`.

Only model-checked: the liveness properties `EveryRunEnds`, `EveryEventSettles`, `ScorerKeepsUp`,
`AlarmReachesRedis` and `RequestsLeaveTheList`, since fairness and ENABLED are beyond this prover.
The four violations are counterexamples and need no proof.

## 5. Not modelled

The isolation forest (its verdict is a free choice), the synthetic baseline, the console, the
cloud simulator, the read-only queries, metrics, deployment files and the wording of
messages. `pep/client.py`'s `execute_tool` is a second way into `enforce` that no agent
takes. The task, environment and address inside an assertion, and the manifest's fields,
are data no modelled code compares, except the address, which `Pep!ip_bound` checks. A restart
of the identity API sets its counters to zero while Redis keeps the set; `BooksBalance`
is about one life of the process. An older policy file, `authorization.rego`, cannot be loaded
beside the bundle.

## 6. Plan

1. An abstract store (each event at most one row, in whatever order) that `AuditPipeline` implements,
   as a property of `audit_delivery` and a theorem.
2. `AgentRun` over `IdentityApi`'s commands instead of one-step suspension, with the proof that
   the set changes as `Suspend` and `Unsuspend` say.
