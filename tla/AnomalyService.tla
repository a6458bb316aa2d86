--------------------------- MODULE AnomalyService ---------------------------
(***************************************************************************)
(* The anomaly service (anomaly/service.py, anomaly/scorer.py) together    *)
(* with the identity API it calls.  One asyncio task reads the audit topic,*)
(* keeps a history, a model and a burst detector per agent, and has the    *)
(* API suspend an agent whose event is anomalous or one too many.  The     *)
(* task gives up the event loop only while it awaits the API's answer.     *)
(* What the model says of an event is any verdict once it is fitted.       *)
(***************************************************************************)
EXTENDS IdentityApi, Sequences

CONSTANTS
  MIN_FIT_SAMPLES,   \* AnomalyScorer.MIN_FIT_SAMPLES
  BurstLimit,        \* baseline_rate * threshold_multiplier
  MaxLen,            \* maxlen of a history
  NetworkMayFail,    \* a request may be lost and an answer may be late
  MaxEvents,         \* bound: records of the topic
  MaxRestarts,       \* bound: crashes of the service
  MaxRequests        \* bound: requests of operators to the two services

ASSUME AnomalyAssumption ==
  /\ {MIN_FIT_SAMPLES, BurstLimit, MaxLen} \subseteq Nat
  /\ 0 < MIN_FIT_SAMPLES /\ MIN_FIT_SAMPLES <= MaxLen
  /\ {MaxEvents, MaxRestarts, MaxRequests} \subseteq Nat
  /\ NetworkMayFail \in BOOLEAN

VARIABLES
  apc,         \* "down"; "deaf": up without its consumer; "idle"; "waiting" for the API
  log,         \* the topic: the agent of each record, Malformed or NotJson
  position,    \* records the consumer has taken
  committed,   \* offset of the group nhi-anomaly-service
  _histories,  \* [agent] length of the history
  fitted,      \* [agent] scorer._fitted
  _count,      \* [agent] burster._count
  _suspended,  \* agents the service believes suspended
  burst,       \* the alarm it waits for came from the burst detector
  caller,      \* the thread that serves its request, or NoThread
  scored,      \* [agent] history: events recorded through POST /score since the start
  requests,    \* requests of operators so far
  restarts     \* crashes so far

memory  == <<_histories, fitted, _count, _suspended, scored>>
waitFor == <<burst, caller>>
bounds  == <<requests, restarts>>
vars    == <<apiVars, apc, log, position, committed, memory, waitFor, bounds>>

Malformed == "malformed"   \* JSON, but no AuditEvent
NotJson   == "not JSON"
NoThread  == "none"

Fresh(v) == [a \in Agents |-> v]

Init ==
  /\ ApiInit
  /\ apc = "down"
  /\ log = <<>>
  /\ position = 0
  /\ committed = 0
  /\ _histories = Fresh(0)
  /\ fitted = Fresh(FALSE)
  /\ _count = Fresh(0)
  /\ _suspended = {}
  /\ burst = FALSE
  /\ caller = NoThread
  /\ scored = Fresh(0)
  /\ requests = 0
  /\ restarts = 0

Consuming == apc \in {"idle", "waiting"}

\* The audit producer appends a record (any client of the broker may).
PublishEvent ==
  /\ Len(log) < MaxEvents
  /\ \E e \in Agents \cup {Malformed, NotJson} : log' = Append(log, e)
  /\ UNCHANGED <<apiVars, apc, position, committed, memory, waitFor, bounds>>

-----------------------------------------------------------------------------
(* _process_event up to its verdict                                        *)

\* AnomalyScorer.fit trains on a history of n events.
fit(n) == n >= MIN_FIT_SAMPLES

\* history.append, and scorer.fit once there are enough events.
Observe(a) ==
  /\ _histories' = [_histories EXCEPT ![a] = IF @ < MaxLen THEN @ + 1 ELSE @]
  /\ fitted' = [fitted EXCEPT ![a] = @ \/ fit(_histories'[a])]

\* burster.record.  Mutant: one detector for all agents.
MutSharedDetector(a) == [b \in Agents |-> _count[b] + 1]
Counted(a) == [_count EXCEPT ![a] = @ + 1]

\* is_burst after record.
is_burst(a) == Counted(a)[a] > BurstLimit

\* A fitted model may find the event anomalous, any other scores it 0.
is_anomalous(a) == fitted'[a]

\* Something to suspend for.
Alarm(a) == is_burst(a) \/ is_anomalous(a)

\* The consumer takes the next record, which belongs to a.
Take(a) ==
  /\ apc = "idle"
  /\ position < Len(log)
  /\ log[position + 1] = a
  /\ position' = position + 1
  /\ UNCHANGED <<log, committed, scored, bounds>>

\* A record that is not an AuditEvent is logged and skipped.
SkipMalformed ==
  /\ Take(Malformed)
  /\ UNCHANGED <<apiVars, apc, _histories, fitted, _count, _suspended, waitFor>>

\* value_deserializer raises in the loop's head, outside its try: the task stops the
\* consumer, which may commit once more, and ends.  Whether the position is past the
\* record then is the library's affair.
DeserializerRaises ==
  /\ apc = "idle"
  /\ position < Len(log)
  /\ log[position + 1] = NotJson
  /\ apc' = "deaf"
  /\ position' \in {position, position + 1}
  /\ committed' \in {committed, position'}
  /\ UNCHANGED <<apiVars, log, memory, waitFor, bounds>>

\* No burst and no breach.
HandleNormal(a) ==
  /\ Take(a)
  /\ Observe(a)
  /\ ~is_burst(a)
  /\ _count' = Counted(a)
  /\ UNCHANGED <<apiVars, apc, _suspended, waitFor>>

\* _suspend_identity returns at once for an agent it has marked before; a detector
\* that fired is reset.
IgnoreAlarm(a) ==
  /\ a \in _suspended
  /\ Take(a)
  /\ Observe(a)
  /\ Alarm(a)
  /\ _count' = [Counted(a) EXCEPT ![a] = IF is_burst(a) THEN 0 ELSE @]
  /\ UNCHANGED <<apiVars, apc, _suspended, waitFor>>

\* The agent is marked before the request is sent.  The request reaches a free
\* thread of the API, or is lost.
RaiseAlarm(a) ==
  /\ a \notin _suspended
  /\ Take(a)
  /\ Observe(a)
  /\ Alarm(a)
  /\ _count' = Counted(a)
  /\ burst' = is_burst(a)
  /\ _suspended' = _suspended \cup {a}
  /\ apc' = "waiting"
  /\ \/ \E w \in Threads : Receive(w, "sadd", a) /\ caller' = w
     \/ NetworkMayFail /\ caller' = NoThread /\ UNCHANGED apiVars

-----------------------------------------------------------------------------
(* The rest of _suspend_identity and of _process_event                     *)

\* Whatever the outcome, the loop goes on with the next record; the detector is
\* reset after the await, so what POST /score recorded meanwhile is lost.
Resume ==
  /\ apc = "waiting"
  /\ apc' = "idle"
  /\ _count' = IF burst THEN [_count EXCEPT ![log[position]] = 0] ELSE _count
  /\ burst' = FALSE
  /\ caller' = NoThread
  /\ UNCHANGED <<log, position, committed, _histories, fitted, _suspended, scored, bounds>>

\* 200, or an error status that raise_for_status raises.
Answered ==
  /\ caller \in Threads
  /\ Release(caller)
  /\ Resume

\* The connection failed or five seconds passed.  A handler that runs goes on.
\* Mutant: no timeout and no exception handler.
MutWaitForever == FALSE
GiveUp ==
  /\ NetworkMayFail
  /\ Resume
  /\ UNCHANGED apiVars

-----------------------------------------------------------------------------
(* The process                                                             *)

\* POST /score records an event in the detector, in a thread, and suspends nobody.
ScoreEndpoint(a) ==
  /\ apc # "down"
  /\ requests < MaxRequests
  /\ requests' = requests + 1
  /\ scored' = [scored EXCEPT ![a] = @ + 1]
  /\ _count' = Counted(a)
  /\ UNCHANGED <<apiVars, apc, log, position, committed, _histories, fitted, _suspended,
                 waitFor, restarts>>

\* aiokafka commits what the consumer has taken, a record still being handled
\* included.  Mutant: everything it has fetched.
MutCommitFetched ==
  /\ Consuming
  /\ committed' = Len(log)
  /\ UNCHANGED <<apiVars, apc, log, position, memory, waitFor, bounds>>

AutoCommit ==
  /\ Consuming
  /\ committed' = position
  /\ UNCHANGED <<apiVars, apc, log, position, memory, waitFor, bounds>>

\* startup_event: the consumer starts at the group's offset.  A start that fails, or
\* a missing aiokafka, ends the task and leaves the service up and deaf.
Start ==
  /\ apc = "down"
  /\ \/ apc' = "idle" /\ position' = committed
     \/ apc' = "deaf" /\ UNCHANGED position
  /\ UNCHANGED <<apiVars, log, committed, memory, waitFor, bounds>>

\* The process dies and everything it kept in memory with it.
Crash ==
  /\ apc # "down"
  /\ restarts < MaxRestarts
  /\ restarts' = restarts + 1
  /\ apc' = "down"
  /\ position' = committed
  /\ _histories' = Fresh(0)
  /\ fitted' = Fresh(FALSE)
  /\ _count' = Fresh(0)
  /\ _suspended' = {}
  /\ scored' = Fresh(0)
  /\ burst' = FALSE
  /\ caller' = NoThread
  /\ UNCHANGED <<apiVars, log, committed, requests>>

-----------------------------------------------------------------------------
(* The identity API beside it                                              *)

serviceVars == <<apc, log, position, committed, memory, waitFor>>

\* An operator's suspend or unsuspend.
OperatorCalls ==
  /\ requests < MaxRequests
  /\ requests' = requests + 1
  /\ \E w \in Threads, a \in Agents, first \in {"sadd", "srem"} : Receive(w, first, a)
  /\ UNCHANGED <<serviceVars, restarts>>

\* A handler's next command, or its answer to somebody else than the service.
ThreadStep(w) ==
  /\ HandlerStep(w) \/ (w # caller /\ Release(w))
  /\ UNCHANGED <<serviceVars, bounds>>

-----------------------------------------------------------------------------

ConsumerStep ==
  \/ SkipMalformed \/ DeserializerRaises
  \/ \E a \in Agents : HandleNormal(a) \/ IgnoreAlarm(a) \/ RaiseAlarm(a)
  \/ Answered
  \/ GiveUp

Next ==
  \/ PublishEvent
  \/ ConsumerStep
  \/ \E a \in Agents : ScoreEndpoint(a)
  \/ AutoCommit
  \/ Start
  \/ Crash
  \/ OperatorCalls
  \/ \E w \in Threads : ThreadStep(w)

Spec == Init /\ [][Next]_vars

\* The event loop runs the task whenever it can go on, and the pool its threads.
FairSpec ==
  /\ Spec
  /\ WF_vars(ConsumerStep)
  /\ \A w \in Threads : WF_vars(ThreadStep(w))

-----------------------------------------------------------------------------
(* Properties                                                              *)

\* The variables have their types, and no offset is committed that the consumer has
\* not reached: a restart never skips a record nobody took.
TypeOK ==
  /\ ApiTypeOK
  /\ apc \in {"down", "deaf", "idle", "waiting"}
  /\ log \in Seq(Agents \cup {Malformed, NotJson})
  /\ committed \in 0 .. position /\ position \in 0 .. Len(log)
  /\ _histories \in [Agents -> 0 .. MaxLen] /\ fitted \in [Agents -> BOOLEAN]
  /\ _count \in [Agents -> Nat] /\ scored \in [Agents -> Nat] /\ _suspended \subseteq Agents
  /\ burst \in BOOLEAN /\ caller \in Threads \cup {NoThread}

\* No agent pays for another: the service marks an agent for suspension only after
\* enough events of that agent itself, in this life of the process, to fit its model
\* or to exceed its own burst limit (each agent has its scorer and its detector).
SuspendedForItsOwnEvents ==
  \A a \in _suspended :
    \/ _histories[a] >= MIN_FIT_SAMPLES
    \/ _histories[a] + scored[a] > BurstLimit

\* Why it holds: a detector counts no more than what was recorded for its agent, and
\* a model is fitted to as much as it needs.
CountsItsOwnEvents ==
  \A a \in Agents :
    /\ fitted[a] => _histories[a] >= MIN_FIT_SAMPLES
    /\ _histories[a] = MaxLen \/ _count[a] <= _histories[a] + scored[a]

\* A dead or slow identity API never stops the scoring, nor does a record that is no
\* AuditEvent: a service that keeps its consumer catches up with the topic again and
\* again (the request has a timeout and every failure is caught).  What does stop it
\* is the premise: a crash, a failed start, a record that is not JSON.
ScorerKeepsUp == <>[]Consuming => []<>(apc = "idle" /\ position = Len(log))

\* The service's request to suspend a has reached the API.
Alarmed(a) ==
  caller \in Threads /\ thread[caller].pc = "sadd" /\ thread[caller].agent = a

\* A request that reached the API suspends the agent or ends in 503, also when the
\* service gives up waiting or crashes, and whatever operators do meanwhile.
AlarmReachesRedis ==
  \A a \in Agents :
    Alarmed(a) ~> \/ a \in suspended
                  \/ \E w \in Threads : thread[w].pc = "503" /\ thread[w].agent = a

\* What the PEP relies on to let agents pass while Redis is down: a breach of an
\* agent that is not suspended is not ignored.
BreachResuspends ==
  [][\A a \in Agents : IgnoreAlarm(a) => a \in suspended]_vars

\* The inductive invariant behind the safety properties.
IInv ==
  /\ TypeOK
  /\ BooksBalance
  /\ SuspendedHasReason /\ DeletesNoReason
  /\ SuspendedForItsOwnEvents /\ CountsItsOwnEvents

=============================================================================
