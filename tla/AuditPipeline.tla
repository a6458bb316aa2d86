--------------------------- MODULE AuditPipeline ----------------------------
(***************************************************************************)
(* The way of an audit event: hash-chained and sent by an AuditProducer    *)
(* (audit/producer.py), kept by Kafka, written to PostgreSQL by the        *)
(* consumer (audit/consumer.py), read back and verified by the audit API   *)
(* (audit/api.py, audit/schema.py).                                        *)
(*                                                                         *)
(* SHA-256 is taken to be free of collisions: the hash of an event is the  *)
(* sequence of everything that went into it, the hash of its predecessor   *)
(* first.  An event's id is its place in the order of creation, which is   *)
(* also the order of timestamps.                                           *)
(***************************************************************************)
EXTENDS Integers, Sequences

CONSTANTS
  Producers,     \* audit producers, one per agent instance
  AgentOf,       \* the identity a producer publishes for
  Decisions,     \* values of the decision field
  DictResults,   \* values of "execution_result is a dict": {FALSE} or BOOLEAN
  PublishMayFail, \* Kafka may be away from a producer
  DbMayFail,     \* the consumer may lose PostgreSQL, or one INSERT may fail
  Alterable,     \* fields a row may have changed in outside the application
  MaxEvents,     \* bound: events published
  MaxRestarts,   \* bound: restarts of each producer
  MaxCrashes     \* bound: consumer processes that end

\* "altered" stands for another decision than the one that was published.
ASSUME PipelineAssumption ==
  /\ DictResults \subseteq BOOLEAN
  /\ PublishMayFail \in BOOLEAN /\ DbMayFail \in BOOLEAN
  /\ Alterable \subseteq {"decision", "decision_reason"}
  /\ "altered" \notin Decisions
  /\ MaxEvents \in Nat /\ MaxRestarts \in Nat /\ MaxCrashes \in Nat

VARIABLES
  lastHash,   \* [producer] _last_hash
  fallback,   \* [producer] _fallback
  connected,  \* [producer] _kafka is not None
  restarts,   \* [producer] how often its process was restarted
  topic,      \* the Kafka log of nhi.audit.events, one partition
  cpc,        \* the consumer: "down", "poll" or "persist"
  conn,       \* the consumer's one PostgreSQL connection works
  position,   \* the consumer's position: records handed out by poll()
  done,       \* records of them the loop is through with
  committed,  \* the group's committed offset
  crashes,    \* how often the consumer ended
  store,      \* the rows of audit_events
  altered,    \* history: ids of rows whose decision was changed
  dropped,    \* history: ids whose INSERT failed
  sent        \* history: every event published, in order

producerVars == <<lastHash, fallback, connected, restarts>>
consumerVars == <<cpc, conn, position, done, committed, crashes>>
vars == <<producerVars, topic, consumerVars, store, altered, dropped, sent>>

GENESIS_HASH == <<>>

\* Mutant: the decision is not covered by the hash.
MutHashWithoutDecision(e) == Append(e.previous_event_hash, <<e.id, e.agent>>)

\* compute_event_hash: id, timestamp, the request, the decision and the
\* predecessor's hash; decision_reason and execution_result are not covered.
compute_event_hash(e) == Append(e.previous_event_hash, <<e.id, e.agent, e.decision>>)

Init ==
  /\ lastHash = [p \in Producers |-> GENESIS_HASH]
  /\ fallback = [p \in Producers |-> <<>>]
  /\ connected \in [Producers -> IF PublishMayFail THEN BOOLEAN ELSE {TRUE}]
  /\ restarts = [p \in Producers |-> 0]
  /\ topic = <<>>
  /\ cpc = "down"
  /\ conn = FALSE
  /\ position = 0 /\ done = 0 /\ committed = 0 /\ crashes = 0
  /\ store = {}
  /\ altered = {}
  /\ dropped = {}
  /\ sent = <<>>

-----------------------------------------------------------------------------
(* AuditProducer                                                           *)

\* The event publish() completes: chained to the last one, then hashed.
Chained(p, d, dict) ==
  LET e == [id |-> Len(sent) + 1, agent |-> AgentOf[p], producer |-> p,
            incarnation |-> restarts[p], decision |-> d,
            decision_reason |-> "given", dict |-> dict,
            previous_event_hash |-> lastHash[p], event_hash |-> <<>>]
  IN  [e EXCEPT !.event_hash = compute_event_hash(e)]

\* Mutant: the chain head moves only when Kafka acknowledged the event.
MutChainOnAck(p, d, dict) ==
  LET e == Chained(p, d, dict) IN
    /\ Len(sent) < MaxEvents
    /\ sent' = Append(sent, e)
    /\ \/ /\ connected[p]
          /\ topic' = Append(topic, e)
          /\ lastHash' = [lastHash EXCEPT ![p] = e.event_hash]
          /\ UNCHANGED fallback
       \/ /\ ~connected[p] \/ PublishMayFail
          /\ topic' \in {topic} \cup (IF connected[p] THEN {Append(topic, e)} ELSE {})
          /\ fallback' = [fallback EXCEPT ![p] = Append(@, e)]
          /\ UNCHANGED lastHash
    /\ UNCHANGED <<connected, restarts, consumerVars, store, altered, dropped>>

\* publish().  The send is acknowledged; or it fails; or future.get times out
\* on a record the broker did append.  Without a connection nothing is sent.
Publish(p, d, dict) ==
  LET e == Chained(p, d, dict) IN
    /\ Len(sent) < MaxEvents
    /\ sent' = Append(sent, e)
    /\ lastHash' = [lastHash EXCEPT ![p] = e.event_hash]
    /\ \/ /\ connected[p]
          /\ topic' = Append(topic, e)
          /\ UNCHANGED fallback
       \/ /\ ~connected[p] \/ PublishMayFail
          /\ topic' \in {topic} \cup (IF connected[p] THEN {Append(topic, e)} ELSE {})
          /\ fallback' = [fallback EXCEPT ![p] = Append(@, e)]
    /\ UNCHANGED <<connected, restarts, consumerVars, store, altered, dropped>>

\* The agent's process ends and a new one builds its AuditProducer: the chain
\* starts over, the fallback queue is gone, one attempt to connect is made.
RestartProducer(p) ==
  /\ restarts[p] < MaxRestarts
  /\ restarts' = [restarts EXCEPT ![p] = @ + 1]
  /\ lastHash' = [lastHash EXCEPT ![p] = GENESIS_HASH]
  /\ fallback' = [fallback EXCEPT ![p] = <<>>]
  /\ \E c \in IF PublishMayFail THEN BOOLEAN ELSE {TRUE} :
       connected' = [connected EXCEPT ![p] = c]
  /\ UNCHANGED <<topic, consumerVars, store, altered, dropped, sent>>

-----------------------------------------------------------------------------
(* run_consumer                                                            *)

\* A fresh connection to PostgreSQL; Kafka resumes at the committed offset.
StartConsumer ==
  /\ cpc = "down"
  /\ crashes < MaxCrashes
  /\ cpc' = "poll"
  /\ conn' = TRUE
  /\ position' = committed
  /\ done' = committed
  /\ UNCHANGED <<committed, crashes, producerVars, topic, store, altered, dropped, sent>>

\* Mutant: poll() commits the records it is about to hand out.
MutCommitEarly ==
  /\ cpc = "poll"
  /\ position < Len(topic)
  /\ position' \in (position + 1)..Len(topic)
  /\ committed' \in {committed, position'}
  /\ cpc' = "persist"
  /\ UNCHANGED <<conn, done, crashes, producerVars, topic, store, altered, dropped, sent>>

\* poll() returns records.  When the auto-commit interval is over it commits
\* the position first, that is, the records of earlier polls.
Poll ==
  /\ cpc = "poll"
  /\ position < Len(topic)
  /\ committed' \in {committed, position}
  /\ position' \in (position + 1)..Len(topic)
  /\ cpc' = "persist"
  /\ UNCHANGED <<conn, done, crashes, producerVars, topic, store, altered, dropped, sent>>

\* poll() times out with nothing, and may commit as well.
PollEmpty ==
  /\ cpc = "poll"
  /\ committed # position
  /\ committed' = position
  /\ UNCHANGED <<cpc, conn, position, done, crashes, producerVars, topic, store,
                 altered, dropped, sent>>

\* Mutant: the INSERT does not look for an earlier row of the event.
MutPlainInsert ==
  /\ cpc = "persist"
  /\ LET e == topic[done + 1] IN
       \/ conn /\ store' = store \cup {e} /\ UNCHANGED dropped
       \/ (~conn \/ DbMayFail) /\ dropped' = dropped \cup {e.id} /\ UNCHANGED store
  /\ done' = done + 1
  /\ cpc' = IF done' = position THEN "poll" ELSE "persist"
  /\ UNCHANGED <<conn, position, committed, crashes, producerVars, topic, altered, sent>>

\* Mutant: a failed INSERT is tried again and again on the same connection.
MutRetryForever ==
  /\ cpc = "persist"
  /\ conn
  /\ LET e == topic[done + 1] IN
       store' = IF \E row \in store : row.id = e.id THEN store ELSE store \cup {e}
  /\ done' = done + 1
  /\ cpc' = IF done' = position THEN "poll" ELSE "persist"
  /\ UNCHANGED <<conn, position, committed, crashes, producerVars, topic, altered,
                 dropped, sent>>

\* One record of the batch: INSERT ... ON CONFLICT (event_id) DO NOTHING.  An
\* error is logged and the loop goes on.
Persist ==
  /\ cpc = "persist"
  /\ LET e == topic[done + 1] IN
       \/ /\ conn
          /\ store' = IF \E row \in store : row.id = e.id THEN store ELSE store \cup {e}
          /\ UNCHANGED dropped
       \/ /\ ~conn \/ DbMayFail
          /\ dropped' = dropped \cup {e.id}
          /\ UNCHANGED store
  /\ done' = done + 1
  /\ cpc' = IF done' = position THEN "poll" ELSE "persist"
  /\ UNCHANGED <<conn, position, committed, crashes, producerVars, topic, altered, sent>>

\* PostgreSQL drops the connection, which is never opened again.
LoseConnection ==
  /\ DbMayFail
  /\ cpc # "down" /\ conn
  /\ conn' = FALSE
  /\ UNCHANGED <<cpc, position, done, committed, crashes, producerVars, topic,
                 store, altered, dropped, sent>>

\* Mutant: close() commits the end of the log.
MutCommitEnd ==
  /\ cpc = "poll"
  /\ committed' = Len(topic)
  /\ cpc' = "down"
  /\ crashes' = crashes + 1
  /\ conn' = FALSE
  /\ UNCHANGED <<position, done, producerVars, topic, store, altered, dropped, sent>>

\* A signal ends the loop after the current batch; close() commits.
Shutdown ==
  /\ cpc = "poll"
  /\ committed' = position
  /\ cpc' = "down"
  /\ crashes' = crashes + 1
  /\ conn' = FALSE
  /\ UNCHANGED <<position, done, producerVars, topic, store, altered, dropped, sent>>

Crash ==
  /\ cpc # "down"
  /\ cpc' = "down"
  /\ crashes' = crashes + 1
  /\ conn' = FALSE
  /\ UNCHANGED <<position, done, committed, producerVars, topic, store, altered,
                 dropped, sent>>

-----------------------------------------------------------------------------
(* The store and its verification                                          *)

\* A row is changed behind the application's back (init.sql has a trigger that
\* keeps the application itself from doing it).
AlterRow(row, field) ==
  /\ field \in Alterable
  /\ store' = (store \ {row}) \cup
       {IF field = "decision" THEN [row EXCEPT !.decision = "altered"]
        ELSE [row EXCEPT !.decision_reason = "altered"]}
  /\ altered' = IF field = "decision" THEN altered \cup {row.id} ELSE altered
  /\ UNCHANGED <<producerVars, topic, consumerVars, dropped, sent>>

Rows(a) == {row \in store : row.agent = a}

\* Neighbours in ORDER BY timestamp.
Adjacent(e, f, rows) == e.id < f.id /\ ~\E g \in rows : e.id < g.id /\ g.id < f.id

\* Mutant: events are verified one by one.
MutHashesOnly(rows) == \A e \in rows : compute_event_hash(e) = e.event_hash

\* Mutant: a row without a predecessor may begin a chain anywhere.
MutGenesisAnywhere(rows) ==
  /\ \A e \in rows : compute_event_hash(e) = e.event_hash
  /\ \A e, f \in rows : Adjacent(e, f, rows) =>
       f.previous_event_hash \in {e.event_hash, GENESIS_HASH}

verify_chain(rows) ==
  /\ \A e \in rows : compute_event_hash(e) = e.event_hash
  /\ \A e, f \in rows : Adjacent(e, f, rows) => f.previous_event_hash = e.event_hash

\* GET /chain/verify/{agent_id}.  A JSONB column comes back as text, which
\* AuditEvent.model_validate refuses for a row that has an execution_result.
verify_endpoint(a) ==
  IF \E row \in Rows(a) : row.dict THEN "503"
  ELSE IF verify_chain(Rows(a)) THEN "valid" ELSE "invalid"

-----------------------------------------------------------------------------

ProducerStep == \E p \in Producers :
  RestartProducer(p) \/ \E d \in Decisions, dict \in DictResults : Publish(p, d, dict)

ConsumerStep == Poll \/ PollEmpty \/ Persist

Next ==
  \/ ProducerStep
  \/ StartConsumer \/ ConsumerStep \/ LoseConnection \/ Shutdown \/ Crash
  \/ \E row \in store, field \in Alterable : AlterRow(row, field)

Spec == Init /\ [][Next]_vars

\* A running consumer keeps polling and working off what it got.
FairSpec == Spec /\ WF_vars(Poll) /\ WF_vars(Persist)

-----------------------------------------------------------------------------
(* Properties                                                              *)

Agents == {AgentOf[p] : p \in Producers}
Ids(S) == {e.id : e \in S}
Elements(seq) == {seq[i] : i \in 1..Len(seq)}

\* Offsets are in order and inside the log, nothing is in the log or in a
\* fallback queue that was not sent, and rows have their ids from the log.
TypeOK ==
  /\ committed \in Nat /\ committed <= position /\ position <= Len(topic)
  /\ done \in Nat /\ done <= position
  /\ cpc \in {"down", "poll", "persist"}
  /\ cpc = "poll" => done = position
  /\ cpc = "persist" => done < position
  /\ Elements(topic) \subseteq Elements(sent)
  /\ \A p \in Producers : Elements(fallback[p]) \subseteq Elements(sent)
  /\ Ids(store) \cup dropped \subseteq Ids(Elements(topic))

\* The log entry was written to PostgreSQL, or given up with an error message.
Settled(i) == topic[i].id \in Ids(store) \cup dropped

\* At-least-once: whatever the consumer's crashes, an offset is committed only
\* after every event below it was stored or its INSERT was tried and failed.
CommittedIsSettled == \A i \in 1..committed : Settled(i)

\* A redelivered event is not stored twice, not even when the row was changed
\* in between.
OneRowPerEvent == \A e, f \in store : e.id = f.id => e = f

\* All events of agent a came from one producer process, and no row of a has a
\* predecessor that is missing.
Unbroken(a) ==
  /\ \A e, f \in Elements(sent) : e.agent = a /\ f.agent = a =>
       e.producer = f.producer /\ e.incarnation = f.incarnation
  /\ \A e \in Elements(sent), row \in Rows(a) :
       e.agent = a /\ e.id < row.id => e.id \in Ids(store)

\* No false alarm: rows that one process sent, that are complete and whose
\* decision nobody changed verify, however often they were delivered, unless
\* the API cannot read one of them back.
UnbrokenVerifies ==
  \A a \in Agents :
    /\ Unbroken(a)
    /\ altered \cap Ids(Rows(a)) = {}
    /\ \A row \in Rows(a) : ~row.dict
    => verify_endpoint(a) = "valid"

\* No silent gap: when the rows of an agent verify, no event that the same
\* process sent between two of them is missing.
VerifiedHasNoGap ==
  \A a \in Agents : verify_endpoint(a) = "valid" =>
    \A e, f \in Rows(a), g \in Elements(sent) :
      /\ g.producer = e.producer /\ g.incarnation = e.incarnation
      /\ e.id < g.id /\ g.id < f.id
      => g.id \in Ids(store)

\* The rows of two processes of an identity, or of one before and after its
\* restart, never verify, although nobody altered anything: each process chains
\* from the genesis hash, and the API reads an identity's rows as one chain.
VerifiedIsOneProcess ==
  \A a \in Agents : verify_endpoint(a) = "valid" =>
    \A e, f \in Rows(a) : e.producer = f.producer /\ e.incarnation = f.incarnation

\* A changed decision is found, whichever row it is in.
AlterationIsDetected ==
  \A a \in Agents : altered \cap Ids(Rows(a)) # {} => verify_endpoint(a) # "valid"

\* A consumer that stays up settles every event of the log.
EveryEventSettles ==
  <>[](cpc # "down") =>
    \A i \in 1..MaxEvents : (Len(topic) >= i) ~> (Len(topic) >= i /\ Settled(i))

=============================================================================
