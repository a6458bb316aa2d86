------------------------ MODULE AuditPipelineProofs -------------------------
(* What AuditPipeline guarantees for any number of producers, events,      *)
(* restarts and crashes.                                                   *)
EXTENDS AuditPipeline, LeastNumber, SequenceTheorems, TLAPS

\* What goes into a hash besides the predecessor's hash.
Link == Nat \X Agents \X Decisions

Event ==
  [id : Nat, agent : Agents, producer : Producers, incarnation : Nat,
   decision : Decisions, decision_reason : {"given"}, dict : BOOLEAN,
   previous_event_hash : Seq(Link), event_hash : Seq(Link)]

Row ==
  [id : Nat, agent : Agents, producer : Producers, incarnation : Nat,
   decision : Decisions \cup {"altered"}, decision_reason : {"given", "altered"},
   dict : BOOLEAN, previous_event_hash : Seq(Link), event_hash : Seq(Link)]

Typed ==
  /\ lastHash \in [Producers -> Seq(Link)]
  /\ fallback \in [Producers -> Seq(Event)]
  /\ connected \in [Producers -> BOOLEAN]
  /\ restarts \in [Producers -> Nat]
  /\ topic \in Seq(Event) /\ sent \in Seq(Event)
  /\ store \in SUBSET Row
  /\ position \in Nat /\ crashes \in Nat
  /\ altered \in SUBSET Nat /\ dropped \in SUBSET Nat

\* An event carries its place, its identity and its hash; the log and the
\* fallback queues hold events as they were sent.
SentIsHashed ==
  /\ \A i \in 1..Len(sent) :
       /\ sent[i].id = i
       /\ sent[i].agent = AgentOf[sent[i].producer]
       /\ sent[i].event_hash = compute_event_hash(sent[i])
       /\ sent[i].incarnation <= restarts[sent[i].producer]
  /\ \A i \in 1..Len(topic) :
       topic[i].id \in 1..Len(sent) /\ topic[i] = sent[topic[i].id]
  /\ \A p \in Producers : \A i \in 1..Len(fallback[p]) :
       fallback[p][i].id \in 1..Len(sent) /\ fallback[p][i] = sent[fallback[p][i].id]

\* The i-th event of s was sent by incarnation n of producer p.
IsOf(s, i, p, n) == s[i].producer = p /\ s[i].incarnation = n

\* h is the hash of the last event of s below i of incarnation n of p, if any.
LinksTo(s, h, p, n, i) ==
  \/ h = GENESIS_HASH /\ \A j \in 1..(i - 1) : ~IsOf(s, j, p, n)
  \/ \E j \in 1..(i - 1) :
       /\ IsOf(s, j, p, n) /\ h = s[j].event_hash
       /\ \A k \in (j + 1)..(i - 1) : ~IsOf(s, k, p, n)

\* Every event is chained to the one its process sent before it, and the chain
\* head of a producer is the hash of the last event of its process.
ChainKept ==
  /\ \A i \in 1..Len(sent) : LinksTo(sent, sent[i].previous_event_hash,
                               sent[i].producer, sent[i].incarnation, i)
  /\ \A p \in Producers : LinksTo(sent, lastHash[p], p, restarts[p], Len(sent) + 1)

\* A row is an event that was sent, but for the fields that may be altered; its
\* decision is the event's unless its id is among the given ones.
FromSent(row, ids) ==
  LET e == sent[row.id] IN
    /\ row.id \in 1..Len(sent)
    /\ row.agent = e.agent /\ row.producer = e.producer
    /\ row.incarnation = e.incarnation
    /\ row.previous_event_hash = e.previous_event_hash
    /\ row.event_hash = e.event_hash
    /\ row.decision = IF row.id \in ids THEN "altered" ELSE e.decision

RowsFromSent ==
  /\ \A row \in store : FromSent(row, altered)
  /\ altered \subseteq Ids(store)

\* What the loop is through with is settled, and no more is ever committed.
DoneIsSettled == committed <= done /\ \A i \in 1..done : Settled(i)

\* The inductive invariant.
IInv ==
  /\ TypeOK /\ Typed /\ SentIsHashed /\ ChainKept
  /\ RowsFromSent /\ DoneIsSettled /\ OneRowPerEvent

-----------------------------------------------------------------------------
(* Sequences                                                               *)

\* What Append does to the elements of a sequence.
LEMMA Appended ==
  ASSUME NEW S, NEW s \in Seq(S), NEW e \in S
  PROVE  /\ Append(s, e) \in Seq(S)
         /\ Len(s) \in Nat /\ Len(Append(s, e)) = Len(s) + 1
         /\ \A i \in 1..Len(s) : Append(s, e)[i] = s[i]
         /\ Append(s, e)[Len(s) + 1] = e
         /\ Elements(Append(s, e)) = Elements(s) \cup {e}
<1>1. /\ Append(s, e) \in Seq(S)
      /\ Len(s) \in Nat /\ Len(Append(s, e)) = Len(s) + 1
      /\ \A i \in 1..Len(s) : Append(s, e)[i] = s[i]
      /\ Append(s, e)[Len(s) + 1] = e
  BY AppendProperties, LenProperties
<1>2. 1..(Len(s) + 1) = 1..Len(s) \cup {Len(s) + 1}
  BY <1>1
<1>3. QED
  BY <1>1, <1>2 DEF Elements

\* No collisions: equal hashes have hashed the same event.
LEMMA HashInjective ==
  ASSUME NEW S, NEW s \in Seq(S), NEW t \in Seq(S), NEW x \in S, NEW y \in S,
         Append(s, x) = Append(t, y)
  PROVE  x = y
BY AppendProperties

-----------------------------------------------------------------------------

LEMMA InitIInv == Init => IInv
<1> SUFFICES ASSUME Init PROVE IInv
  OBVIOUS
<1> USE PipelineAssumption DEF Init, GENESIS_HASH
<1>1. Len(sent) = 0 /\ Len(topic) = 0 /\ \A p \in Producers : Len(fallback[p]) = 0
  OBVIOUS
<1>2. TypeOK
  BY <1>1 DEF TypeOK, Elements, Ids
<1>3. Typed
  <2>1. connected \in [Producers -> BOOLEAN]
    OBVIOUS
  <2>2. <<>> \in Seq(Link) /\ <<>> \in Seq(Event)
    BY EmptySeq
  <2>3. QED
    BY <2>1, <2>2 DEF Typed
<1>4. SentIsHashed /\ ChainKept
  BY <1>1 DEF SentIsHashed, ChainKept, LinksTo
<1>5. RowsFromSent /\ DoneIsSettled /\ OneRowPerEvent
  BY DEF RowsFromSent, DoneIsSettled, OneRowPerEvent
<1>6. QED
  BY <1>2, <1>3, <1>4, <1>5 DEF IInv

-----------------------------------------------------------------------------
(* The producers                                                           *)

\* Filling in the hash leaves the other fields.
LEMMA HashFilledIn ==
  ASSUME NEW e \in Event, NEW h \in Seq(Link)
  PROVE  LET f == [e EXCEPT !.event_hash = h] IN
           /\ f \in Event /\ f.id = e.id /\ f.agent = e.agent
           /\ f.producer = e.producer /\ f.incarnation = e.incarnation
           /\ f.decision = e.decision
           /\ f.previous_event_hash = e.previous_event_hash /\ f.event_hash = h
BY DEF Event

\* What publish() puts together.
LEMMA ChainedEvent ==
  ASSUME IInv, NEW p \in Producers, NEW d \in Decisions, NEW dict \in DictResults
  PROVE  LET e == Chained(p, d, dict) IN
           /\ e \in Event /\ e.id = Len(sent) + 1
           /\ e.agent = AgentOf[p] /\ e.producer = p /\ e.incarnation = restarts[p]
           /\ e.previous_event_hash = lastHash[p]
           /\ e.event_hash = compute_event_hash(e)
<1> DEFINE e0 == [id |-> Len(sent) + 1, agent |-> AgentOf[p], producer |-> p,
             incarnation |-> restarts[p], decision |-> d,
             decision_reason |-> "given", dict |-> dict,
             previous_event_hash |-> lastHash[p], event_hash |-> <<>>]
           h == compute_event_hash(e0)
<1>1. /\ Len(sent) \in Nat /\ dict \in BOOLEAN /\ AgentOf[p] \in Agents
      /\ restarts[p] \in Nat /\ lastHash[p] \in Seq(Link) /\ <<>> \in Seq(Link)
  BY PipelineAssumption, LenProperties, EmptySeq DEF IInv, Typed, Agents
<1>2. /\ e0 \in Event /\ e0.id = Len(sent) + 1 /\ e0.agent = AgentOf[p]
      /\ e0.producer = p /\ e0.incarnation = restarts[p] /\ e0.decision = d
      /\ e0.previous_event_hash = lastHash[p]
  BY <1>1 DEF Event
<1>3. Chained(p, d, dict) = [e0 EXCEPT !.event_hash = h]
  BY DEF Chained
<1> HIDE DEF e0
<1>4. h = Append(lastHash[p], <<Len(sent) + 1, AgentOf[p], d>>)
  BY <1>2 DEF compute_event_hash
<1>5. <<Len(sent) + 1, AgentOf[p], d>> \in Link
  BY <1>1 DEF Link
<1>6. h \in Seq(Link)
  BY <1>1, <1>4, <1>5, AppendProperties
<1> HIDE DEF h
<1> DEFINE f == [e0 EXCEPT !.event_hash = h]
<1>7. /\ f \in Event /\ f.id = Len(sent) + 1 /\ f.agent = AgentOf[p]
      /\ f.producer = p /\ f.incarnation = restarts[p] /\ f.decision = d
      /\ f.previous_event_hash = lastHash[p] /\ f.event_hash = h
  BY <1>2, <1>6, HashFilledIn
<1>8. Chained(p, d, dict) = f
  BY <1>3
<1> HIDE DEF f
<1>9. QED
  BY <1>4, <1>7, <1>8 DEF compute_event_hash

\* What was said of events below i stays true when one is added at the end.
LEMMA LinksKept ==
  ASSUME IInv, NEW e \in Event, sent' = Append(sent, e),
         NEW h, NEW p, NEW n, NEW i \in 1..(Len(sent) + 1), LinksTo(sent, h, p, n, i)
  PROVE  LinksTo(sent', h, p, n, i)
<1>1. Len(sent) \in Nat /\ \A j \in 1..Len(sent) : sent'[j] = sent[j]
  BY Appended DEF IInv, Typed
<1>2. \A j \in 1..(i - 1) : j \in 1..Len(sent) /\ (IsOf(sent', j, p, n) <=> IsOf(sent, j, p, n))
  BY <1>1 DEF IsOf
<1>3. CASE h = GENESIS_HASH /\ \A j \in 1..(i - 1) : ~IsOf(sent, j, p, n)
  BY <1>2, <1>3 DEF LinksTo
<1>4. ASSUME NEW j \in 1..(i - 1), IsOf(sent, j, p, n), h = sent[j].event_hash,
             \A k \in (j + 1)..(i - 1) : ~IsOf(sent, k, p, n)
      PROVE  LinksTo(sent', h, p, n, i)
  <2>1. \A k \in (j + 1)..(i - 1) : k \in 1..(i - 1)
    BY <1>1
  <2>2. QED
    BY <1>1, <1>2, <1>4, <2>1 DEF LinksTo
<1>5. QED
  BY <1>3, <1>4 DEF LinksTo

\* publish() adds one event, chained to the last one of its process, to the
\* history, and to the log, to the fallback queue or to both.
LEMMA PublishKeeps ==
  ASSUME IInv, NEW p \in Producers, NEW d \in Decisions, NEW dict \in DictResults,
         Publish(p, d, dict)
  PROVE  IInv'
<1> DEFINE e == Chained(p, d, dict)
<1>1. /\ sent' = Append(sent, e)
      /\ lastHash' = [lastHash EXCEPT ![p] = e.event_hash]
      /\ topic' \in {topic, Append(topic, e)}
      /\ fallback' \in {fallback, [fallback EXCEPT ![p] = Append(fallback[p], e)]}
      /\ UNCHANGED <<connected, restarts, consumerVars, store, altered, dropped>>
  BY DEF Publish
<1>2. /\ e \in Event /\ e.id = Len(sent) + 1
      /\ e.agent = AgentOf[p] /\ e.producer = p /\ e.incarnation = restarts[p]
      /\ e.previous_event_hash = lastHash[p]
      /\ e.event_hash = compute_event_hash(e)
  BY ChainedEvent
<1> HIDE DEF e
<1>3. /\ sent' \in Seq(Event) /\ Len(sent) \in Nat /\ Len(sent') = Len(sent) + 1
      /\ \A i \in 1..Len(sent) : sent'[i] = sent[i]
      /\ sent'[Len(sent) + 1] = e /\ Elements(sent') = Elements(sent) \cup {e}
  BY <1>1, <1>2, Appended DEF IInv, Typed
<1>4. /\ topic' \in Seq(Event) /\ Len(topic) \in Nat /\ Len(topic') >= Len(topic)
      /\ Len(topic') \in Nat
      /\ \A i \in 1..Len(topic) : topic'[i] = topic[i]
      /\ \A i \in 1..Len(topic') : i \notin 1..Len(topic) => topic'[i] = e
      /\ Elements(topic) \subseteq Elements(topic')
      /\ Elements(topic') \subseteq Elements(topic) \cup {e}
  <2>1. topic \in Seq(Event) /\ Len(topic) \in Nat
    BY LenProperties DEF IInv, Typed
  <2>2. CASE topic' = topic
    BY <2>1, <2>2
  <2>3. CASE topic' = Append(topic, e)
    BY <1>2, <2>1, <2>3, Appended
  <2>4. QED
    BY <1>1, <2>2, <2>3
<1>5. ASSUME NEW q \in Producers
      PROVE  /\ fallback'[q] \in Seq(Event)
             /\ \A i \in 1..Len(fallback'[q]) :
                  \/ i \in 1..Len(fallback[q]) /\ fallback'[q][i] = fallback[q][i]
                  \/ fallback'[q][i] = e
             /\ Elements(fallback'[q]) \subseteq Elements(fallback[q]) \cup {e}
  <2>1. fallback[q] \in Seq(Event) /\ Len(fallback[q]) \in Nat
    BY LenProperties DEF IInv, Typed
  <2>2. CASE fallback'[q] = fallback[q]
    BY <2>1, <2>2
  <2>3. CASE fallback'[q] = Append(fallback[q], e)
    BY <1>2, <2>1, <2>3, Appended
  <2>4. fallback'[q] \in {fallback[q], Append(fallback[q], e)}
    BY <1>1 DEF IInv, Typed
  <2>5. QED
    BY <2>2, <2>3, <2>4
<1>6. TypeOK'
  <2>1. \A q \in Producers : Elements(fallback'[q]) \subseteq Elements(sent')
    BY <1>3, <1>5 DEF IInv, TypeOK
  <2>2. Elements(topic') \subseteq Elements(sent')
    BY <1>3, <1>4 DEF IInv, TypeOK
  <2>3. Ids(store') \cup dropped' \subseteq Ids(Elements(topic'))
    BY <1>1, <1>4 DEF IInv, TypeOK, Ids
  <2>4. QED
    BY <1>1, <1>4, <2>1, <2>2, <2>3 DEF IInv, TypeOK, Typed, consumerVars
<1>7. Typed'
  <2>1. e.event_hash \in Seq(Link)
    BY <1>2 DEF Event
  <2>2. fallback' \in [Producers -> Seq(Event)]
    BY <1>1, <1>5 DEF IInv, Typed
  <2>3. QED
    BY <1>1, <1>3, <1>4, <2>1, <2>2 DEF IInv, Typed, consumerVars
<1>8. SentIsHashed'
  <2>1. ASSUME NEW i \in 1..Len(sent')
        PROVE  /\ sent'[i].id = i /\ sent'[i].agent = AgentOf[sent'[i].producer]
               /\ sent'[i].event_hash = compute_event_hash(sent'[i])
               /\ sent'[i].incarnation <= restarts'[sent'[i].producer]
    <3>1. CASE i \in 1..Len(sent)
      BY <1>1, <1>3, <3>1 DEF IInv, SentIsHashed
    <3>2. CASE i = Len(sent) + 1
      BY <1>1, <1>2, <1>3, <3>2 DEF IInv, Typed
    <3>3. QED
      BY <1>3, <3>1, <3>2
  <2>2. ASSUME NEW f, \/ f = e
                      \/ f.id \in 1..Len(sent) /\ f = sent[f.id]
        PROVE  f.id \in 1..Len(sent') /\ f = sent'[f.id]
    BY <1>2, <1>3, <2>2
  <2>3. ASSUME NEW i \in 1..Len(topic')
        PROVE  topic'[i].id \in 1..Len(sent') /\ topic'[i] = sent'[topic'[i].id]
    BY <1>4, <2>2 DEF IInv, SentIsHashed
  <2>4. ASSUME NEW q \in Producers, NEW i \in 1..Len(fallback'[q])
        PROVE  /\ fallback'[q][i].id \in 1..Len(sent')
               /\ fallback'[q][i] = sent'[fallback'[q][i].id]
    <3>1. CASE fallback'[q][i] = e
      BY <2>2, <3>1
    <3>2. CASE i \in 1..Len(fallback[q]) /\ fallback'[q][i] = fallback[q][i]
      BY <2>2, <3>2 DEF IInv, SentIsHashed
    <3>3. QED
      BY <1>5, <3>1, <3>2
  <2>5. QED
    BY <2>1, <2>3, <2>4 DEF SentIsHashed, compute_event_hash
<1>9. ChainKept'
  <2>1. ASSUME NEW i \in 1..Len(sent')
        PROVE  LinksTo(sent', sent'[i].previous_event_hash, sent'[i].producer,
                       sent'[i].incarnation, i)
    <3>1. CASE i \in 1..Len(sent)
      BY <1>1, <1>2, <1>3, <3>1, LinksKept DEF IInv, ChainKept
    <3>2. CASE i = Len(sent) + 1
      <4>1. LinksTo(sent', lastHash[p], p, restarts[p], i)
        BY <1>1, <1>2, <1>3, <3>2, LinksKept DEF IInv, ChainKept
      <4>2. QED
        BY <1>2, <1>3, <3>2, <4>1
    <3>3. QED
      BY <1>3, <3>1, <3>2
  <2>2. ASSUME NEW q \in Producers
        PROVE  LinksTo(sent', lastHash'[q], q, restarts'[q], Len(sent') + 1)
    <3> DEFINE n == Len(sent) + 1
    <3>1. Len(sent') + 1 = n + 1 /\ n \in Nat /\ sent'[n] = e
      BY <1>3
    <3>2. CASE q = p
      <4>1. IsOf(sent', n, p, restarts[p]) /\ lastHash'[p] = sent'[n].event_hash
        BY <1>1, <1>2, <3>1 DEF IsOf, IInv, Typed
      <4>2. n \in 1..(n + 1 - 1) /\ (n + 1)..(n + 1 - 1) = {}
        BY <3>1, <1>3
      <4> HIDE DEF n
      <4>3. QED
        BY <1>1, <3>1, <3>2, <4>1, <4>2 DEF LinksTo
    <3>3. CASE q # p
      <4>1. LinksTo(sent', lastHash[q], q, restarts[q], n)
        BY <1>1, <1>2, <1>3, LinksKept DEF IInv, ChainKept
      <4>2. ~IsOf(sent', n, q, restarts[q])
        BY <1>2, <3>1, <3>3 DEF IsOf
      <4>3. /\ lastHash'[q] = lastHash[q] /\ restarts'[q] = restarts[q]
            /\ 1..(n - 1) \subseteq 1..n /\ n \in 1..n
            /\ \A j \in 1..n : j \in 1..(n - 1) \/ j = n
            /\ \A j \in 1..n : \A k \in (j + 1)..n : k \in (j + 1)..(n - 1) \/ k = n
            /\ n + 1 - 1 = n
        BY <1>1, <1>3, <3>1, <3>3 DEF IInv, Typed
      <4> HIDE DEF n
      <4>4. QED
        BY <3>1, <4>1, <4>2, <4>3 DEF LinksTo
    <3>4. QED
      BY <3>2, <3>3
  <2>3. QED
    BY <2>1, <2>2 DEF ChainKept
<1>10. RowsFromSent'
  BY <1>1, <1>3 DEF IInv, RowsFromSent, FromSent, Ids
<1>11. DoneIsSettled' /\ OneRowPerEvent'
  <2>1. ASSUME NEW i \in 1..done PROVE Settled(i)'
    <3>1. Settled(i) /\ i \in 1..Len(topic)
      BY <1>4 DEF IInv, TypeOK, Typed, DoneIsSettled
    <3>2. QED
      BY <1>1, <1>4, <3>1 DEF Settled
  <2>2. QED
    BY <1>1, <2>1 DEF IInv, DoneIsSettled, OneRowPerEvent, consumerVars
<1>12. QED
  BY <1>6, <1>7, <1>8, <1>9, <1>10, <1>11 DEF IInv

\* A new process of p has sent nothing yet.
LEMMA RestartKeeps ==
  ASSUME IInv, NEW p \in Producers, RestartProducer(p) PROVE IInv'
<1>1. /\ restarts' = [restarts EXCEPT ![p] = restarts[p] + 1]
      /\ lastHash' = [lastHash EXCEPT ![p] = GENESIS_HASH]
      /\ fallback' = [fallback EXCEPT ![p] = <<>>]
      /\ \E c \in BOOLEAN : connected' = [connected EXCEPT ![p] = c]
      /\ UNCHANGED <<topic, consumerVars, store, altered, dropped, sent>>
  BY PipelineAssumption DEF RestartProducer
<1>2. Typed'
  BY <1>1, EmptySeq DEF IInv, Typed, GENESIS_HASH, consumerVars
<1>3. fallback'[p] = <<>> /\ Len(fallback'[p]) = 0 /\ Elements(fallback'[p]) = {}
  BY <1>1 DEF IInv, Typed, Elements
<1>4. \A q \in Producers \ {p} : fallback'[q] = fallback[q]
  BY <1>1 DEF IInv, Typed
<1>5. TypeOK'
  BY <1>1, <1>3, <1>4 DEF IInv, TypeOK, consumerVars
<1>6. /\ \A q \in Producers : /\ restarts[q] \in Nat /\ restarts'[q] \in Nat
                               /\ restarts[q] <= restarts'[q]
      /\ restarts[p] < restarts'[p]
  BY <1>1 DEF IInv, Typed
<1>7. ASSUME NEW i \in 1..Len(sent)
      PROVE  /\ sent[i].producer \in Producers /\ sent[i].incarnation \in Nat
             /\ sent[i].incarnation <= restarts[sent[i].producer]
  <2>1. sent[i] \in Event
    BY ElementOfSeq DEF IInv, Typed
  <2>2. QED
    BY <2>1 DEF Event, IInv, SentIsHashed
<1>8. SentIsHashed'
  <2>1. ASSUME NEW i \in 1..Len(sent)
        PROVE  sent[i].incarnation <= restarts'[sent[i].producer]
    <3>1. /\ sent[i].producer \in Producers /\ sent[i].incarnation \in Nat
          /\ sent[i].incarnation <= restarts[sent[i].producer]
      BY <1>7
    <3>2. QED
      BY <1>6, <3>1
  <2>2. \A i \in 1..Len(sent) : /\ sent[i].id = i
                                /\ sent[i].agent = AgentOf[sent[i].producer]
                                /\ sent[i].event_hash = compute_event_hash(sent[i])
    BY DEF IInv, SentIsHashed
  <2>3. \A i \in 1..Len(topic) :
          topic[i].id \in 1..Len(sent) /\ topic[i] = sent[topic[i].id]
    BY DEF IInv, SentIsHashed
  <2>4. ASSUME NEW q \in Producers, NEW i \in 1..Len(fallback'[q])
        PROVE  /\ fallback'[q][i].id \in 1..Len(sent)
               /\ fallback'[q][i] = sent[fallback'[q][i].id]
    <3>1. q # p
      BY <1>3, <2>4
    <3>2. QED
      BY <1>4, <2>4, <3>1 DEF IInv, SentIsHashed
  <2>5. UNCHANGED <<sent, topic>>
    BY <1>1
  <2>6. QED
    BY <2>1, <2>2, <2>3, <2>4, <2>5 DEF SentIsHashed, compute_event_hash
<1>9. ChainKept'
  <2>1. ASSUME NEW i \in 1..Len(sent), IsOf(sent, i, p, restarts'[p]) PROVE FALSE
    <3>1. sent[i].incarnation \in Nat /\ sent[i].incarnation <= restarts[p]
      BY <1>7, <2>1 DEF IsOf
    <3>2. QED
      BY <1>6, <2>1, <3>1 DEF IsOf
  <2>2. LinksTo(sent', lastHash'[p], p, restarts'[p], Len(sent') + 1)
    <3>1. Len(sent) \in Nat
      BY LenProperties DEF IInv, Typed
    <3>2. QED
      BY <1>1, <2>1, <3>1 DEF IInv, Typed, LinksTo
  <2>3. \A q \in Producers \ {p} : lastHash'[q] = lastHash[q] /\ restarts'[q] = restarts[q]
    BY <1>1 DEF IInv, Typed
  <2>4. QED
    BY <1>1, <2>2, <2>3 DEF IInv, ChainKept
<1>10. RowsFromSent' /\ DoneIsSettled' /\ OneRowPerEvent'
  BY <1>1 DEF IInv, RowsFromSent, FromSent, DoneIsSettled, Settled, OneRowPerEvent, consumerVars
<1>11. QED
  BY <1>2, <1>5, <1>8, <1>9, <1>10 DEF IInv

-----------------------------------------------------------------------------
(* The consumer                                                            *)

\* What a step leaves true when only offsets and the process change.
LEMMA OffsetsOnly ==
  ASSUME IInv, UNCHANGED <<producerVars, topic, store, altered, dropped, sent>>
  PROVE  /\ SentIsHashed' /\ ChainKept' /\ RowsFromSent' /\ OneRowPerEvent'
         /\ \A i : Settled(i) => Settled(i)'
<1> USE DEF producerVars, IInv
<1>1. SentIsHashed' /\ ChainKept'
  BY DEF SentIsHashed, ChainKept, compute_event_hash
<1>2. RowsFromSent' /\ OneRowPerEvent'
  BY DEF RowsFromSent, FromSent, OneRowPerEvent
<1>3. \A i : Settled(i) => Settled(i)'
  BY DEF Settled
<1>4. QED
  BY <1>1, <1>2, <1>3

\* Starting, polling, ending and losing the database: nothing is committed that
\* the loop was not through with.
LEMMA OffsetsKeep ==
  ASSUME IInv,
         StartConsumer \/ Poll \/ PollEmpty \/ LoseConnection \/ Shutdown \/ Crash
  PROVE  IInv'
<1>1. UNCHANGED <<producerVars, topic, store, altered, dropped, sent>>
  BY DEF StartConsumer, Poll, PollEmpty, LoseConnection, Shutdown, Crash
<1>2. /\ committed \in Nat /\ position \in Nat /\ done \in Nat /\ Len(topic) \in Nat
      /\ committed <= done /\ done <= position /\ position <= Len(topic)
      /\ cpc = "poll" => done = position
      /\ crashes \in Nat
  BY LenProperties DEF IInv, Typed, TypeOK, DoneIsSettled
<1>3. /\ committed' \in Nat /\ position' \in Nat /\ done' \in Nat
      /\ committed' <= done' /\ done' <= position' /\ position' <= Len(topic)
      /\ done' <= done /\ crashes' \in Nat
      /\ cpc' \in {"down", "poll", "persist"}
      /\ cpc' = "poll" => done' = position'
      /\ cpc' = "persist" => done' < position'
  <2>1. CASE StartConsumer
    BY <1>2, <2>1 DEF StartConsumer
  <2>2. CASE Poll
    BY <1>2, <2>2 DEF Poll
  <2>3. CASE PollEmpty \/ Shutdown
    BY <1>2, <2>3 DEF PollEmpty, Shutdown
  <2>4. CASE LoseConnection \/ Crash
    BY <1>2, <2>4 DEF LoseConnection, Crash, IInv, TypeOK
  <2>5. QED
    BY <2>1, <2>2, <2>3, <2>4
<1>4. TypeOK' /\ Typed'
  BY <1>1, <1>3 DEF IInv, TypeOK, Typed, producerVars
<1>5. DoneIsSettled'
  BY <1>1, <1>2, <1>3, OffsetsOnly DEF IInv, DoneIsSettled
<1>6. QED
  BY <1>1, <1>4, <1>5, OffsetsOnly DEF IInv

\* An INSERT adds the event of the log as it was sent, if no row has its id.
LEMMA PersistKeeps ==
  ASSUME IInv, Persist PROVE IInv'
<1> DEFINE e == topic[done + 1]
<1>1. /\ done \in Nat /\ position \in Nat /\ done < position /\ position <= Len(topic)
      /\ done + 1 \in 1..Len(topic) /\ committed \in Nat /\ committed <= done
  BY LenProperties DEF Persist, IInv, TypeOK, Typed, DoneIsSettled
<1>2. /\ e \in Event /\ e \in Elements(topic)
      /\ e.id \in 1..Len(sent) /\ e = sent[e.id]
  BY <1>1, ElementOfSeq DEF IInv, Typed, SentIsHashed, Elements
<1>3. /\ \/ /\ store' = IF \E row \in store : row.id = e.id THEN store ELSE store \cup {e}
            /\ dropped' = dropped
         \/ dropped' = dropped \cup {e.id} /\ store' = store
      /\ done' = done + 1 /\ cpc' = IF done' = position THEN "poll" ELSE "persist"
      /\ UNCHANGED <<position, committed, crashes, producerVars, topic, altered, sent>>
  BY DEF Persist
<1> HIDE DEF e
<1>4. Ids(store) \subseteq Ids(store') /\ dropped \subseteq dropped'
      /\ e.id \in Ids(store') \cup dropped'
      /\ Ids(store') \cup dropped' \subseteq Ids(store) \cup dropped \cup {e.id}
  BY <1>3 DEF Ids
<1>5. e.id \in Ids(Elements(topic))
  BY <1>2 DEF Ids
<1>6. TypeOK'
  BY <1>1, <1>3, <1>4, <1>5 DEF IInv, TypeOK, producerVars
<1>7. Typed'
  <2>1. e \in Row /\ e.id \in Nat
    BY <1>2 DEF Event, Row
  <2>2. QED
    BY <1>3, <2>1 DEF IInv, Typed, producerVars
<1>8. SentIsHashed' /\ ChainKept'
  BY <1>3 DEF IInv, SentIsHashed, ChainKept, compute_event_hash, producerVars
<1>9. RowsFromSent'
  <2>1. CASE store' = store
    BY <1>3, <2>1 DEF IInv, RowsFromSent, FromSent
  <2>2. CASE store' = store \cup {e} /\ ~\E row \in store : row.id = e.id
    <3>1. e.id \notin altered
      BY <2>2 DEF IInv, RowsFromSent, Ids
    <3>2. QED
      BY <1>2, <1>3, <1>4, <2>2, <3>1 DEF IInv, RowsFromSent, FromSent
  <2>3. QED
    BY <1>3, <2>1, <2>2
<1>10. OneRowPerEvent'
  BY <1>3 DEF IInv, OneRowPerEvent
<1>11. DoneIsSettled'
  <2>1. ASSUME NEW i \in 1..done' PROVE Settled(i)'
    <3>1. CASE i \in 1..done
      BY <1>3, <1>4, <3>1 DEF IInv, DoneIsSettled, Settled
    <3>2. CASE i = done + 1
      BY <1>3, <1>4, <3>2 DEF Settled, e
    <3>3. QED
      BY <1>1, <1>3, <3>1, <3>2
  <2>2. QED
    BY <1>1, <1>3, <2>1 DEF DoneIsSettled
<1>12. QED
  BY <1>6, <1>7, <1>8, <1>9, <1>10, <1>11 DEF IInv

-----------------------------------------------------------------------------
(* The rows                                                                *)

\* What changing one field leaves of a row.
LEMMA RowAltered ==
  ASSUME NEW row \in Row
  PROVE  LET r == [row EXCEPT !.decision = "altered"]
             s == [row EXCEPT !.decision_reason = "altered"]
         IN /\ r \in Row /\ r.id = row.id /\ r.agent = row.agent
            /\ r.producer = row.producer /\ r.incarnation = row.incarnation
            /\ r.previous_event_hash = row.previous_event_hash
            /\ r.event_hash = row.event_hash /\ r.decision = "altered"
            /\ s \in Row /\ s.id = row.id /\ s.agent = row.agent
            /\ s.producer = row.producer /\ s.incarnation = row.incarnation
            /\ s.previous_event_hash = row.previous_event_hash
            /\ s.event_hash = row.event_hash /\ s.decision = row.decision
BY DEF Row

\* A changed row stays the only row of its event.
LEMMA AlterRowKeeps ==
  ASSUME IInv, NEW row \in store, NEW field \in Alterable, AlterRow(row, field)
  PROVE  IInv'
<1>1. PICK new \in Row :
        /\ store' = (store \ {row}) \cup {new}
        /\ new.id = row.id /\ new.agent = row.agent /\ new.producer = row.producer
        /\ new.incarnation = row.incarnation /\ new.event_hash = row.event_hash
        /\ new.previous_event_hash = row.previous_event_hash
        /\ \/ altered' = altered \cup {row.id} /\ new.decision = "altered"
           \/ altered' = altered /\ new.decision = row.decision
  <2>1. row \in Row
    BY DEF IInv, Typed
  <2>2. CASE field = "decision"
    BY <2>1, <2>2, RowAltered DEF AlterRow
  <2>3. CASE field # "decision"
    BY <2>1, <2>3, RowAltered DEF AlterRow
  <2>4. QED
    BY <2>2, <2>3
<1>2. UNCHANGED <<producerVars, topic, consumerVars, dropped, sent>>
  BY DEF AlterRow
<1>3. Ids(store') = Ids(store)
  BY <1>1 DEF Ids
<1>4. row.id \in Ids(store) /\ row.id \in Nat
  BY DEF Ids, IInv, Typed, Row
<1>5. TypeOK' /\ Typed'
  BY <1>1, <1>2, <1>3, <1>4 DEF IInv, TypeOK, Typed, producerVars, consumerVars
<1>6. SentIsHashed' /\ ChainKept'
  BY <1>2 DEF IInv, SentIsHashed, ChainKept, compute_event_hash, producerVars
<1>7. OneRowPerEvent'
  BY <1>1 DEF IInv, OneRowPerEvent
<1>8. RowsFromSent'
  <2>1. altered' \subseteq Ids(store')
    BY <1>1, <1>3, <1>4 DEF IInv, RowsFromSent, FromSent
  <2>2. \A r \in store' : r = new \/ (r \in store /\ r.id # row.id)
    BY <1>1 DEF IInv, OneRowPerEvent
  <2>3. FromSent(row, altered)
    BY DEF IInv, RowsFromSent, FromSent
  <2>4. FromSent(new, altered')
    BY <1>1, <2>3 DEF FromSent
  <2>5. \A r \in store : r.id # row.id => FromSent(r, altered')
    BY <1>1 DEF IInv, RowsFromSent, FromSent
  <2>6. QED
    BY <1>2, <2>1, <2>2, <2>4, <2>5 DEF RowsFromSent, FromSent
<1>9. DoneIsSettled'
  BY <1>2, <1>3 DEF IInv, DoneIsSettled, Settled, consumerVars
<1>10. QED
  BY <1>5, <1>6, <1>7, <1>8, <1>9 DEF IInv

-----------------------------------------------------------------------------
(* Invariance                                                              *)

\* IInv holds in every reachable state.
THEOREM Inductive == Spec => []IInv
<1>1. IInv /\ [Next]_vars => IInv'
  <2> SUFFICES ASSUME IInv, [Next]_vars PROVE IInv'
    OBVIOUS
  <2>1. CASE UNCHANGED vars
    <3>1. UNCHANGED <<producerVars, topic, consumerVars, store, altered, dropped, sent>>
      BY <2>1 DEF vars
    <3>2. TypeOK' /\ Typed' /\ DoneIsSettled'
      BY <3>1, OffsetsOnly
         DEF IInv, TypeOK, Typed, DoneIsSettled, producerVars, consumerVars
    <3>3. QED
      BY <3>1, <3>2, OffsetsOnly DEF IInv
  <2>2. CASE Next
    BY <2>2, PublishKeeps, RestartKeeps, OffsetsKeep, PersistKeeps, AlterRowKeeps
       DEF Next, ProducerStep, ConsumerStep
  <2>3. QED
    BY <2>1, <2>2
<1>2. QED
  BY <1>1, InitIInv, PTL DEF Spec

\* The offsets of the consumer are in order and inside the log, and the log, the
\* fallback queues and the table hold nothing but events that were published.
THEOREM TypeCorrect == Spec => []TypeOK
<1>1. IInv => TypeOK
  BY DEF IInv
<1>2. QED
  BY <1>1, Inductive, PTL

\* At-least-once: wherever the consumer crashes, what the group has committed was
\* stored or given up with an error message.
THEOREM CommitsAreSettled == Spec => []CommittedIsSettled
<1>1. IInv => CommittedIsSettled
  BY DEF IInv, TypeOK, DoneIsSettled, CommittedIsSettled
<1>2. QED
  BY <1>1, Inductive, PTL

\* Redelivery after a crash never gives an event a second row.
THEOREM NoDuplicateRows == Spec => []OneRowPerEvent
<1>1. IInv => OneRowPerEvent
  BY DEF IInv
<1>2. QED
  BY <1>1, Inductive, PTL

-----------------------------------------------------------------------------
(* The chain                                                               *)

\* What the proofs below use of a row: the event it stems from.
LEMMA RowOrigin ==
  ASSUME IInv, NEW row \in store
  PROVE  /\ row.id \in 1..Len(sent) /\ row.id \in Nat /\ Len(sent) \in Nat
         /\ row.agent = sent[row.id].agent
         /\ row.producer = sent[row.id].producer
         /\ row.incarnation = sent[row.id].incarnation
         /\ row.previous_event_hash = sent[row.id].previous_event_hash
         /\ row.event_hash = sent[row.id].event_hash
         /\ row.decision = IF row.id \in altered THEN "altered"
                           ELSE sent[row.id].decision
<1>1. Len(sent) \in Nat
  BY LenProperties DEF IInv, Typed
<1>2. FromSent(row, altered)
  BY DEF IInv, RowsFromSent
<1>3. QED
  BY <1>1, <1>2 DEF FromSent

\* The parts of the hash of an event.
LEMMA EventHash ==
  ASSUME IInv, NEW i \in 1..Len(sent)
  PROVE  LET e == sent[i] IN
           /\ e.id = i /\ e.decision \in Decisions
           /\ e.producer \in Producers /\ e.agent = AgentOf[e.producer]
           /\ e.previous_event_hash \in Seq(Link)
           /\ <<i, e.agent, e.decision>> \in Link
           /\ e.event_hash = Append(e.previous_event_hash, <<i, e.agent, e.decision>>)
<1>1. sent[i] \in Event
  BY ElementOfSeq DEF IInv, Typed
<1>2. QED
  BY <1>1 DEF Event, Link, IInv, SentIsHashed, compute_event_hash

\* Events with equal hashes are the same event.
LEMMA SameHash ==
  ASSUME IInv, NEW i \in 1..Len(sent), NEW j \in 1..Len(sent),
         sent[i].event_hash = sent[j].event_hash
  PROVE  i = j
<1> DEFINE x == <<i, sent[i].agent, sent[i].decision>>
           y == <<j, sent[j].agent, sent[j].decision>>
<1>1. /\ x \in Link /\ sent[i].previous_event_hash \in Seq(Link)
      /\ y \in Link /\ sent[j].previous_event_hash \in Seq(Link)
      /\ Append(sent[i].previous_event_hash, x) = Append(sent[j].previous_event_hash, y)
  <2>1. /\ x \in Link /\ sent[i].previous_event_hash \in Seq(Link)
        /\ sent[i].event_hash = Append(sent[i].previous_event_hash, x)
    BY EventHash, Zenon
  <2>2. /\ y \in Link /\ sent[j].previous_event_hash \in Seq(Link)
        /\ sent[j].event_hash = Append(sent[j].previous_event_hash, y)
    BY EventHash, Zenon
  <2> HIDE DEF x, y
  <2>3. QED
    BY <2>1, <2>2, Zenon
<1>2. x = y
  <2> HIDE DEF x, y
  <2>1. QED
    BY <1>1, HashInjective
<1>3. QED
  BY <1>2

\* A row hashes to its event_hash exactly when its decision is the one published.
LEMMA RowHash ==
  ASSUME IInv, NEW row \in store
  PROVE  compute_event_hash(row) = row.event_hash <=> row.id \notin altered
<1> DEFINE i == row.id
           h == sent[i].previous_event_hash
           d == sent[i].decision
           a == sent[i].agent
<1>1. /\ i \in 1..Len(sent) /\ row.agent = a
      /\ row.previous_event_hash = h /\ row.event_hash = sent[i].event_hash
      /\ row.decision = IF i \in altered THEN "altered" ELSE d
  BY RowOrigin
<1>2. d \in Decisions /\ h \in Seq(Link) /\ sent[i].event_hash = Append(h, <<i, a, d>>)
  BY <1>1, EventHash
<1>3. compute_event_hash(row) = Append(h, <<i, a, row.decision>>)
  BY <1>1 DEF compute_event_hash
<1>4. CASE i \notin altered
  BY <1>1, <1>2, <1>3, <1>4
<1>5. CASE i \in altered
  <2>1. row.decision # d
    BY <1>1, <1>2, <1>5, PipelineAssumption
  <2>2. Append(h, <<i, a, row.decision>>) # Append(h, <<i, a, d>>)
    <3> DEFINE x == <<i, a, row.decision>>
               y == <<i, a, d>>
               S == Link \cup {x, y}
    <3>1. x # y
      BY <2>1
    <3>2. h \in Seq(S) /\ x \in S /\ y \in S
      <4>1. Link \subseteq S /\ x \in S /\ y \in S
        OBVIOUS
      <4>2. h \in Seq(Link)
        BY <1>2
      <4> HIDE DEF S, h
      <4>3. h \in Seq(S)
        BY <4>1, <4>2, SeqMonotonic, Zenon
      <4>4. QED
        BY <4>1, <4>3
    <3> HIDE DEF S, x, y
    <3>3. QED
      BY <3>1, <3>2, HashInjective DEF x, y
  <2>3. QED
    BY <1>1, <1>2, <1>3, <1>5, <2>2
<1>6. QED
  BY <1>4, <1>5

\* verify_chain finds a decision that was changed, whichever row it is in: the
\* hash covers the decision.
THEOREM AlterationsAreDetected == Spec => []AlterationIsDetected
<1>1. ASSUME IInv, NEW a \in Agents, NEW row \in Rows(a), row.id \in altered
      PROVE  verify_endpoint(a) # "valid"
  <2>1. row \in store /\ compute_event_hash(row) # row.event_hash
    BY <1>1, RowHash DEF Rows
  <2>2. ~verify_chain(Rows(a))
    BY <2>1 DEF verify_chain
  <2>3. QED
    BY <2>2 DEF verify_endpoint
<1>2. IInv => AlterationIsDetected
  BY <1>1 DEF AlterationIsDetected, Ids
<1>3. QED
  BY <1>2, Inductive, PTL

\* A row that carries the hash of another row as its predecessor's comes from the
\* same process, which sent nothing between the two.
LEMMA ChainedRows ==
  ASSUME IInv, NEW e \in store, NEW f \in store,
         f.previous_event_hash = e.event_hash
  PROVE  /\ e.producer = f.producer /\ e.incarnation = f.incarnation
         /\ \A k \in Nat : e.id < k /\ k < f.id =>
              ~IsOf(sent, k, f.producer, f.incarnation)
<1> DEFINE i == f.id
           p == f.producer
           n == f.incarnation
<1>1. /\ i \in 1..Len(sent) /\ e.id \in 1..Len(sent) /\ Len(sent) \in Nat
      /\ p = sent[i].producer /\ n = sent[i].incarnation
      /\ e.producer = sent[e.id].producer /\ e.incarnation = sent[e.id].incarnation
      /\ e.event_hash = sent[e.id].event_hash
      /\ f.previous_event_hash = sent[i].previous_event_hash
  BY RowOrigin
<1>2. LinksTo(sent, e.event_hash, p, n, i)
  BY <1>1 DEF IInv, ChainKept
<1>3. e.event_hash # GENESIS_HASH
  <2> DEFINE h == sent[e.id].previous_event_hash
             x == <<e.id, sent[e.id].agent, sent[e.id].decision>>
  <2>1. h \in Seq(Link) /\ x \in Link /\ e.event_hash = Append(h, x)
    BY <1>1, EventHash
  <2> HIDE DEF h, x
  <2>2. QED
    BY <2>1, AppendProperties DEF GENESIS_HASH
<1>4. PICK j \in 1..(i - 1) :
        /\ IsOf(sent, j, p, n) /\ e.event_hash = sent[j].event_hash
        /\ \A k \in (j + 1)..(i - 1) : ~IsOf(sent, k, p, n)
  BY <1>2, <1>3 DEF LinksTo
<1>5. j = e.id
  <2>1. j \in 1..Len(sent)
    BY <1>1
  <2>2. QED
    BY <1>1, <1>4, <2>1, SameHash
<1>6. QED
  BY <1>1, <1>4, <1>5 DEF IsOf

\* Rows that one process sent, that are complete and unaltered, verify, however
\* often they were delivered and in whatever order they were stored.
THEOREM UnbrokenChainsVerify == Spec => []UnbrokenVerifies
<1>1. ASSUME IInv, NEW a \in Agents, Unbroken(a), altered \cap Ids(Rows(a)) = {},
             NEW e \in Rows(a), NEW f \in Rows(a), Adjacent(e, f, Rows(a))
      PROVE  f.previous_event_hash = e.event_hash
  <2> DEFINE i == f.id
             p == f.producer
             n == f.incarnation
  <2>1. e \in store /\ f \in store /\ e.agent = a /\ f.agent = a
    BY DEF Rows
  <2>2. /\ i \in 1..Len(sent) /\ e.id \in 1..Len(sent) /\ Len(sent) \in Nat
        /\ p = sent[i].producer /\ n = sent[i].incarnation
        /\ sent[i].agent = a /\ sent[e.id].agent = a
        /\ e.event_hash = sent[e.id].event_hash
        /\ f.previous_event_hash = sent[i].previous_event_hash
        /\ e.id < i
    BY <1>1, <2>1, RowOrigin DEF Adjacent
  <2>3. IsOf(sent, e.id, p, n)
    BY <1>1, <2>2 DEF Unbroken, Elements, IsOf
  <2>4. LinksTo(sent, f.previous_event_hash, p, n, i)
    BY <1>1, <2>2 DEF IInv, ChainKept
  <2>5. PICK j \in 1..(i - 1) :
          /\ IsOf(sent, j, p, n) /\ f.previous_event_hash = sent[j].event_hash
          /\ \A k \in (j + 1)..(i - 1) : ~IsOf(sent, k, p, n)
    BY <2>2, <2>3, <2>4 DEF LinksTo
  <2>6. j \in 1..Len(sent) /\ e.id <= j
    BY <2>2, <2>3, <2>5
  <2>7. sent[j].agent = a /\ sent[j].id = j
    <3>1. sent[i].agent = AgentOf[p]
      BY <1>1, <2>2, EventHash
    <3>2. sent[j].id = j /\ sent[j].agent = AgentOf[sent[j].producer]
      BY <1>1, <2>6, EventHash
    <3>3. QED
      BY <2>2, <2>5, <3>1, <3>2 DEF IsOf
  <2>8. j \in Ids(store)
    BY <1>1, <2>2, <2>6, <2>7 DEF Unbroken, Elements
  <2>9. PICK g \in Rows(a) : g.id = j
    BY <1>1, <2>7, <2>8, RowOrigin DEF Ids, Rows
  <2>10. j = e.id
    BY <1>1, <2>2, <2>6, <2>9 DEF Adjacent
  <2>11. QED
    BY <2>2, <2>5, <2>10
<1>2. ASSUME IInv, NEW a \in Agents, Unbroken(a), altered \cap Ids(Rows(a)) = {},
             \A row \in Rows(a) : ~row.dict
      PROVE  verify_endpoint(a) = "valid"
  <2>1. \A e \in Rows(a) : compute_event_hash(e) = e.event_hash
    BY <1>2, RowHash DEF Rows, Ids
  <2>2. verify_chain(Rows(a))
    BY <1>1, <1>2, <2>1 DEF verify_chain
  <2>3. QED
    BY <1>2, <2>2 DEF verify_endpoint
<1>3. IInv => UnbrokenVerifies
  BY <1>2 DEF UnbrokenVerifies
<1>4. QED
  BY <1>3, Inductive, PTL

\* The neighbour of a row below it, among rows that end somewhere.
LEMMA LastRowBelow ==
  ASSUME IInv, NEW a, NEW e \in Rows(a), NEW k \in Nat, e.id < k
  PROVE  \E r \in Rows(a) : /\ e.id <= r.id /\ r.id < k
                            /\ \A g \in Rows(a) : g.id < k => g.id <= r.id
<1> DEFINE T == {r.id : r \in {g \in Rows(a) : g.id < k}}
<1>1. \A g \in Rows(a) : g.id \in Nat
  BY RowOrigin DEF Rows
<1>2. T \in SUBSET Nat /\ e.id \in T /\ \A y \in T : y <= k
  BY <1>1
<1>3. PICK x \in T : \A y \in T : y <= x
  <2> HIDE DEF T
  <2>1. QED
    BY <1>2, GreatestElement
<1>4. QED
  BY <1>1, <1>2, <1>3

LEMMA FirstRowAbove ==
  ASSUME IInv, NEW a, NEW f \in Rows(a), NEW k \in Nat, k < f.id
  PROVE  \E r \in Rows(a) : k < r.id /\ \A g \in Rows(a) : k < g.id => r.id <= g.id
<1> DEFINE T == {r.id : r \in {g \in Rows(a) : k < g.id}}
<1>1. \A g \in Rows(a) : g.id \in Nat
  BY RowOrigin DEF Rows
<1>2. T \in SUBSET Nat /\ f.id \in T
  BY <1>1
<1>3. PICK x \in T : \A y \in T : x <= y
  <2> HIDE DEF T
  <2>1. QED
    BY <1>2, LeastElement
<1>4. QED
  BY <1>1, <1>3

\* In rows that verify, what comes after a row of a process is of that process:
\* the first row that were not could not be chained to the one before it.
LEMMA SameProcessAbove ==
  ASSUME IInv, NEW a, verify_chain(Rows(a)), NEW e \in Rows(a), NEW f \in Rows(a),
         e.id < f.id
  PROVE  f.producer = e.producer /\ f.incarnation = e.incarnation
<1> DEFINE Other(r) == ~(r.producer = e.producer /\ r.incarnation = e.incarnation)
           T == {r.id : r \in {g \in Rows(a) : e.id < g.id /\ Other(g)}}
<1>1. \A g \in Rows(a) : g \in store /\ g.id \in Nat
  BY RowOrigin DEF Rows
<1>2. SUFFICES ASSUME Other(f) PROVE FALSE
  OBVIOUS
<1>3. T \in SUBSET Nat /\ T # {}
  BY <1>1, <1>2
<1>4. PICK x \in T : \A y \in T : x <= y
  <2> HIDE DEF T
  <2>1. QED
    BY <1>3, LeastElement
<1>5. PICK r \in Rows(a) : r.id = x /\ e.id < r.id /\ Other(r)
  BY <1>4
<1>6. PICK s \in Rows(a) : /\ e.id <= s.id /\ s.id < r.id
                           /\ \A g \in Rows(a) : g.id < r.id => g.id <= s.id
  BY <1>1, <1>5, LastRowBelow
<1>7. Adjacent(s, r, Rows(a))
  BY <1>1, <1>6 DEF Adjacent
<1>8. r.previous_event_hash = s.event_hash
  BY <1>7 DEF verify_chain
<1>9. s.producer = r.producer /\ s.incarnation = r.incarnation
  BY <1>1, <1>8, ChainedRows
<1>10. Other(s)
  BY <1>5, <1>9
<1>11. s.id # e.id
  BY <1>1, <1>10 DEF IInv, OneRowPerEvent
<1>12. s.id \in T
  BY <1>1, <1>6, <1>10, <1>11
<1>13. QED
  BY <1>1, <1>4, <1>5, <1>6, <1>12

\* When the rows of an identity verify, nothing that one process sent between two
\* of them is missing from the table.
THEOREM VerifiedChainsHaveNoGap == Spec => []VerifiedHasNoGap
<1>1. ASSUME IInv, NEW a \in Agents, verify_chain(Rows(a)),
             NEW e \in Rows(a), NEW f \in Rows(a), NEW g \in Elements(sent),
             g.producer = e.producer, g.incarnation = e.incarnation,
             e.id < g.id, g.id < f.id, g.id \notin Ids(store)
      PROVE  FALSE
  <2>1. \A row \in Rows(a) : row \in store /\ row.id \in Nat
    BY <1>1, RowOrigin DEF Rows
  <2>2. PICK i \in 1..Len(sent) : g = sent[i]
    BY DEF Elements
  <2>3. g.id = i /\ i \in Nat
    <3>1. Len(sent) \in Nat
      BY <1>1, LenProperties DEF IInv, Typed
    <3>2. sent[i].id = i
      BY <1>1, EventHash
    <3>3. QED
      BY <2>2, <3>1, <3>2
  <2>4. PICK r \in Rows(a) : /\ e.id <= r.id /\ r.id < i
                             /\ \A h \in Rows(a) : h.id < i => h.id <= r.id
    BY <1>1, <2>3, LastRowBelow
  <2>5. PICK s \in Rows(a) : i < s.id /\ \A h \in Rows(a) : i < h.id => s.id <= h.id
    BY <1>1, <2>3, FirstRowAbove
  <2>6. \A h \in Rows(a) : h.id # i
    BY <1>1, <2>1, <2>3 DEF Ids
  <2>7. Adjacent(r, s, Rows(a))
    BY <2>1, <2>3, <2>4, <2>5, <2>6 DEF Adjacent
  <2>8. s.previous_event_hash = r.event_hash
    BY <1>1, <2>7 DEF verify_chain
  <2>9. ~IsOf(sent, i, s.producer, s.incarnation)
    BY <1>1, <2>1, <2>3, <2>4, <2>5, <2>8, ChainedRows
  <2>10. e.id < s.id
    BY <2>1, <2>3, <2>4, <2>5
  <2>11. s.producer = e.producer /\ s.incarnation = e.incarnation
    BY <1>1, <2>10, SameProcessAbove
  <2>12. QED
    BY <1>1, <2>2, <2>9, <2>11 DEF IsOf
<1>2. IInv => VerifiedHasNoGap
  BY <1>1 DEF VerifiedHasNoGap, verify_endpoint
<1>3. QED
  BY <1>2, Inductive, PTL

\* Rows of two processes of an identity never verify, however many there are of
\* each and in whatever order they came.
THEOREM VerifiedChainsHaveOneProcess == Spec => []VerifiedIsOneProcess
<1>1. ASSUME IInv, NEW a \in Agents, verify_chain(Rows(a)),
             NEW e \in Rows(a), NEW f \in Rows(a)
      PROVE  e.producer = f.producer /\ e.incarnation = f.incarnation
  <2>1. e \in store /\ f \in store /\ e.id \in Nat /\ f.id \in Nat
    BY <1>1, RowOrigin DEF Rows
  <2>2. CASE e.id = f.id
    BY <1>1, <2>1, <2>2 DEF IInv, OneRowPerEvent
  <2>3. CASE e.id < f.id
    BY <1>1, <2>3, SameProcessAbove
  <2>4. CASE f.id < e.id
    BY <1>1, <2>4, SameProcessAbove
  <2>5. QED
    BY <2>1, <2>2, <2>3, <2>4
<1>2. IInv => VerifiedIsOneProcess
  BY <1>1 DEF VerifiedIsOneProcess, verify_endpoint
<1>3. QED
  BY <1>2, Inductive, PTL

=============================================================================
