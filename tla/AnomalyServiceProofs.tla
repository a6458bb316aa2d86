------------------------ MODULE AnomalyServiceProofs ------------------------
(* What the identity API and the anomaly service guarantee for any number  *)
(* of agents, threads, events, operators and crashes.                      *)
EXTENDS AnomalyService, FiniteSetTheorems, TLAPS

USE ApiAssumption, AnomalyAssumption
    DEF store, totals, memory, waitFor, bounds, serviceVars

-----------------------------------------------------------------------------
(* The two halves of a step                                                *)

ApiStep(w) ==
  \/ HandlerStep(w) \/ Release(w)
  \/ \E a \in Agents, first \in {"sadd", "srem"} : Receive(w, first, a)

\* Whatever the service does, the API takes one of its own steps or none.
LEMMA ApiSide ==
  ASSUME [Next]_vars
  PROVE  UNCHANGED apiVars \/ \E w \in Threads : ApiStep(w)
<1>1. CASE ConsumerStep
  <2>1. CASE Answered
    BY <2>1 DEF Answered, ApiStep
  <2>2. ASSUME NEW a \in Agents, RaiseAlarm(a)
        PROVE  UNCHANGED apiVars \/ \E w \in Threads : ApiStep(w)
    BY <2>2 DEF RaiseAlarm, ApiStep
  <2>3. QED
    BY <1>1, <2>1, <2>2
       DEF ConsumerStep, SkipMalformed, DeserializerRaises, HandleNormal, IgnoreAlarm, GiveUp
<1>2. CASE OperatorCalls
  BY <1>2 DEF OperatorCalls, ApiStep
<1>3. ASSUME NEW w \in Threads, ThreadStep(w) PROVE ApiStep(w)
  BY <1>3 DEF ThreadStep, ApiStep
<1>4. ASSUME PublishEvent \/ (\E a \in Agents : ScoreEndpoint(a)) \/ AutoCommit \/ Start
             \/ Crash \/ UNCHANGED vars
      PROVE  UNCHANGED apiVars
  BY <1>4 DEF PublishEvent, ScoreEndpoint, AutoCommit, Start, Crash, vars
<1>5. QED
  BY <1>1, <1>2, <1>3, <1>4 DEF Next

\* What a thread becomes has the type of a handler.
LEMMA BecomeType ==
  ASSUME ApiTypeOK, NEW w \in Threads, NEW pc \in {"idle"} \cup Commands \cup Answers,
         NEW a \in Agents, NEW changed \in BOOLEAN, Become(w, Handler(pc, a, changed))
  PROVE  thread' \in [Threads -> Handlers]
<1>1. Handler(pc, a, changed) \in Handlers
  BY DEF Handler, Handlers
<1>2. QED
  BY <1>1 DEF Become, ApiTypeOK

\* A step of a thread keeps the types.
LEMMA ApiTypeStep ==
  ASSUME ApiTypeOK, NEW w \in Threads, ApiStep(w)
  PROVE  ApiTypeOK'
<1> DEFINE a == thread[w].agent
<1>1. a \in Agents /\ thread[w].changed \in BOOLEAN
  BY DEF ApiTypeOK, Handlers
<1> HIDE DEF a
<1>2. ASSUME NEW b \in Agents, NEW first \in {"sadd", "srem"}, Receive(w, first, b)
      PROVE  ApiTypeOK'
  <2>1. thread' \in [Threads -> Handlers]
    BY <1>2, BecomeType DEF Receive, Commands
  <2>2. QED
    BY <1>2, <2>1 DEF Receive, ApiTypeOK
<1>3. CASE Release(w)
  <2>1. (CHOOSE b \in Agents : TRUE) \in Agents
    OBVIOUS
  <2>2. thread' \in [Threads -> Handlers]
    BY <1>3, <2>1, BecomeType DEF Release, Idle
  <2>3. QED
    BY <1>3, <2>2 DEF Release, ApiTypeOK
<1>4. CASE SAdd(w)
  <2>1. Become(w, Handler("set", a, a \notin suspended))
    BY <1>4 DEF SAdd, a
  <2>2. thread' \in [Threads -> Handlers]
    <3>1. (a \notin suspended) \in BOOLEAN
      OBVIOUS
    <3>2. QED
      BY <1>1, <2>1, <3>1, BecomeType DEF Commands
  <2>3. QED
    BY <1>1, <1>4, <2>2 DEF SAdd, ApiTypeOK, a
<1>5. CASE SetReason(w)
  <2>1. Become(w, Handler("200", a, FALSE))
    BY <1>5 DEF SetReason, a
  <2>2. thread' \in [Threads -> Handlers]
    BY <1>1, <2>1, BecomeType DEF Answers
  <2>3. QED
    BY <1>1, <1>5, <2>2 DEF SetReason, ApiTypeOK, a
<1>6. CASE SRem(w)
  <2>1. Become(w, Handler("del", a, a \in suspended))
    BY <1>6 DEF SRem, a
  <2>2. thread' \in [Threads -> Handlers]
    <3>1. (a \in suspended) \in BOOLEAN
      OBVIOUS
    <3>2. QED
      BY <1>1, <2>1, <3>1, BecomeType DEF Commands
  <2>3. QED
    BY <1>1, <1>6, <2>2 DEF SRem, ApiTypeOK, a
<1>7. CASE DelReason(w)
  <2>1. Become(w, Handler(IF thread[w].changed THEN "200" ELSE "404", a, FALSE))
    BY <1>7 DEF DelReason, a
  <2>2. thread' \in [Threads -> Handlers]
    <3>1. CASE thread[w].changed
      BY <1>1, <2>1, <3>1, BecomeType DEF Answers
    <3>2. CASE ~thread[w].changed
      BY <1>1, <2>1, <3>2, BecomeType DEF Answers
    <3>3. QED
      BY <3>1, <3>2
  <2>3. QED
    BY <1>1, <1>7, <2>2 DEF DelReason, ApiTypeOK, a
<1>8. CASE RedisFails(w)
  <2>1. Become(w, Handler("503", a, FALSE))
    BY <1>8 DEF RedisFails, a
  <2>2. thread' \in [Threads -> Handlers]
    BY <1>1, <2>1, BecomeType DEF Answers
  <2>3. suspended' \subseteq Agents /\ reason' \subseteq Agents /\ torn' \subseteq Agents
    BY <1>1, <1>8 DEF RedisFails, ApiTypeOK, a
  <2>4. QED
    BY <1>8, <2>2, <2>3 DEF RedisFails, ApiTypeOK
<1>9. QED
  BY <1>2, <1>3, <1>4, <1>5, <1>6, <1>7, <1>8 DEF ApiStep, HandlerStep

-----------------------------------------------------------------------------
(* The metrics                                                             *)

LEMMA UncountedFinite ==
  ASSUME NEW pc PROVE IsFiniteSet(Uncounted(pc)) /\ Cardinality(Uncounted(pc)) \in Nat
<1>1. Uncounted(pc) \in SUBSET Threads
  BY DEF Uncounted
<1>2. QED
  BY <1>1, FS_Subset, FS_CardinalityType

\* A thread that goes elsewhere leaves one set of uncounted changes for another.
LEMMA UncountedMoves ==
  ASSUME ApiTypeOK, NEW w \in Threads, NEW pc, NEW a, NEW changed \in BOOLEAN,
         Become(w, Handler(pc, a, changed)), NEW p
  PROVE  Uncounted(p)' = IF pc = p /\ changed THEN Uncounted(p) \cup {w}
                                              ELSE Uncounted(p) \ {w}
BY DEF ApiTypeOK, Become, Handler, Uncounted

\* ... so that their cardinalities change by one, or not at all.
LEMMA UncountedSize ==
  ASSUME ApiTypeOK, NEW w \in Threads, NEW pc, NEW a, NEW changed \in BOOLEAN,
         Become(w, Handler(pc, a, changed)), NEW p
  PROVE  LET n  == Cardinality(Uncounted(p))
             n1 == Cardinality(Uncounted(p)')
         IN  /\ n \in Nat
             /\ w \notin Uncounted(p) /\ ~(pc = p /\ changed) => n1 = n
             /\ w \notin Uncounted(p) /\ pc = p /\ changed    => n1 = n + 1
             /\ w \in Uncounted(p) /\ ~(pc = p /\ changed)    => n1 = n - 1
<1>1. CASE pc = p /\ changed
  <2>1. Uncounted(p)' = Uncounted(p) \cup {w}
    BY <1>1, UncountedMoves
  <2>2. QED
    BY <1>1, <2>1, UncountedFinite, FS_AddElement
<1>2. CASE ~(pc = p /\ changed)
  <2>1. Uncounted(p)' = Uncounted(p) \ {w}
    BY <1>2, UncountedMoves
  <2>2. QED
    BY <1>2, <2>1, UncountedFinite, FS_RemoveElement
<1>3. QED
  BY <1>1, <1>2

\* Every change of the set is counted by the thread that made it.
LEMMA BooksStep ==
  ASSUME ApiTypeOK, BooksBalance, NEW w \in Threads, ApiStep(w)
  PROVE  BooksBalance'
<1> DEFINE a == thread[w].agent
           S == Cardinality(suspended)
           SetN == Cardinality(Uncounted("set"))
           DelN == Cardinality(Uncounted("del"))
<1>1. /\ a \in Agents /\ thread[w].changed \in BOOLEAN
      /\ S \in Nat /\ SetN \in Nat /\ DelN \in Nat
      /\ _suspensions_total \in Nat /\ _unsuspensions_total \in Nat
  <2>1. IsFiniteSet(suspended)
    BY FS_Subset DEF ApiTypeOK
  <2>2. QED
    BY <2>1, FS_CardinalityType, UncountedFinite DEF ApiTypeOK, Handlers
<1>2. /\ Cardinality(suspended \cup {a}) = IF a \in suspended THEN S ELSE S + 1
      /\ Cardinality(suspended \ {a}) = IF a \in suspended THEN S - 1 ELSE S
  <2>1. IsFiniteSet(suspended)
    BY FS_Subset DEF ApiTypeOK
  <2>2. QED
    BY <2>1, FS_AddElement, FS_RemoveElement
<1>3. \A p : w \in Uncounted(p) <=> thread[w].pc = p /\ thread[w].changed
  BY DEF Uncounted
<1>4. ~redisFailed =>
        S + _unsuspensions_total + DelN = _suspensions_total + SetN
  BY DEF BooksBalance
<1>5. BooksBalance' <=>
        (~redisFailed' => Cardinality(suspended') + _unsuspensions_total' + Cardinality(Uncounted("del")')
                            = _suspensions_total' + Cardinality(Uncounted("set")'))
  BY DEF BooksBalance
<1> HIDE DEF a, S, SetN, DelN
<1>7. ASSUME NEW b \in Agents, NEW first \in {"sadd", "srem"}, Receive(w, first, b)
      PROVE  BooksBalance'
  <2>1. /\ thread[w].pc = "idle" /\ Become(w, Handler(first, b, FALSE))
        /\ UNCHANGED <<suspended, _suspensions_total, _unsuspensions_total, redisFailed>>
    BY <1>7 DEF Receive
  <2>2. Cardinality(Uncounted("set")') = SetN /\ Cardinality(Uncounted("del")') = DelN
    BY <1>3, <2>1, UncountedSize DEF SetN, DelN
  <2>3. QED
    BY <1>1, <1>4, <1>5, <2>1, <2>2 DEF S
<1>8. CASE Release(w)
  <2>1. /\ thread[w].pc \in Answers
        /\ Become(w, Handler("idle", CHOOSE b \in Agents : TRUE, FALSE))
        /\ UNCHANGED <<suspended, _suspensions_total, _unsuspensions_total, redisFailed>>
    BY <1>8 DEF Release, Idle
  <2>2. Cardinality(Uncounted("set")') = SetN /\ Cardinality(Uncounted("del")') = DelN
    BY <1>3, <2>1, UncountedSize DEF SetN, DelN, Answers
  <2>3. QED
    BY <1>1, <1>4, <1>5, <2>1, <2>2 DEF S
<1>9. CASE SAdd(w)
  <2>1. /\ thread[w].pc = "sadd" /\ Become(w, Handler("set", a, a \notin suspended))
        /\ suspended' = suspended \cup {a}
        /\ UNCHANGED <<_suspensions_total, _unsuspensions_total, redisFailed>>
    BY <1>9 DEF SAdd, a
  <2>2. CASE a \in suspended
    <3>1. Become(w, Handler("set", a, FALSE))
      BY <2>1, <2>2
    <3>2. Cardinality(Uncounted("set")') = SetN /\ Cardinality(Uncounted("del")') = DelN
      BY <1>3, <2>1, <3>1, UncountedSize DEF SetN, DelN
    <3>3. QED
      BY <1>1, <1>2, <1>4, <1>5, <2>1, <2>2, <3>2
  <2>3. CASE a \notin suspended
    <3>1. Become(w, Handler("set", a, TRUE))
      BY <2>1, <2>3
    <3>2. Cardinality(Uncounted("set")') = SetN + 1 /\ Cardinality(Uncounted("del")') = DelN
      <4>1. w \notin Uncounted("set") /\ w \notin Uncounted("del")
        BY <1>3, <2>1
      <4>2. /\ Uncounted("set")' = Uncounted("set") \cup {w}
            /\ Uncounted("del")' = Uncounted("del")
        BY <3>1, <4>1 DEF Become, Handler, Uncounted, ApiTypeOK
      <4>3. QED
        BY <4>1, <4>2, UncountedFinite, FS_AddElement DEF SetN, DelN
    <3>3. QED
      BY <1>1, <1>2, <1>4, <1>5, <2>1, <2>3, <3>2
  <2>4. QED
    BY <2>2, <2>3
<1>10. CASE SetReason(w)
  <2>1. /\ thread[w].pc = "set" /\ Become(w, Handler("200", a, FALSE))
        /\ _suspensions_total' = _suspensions_total + (IF thread[w].changed THEN 1 ELSE 0)
        /\ UNCHANGED <<suspended, _unsuspensions_total, redisFailed>>
    BY <1>10 DEF SetReason, a
  <2>2. /\ thread[w].changed  => Cardinality(Uncounted("set")') = SetN - 1
        /\ ~thread[w].changed => Cardinality(Uncounted("set")') = SetN
        /\ Cardinality(Uncounted("del")') = DelN
    BY <1>3, <2>1, UncountedSize DEF SetN, DelN
  <2>3. QED
    BY <1>1, <1>4, <1>5, <2>1, <2>2 DEF S
<1>11. CASE SRem(w)
  <2>1. /\ thread[w].pc = "srem" /\ Become(w, Handler("del", a, a \in suspended))
        /\ suspended' = suspended \ {a}
        /\ UNCHANGED <<_suspensions_total, _unsuspensions_total, redisFailed>>
    BY <1>11 DEF SRem, a
  <2>2. CASE a \in suspended
    <3>1. Become(w, Handler("del", a, TRUE))
      BY <2>1, <2>2
    <3>2. Cardinality(Uncounted("set")') = SetN /\ Cardinality(Uncounted("del")') = DelN + 1
      <4>1. w \notin Uncounted("set") /\ w \notin Uncounted("del")
        BY <1>3, <2>1
      <4>2. /\ Uncounted("del")' = Uncounted("del") \cup {w}
            /\ Uncounted("set")' = Uncounted("set")
        BY <3>1, <4>1 DEF Become, Handler, Uncounted, ApiTypeOK
      <4>3. QED
        BY <4>1, <4>2, UncountedFinite, FS_AddElement DEF SetN, DelN
    <3>3. QED
      BY <1>1, <1>2, <1>4, <1>5, <2>1, <2>2, <3>2
  <2>3. CASE a \notin suspended
    <3>1. Become(w, Handler("del", a, FALSE))
      <4>1. (a \in suspended) = FALSE
        BY <2>3
      <4>2. QED
        BY <2>1, <4>1, Zenon
    <3>2. Cardinality(Uncounted("set")') = SetN /\ Cardinality(Uncounted("del")') = DelN
      BY <1>3, <2>1, <3>1, UncountedSize DEF SetN, DelN
    <3>3. QED
      BY <1>1, <1>2, <1>4, <1>5, <2>1, <2>3, <3>2
  <2>4. QED
    BY <2>2, <2>3
<1>12. CASE DelReason(w)
  <2>1. /\ thread[w].pc = "del"
        /\ Become(w, Handler(IF thread[w].changed THEN "200" ELSE "404", a, FALSE))
        /\ _unsuspensions_total' = _unsuspensions_total + (IF thread[w].changed THEN 1 ELSE 0)
        /\ UNCHANGED <<suspended, _suspensions_total, redisFailed>>
    BY <1>12 DEF DelReason, a
  <2>2. /\ thread[w].changed  => Cardinality(Uncounted("del")') = DelN - 1
        /\ ~thread[w].changed => Cardinality(Uncounted("del")') = DelN
        /\ Cardinality(Uncounted("set")') = SetN
    BY <1>3, <2>1, UncountedSize DEF SetN, DelN
  <2>3. QED
    BY <1>1, <1>4, <1>5, <2>1, <2>2 DEF S
<1>13. CASE RedisFails(w)
  BY <1>5, <1>13 DEF RedisFails
<1>14. QED
  BY <1>7, <1>8, <1>9, <1>10, <1>11, <1>12, <1>13 DEF ApiStep, HandlerStep

-----------------------------------------------------------------------------
(* The reasons                                                             *)

\* A thread that steps is what it becomes, and the others are what they were.
LEMMA OthersStay ==
  ASSUME ApiTypeOK, NEW w \in Threads, NEW handler, Become(w, handler)
  PROVE  /\ thread'[w] = handler
         /\ \A v \in Threads : v # w => thread'[v] = thread[v]
BY DEF ApiTypeOK, Become

\* A reinstatement removes the reason of a suspension only if it tore it.
LEMMA ReasonStep ==
  ASSUME ApiTypeOK, SuspendedHasReason, DeletesNoReason, NEW w \in Threads, ApiStep(w)
  PROVE  SuspendedHasReason' /\ DeletesNoReason'
<1> USE DEF SuspendedHasReason, DeletesNoReason, Handler
<1>1. ASSUME NEW b \in Agents, NEW first \in {"sadd", "srem"}, Receive(w, first, b)
      PROVE  SuspendedHasReason' /\ DeletesNoReason'
  BY <1>1, OthersStay DEF Receive
<1>2. CASE Release(w)
  BY <1>2, OthersStay DEF Release, Idle, Answers
<1>3. CASE SAdd(w)
  BY <1>3, OthersStay DEF SAdd, Reinstating
<1>4. CASE SetReason(w)
  BY <1>4, OthersStay DEF SetReason
<1>5. CASE SRem(w)
  BY <1>5, OthersStay DEF SRem
<1>6. CASE DelReason(w)
  BY <1>6, OthersStay DEF DelReason
<1>7. CASE RedisFails(w)
  BY <1>7, OthersStay DEF RedisFails, Commands
<1>8. QED
  BY <1>1, <1>2, <1>3, <1>4, <1>5, <1>6, <1>7 DEF ApiStep, HandlerStep

-----------------------------------------------------------------------------
(* The service                                                             *)

LEMMA Bounds ==
  /\ MIN_FIT_SAMPLES \in Nat /\ BurstLimit \in Nat /\ MaxLen \in Nat
  /\ 0 < MIN_FIT_SAMPLES /\ MIN_FIT_SAMPLES <= MaxLen
OBVIOUS

\* The memory of the process, and the rest of the service's state.
MemoryTypeOK ==
  /\ _histories \in [Agents -> 0 .. MaxLen] /\ fitted \in [Agents -> BOOLEAN]
  /\ _count \in [Agents -> Nat] /\ scored \in [Agents -> Nat] /\ _suspended \subseteq Agents

IsLog == log \in Seq(Agents \cup {Malformed, NotJson})

ConsumerTypeOK ==
  /\ apc \in {"down", "deaf", "idle", "waiting"}
  /\ committed \in 0 .. position /\ position \in 0 .. Len(log)
  /\ burst \in BOOLEAN /\ caller \in Threads \cup {NoThread}

LEMMA TypeParts == TypeOK <=> ApiTypeOK /\ MemoryTypeOK /\ IsLog /\ ConsumerTypeOK
BY DEF TypeOK, MemoryTypeOK, IsLog, ConsumerTypeOK

LEMMA LogLength == IsLog => Len(log) \in Nat
BY DEF IsLog

\* What the service remembers changes in five ways.
Observed(a) ==
  /\ _histories' = [_histories EXCEPT ![a] = IF @ < MaxLen THEN @ + 1 ELSE @]
  /\ fitted' = [fitted EXCEPT ![a] = @ \/ _histories'[a] >= MIN_FIT_SAMPLES]
  /\ scored' = scored

MemoryStep ==
  \/ UNCHANGED <<_histories, fitted, _count, _suspended, scored>>
  \/ \E a \in Agents :
       /\ Observed(a)
       /\ \/ /\ \/ _count' = [_count EXCEPT ![a] = @ + 1]
                \/ _count' = [_count EXCEPT ![a] = 0]
             /\ UNCHANGED _suspended
          \/ /\ _count' = [_count EXCEPT ![a] = @ + 1]
             /\ _suspended' = _suspended \cup {a}
             /\ _count'[a] > BurstLimit \/ fitted'[a]
  \/ /\ UNCHANGED <<_histories, fitted, _suspended, scored>>
     /\ \E x : _count' = [_count EXCEPT ![x] = 0]
  \/ \E a \in Agents :
       /\ UNCHANGED <<_histories, fitted, _suspended>>
       /\ scored' = [scored EXCEPT ![a] = @ + 1]
       /\ _count' = [_count EXCEPT ![a] = @ + 1]
  \/ /\ _histories' = Fresh(0) /\ fitted' = Fresh(FALSE) /\ _count' = Fresh(0)
     /\ scored' = Fresh(0) /\ _suspended' = {}

LEMMA MemorySide ==
  ASSUME MemoryTypeOK, [Next]_vars
  PROVE  MemoryStep
<1> USE DEF MemoryStep, Observed
<1>1. CASE SkipMalformed \/ DeserializerRaises
  BY <1>1 DEF SkipMalformed, DeserializerRaises, Take
<1>2. ASSUME NEW a \in Agents, HandleNormal(a) PROVE MemoryStep
  BY <1>2 DEF HandleNormal, Take, Observe, fit, Counted
<1>3. ASSUME NEW a \in Agents, IgnoreAlarm(a) PROVE MemoryStep
  <2>1. Observed(a) /\ UNCHANGED _suspended
    BY <1>3 DEF IgnoreAlarm, Take, Observe, fit
  <2>2. \/ _count' = [_count EXCEPT ![a] = @ + 1]
        \/ _count' = [_count EXCEPT ![a] = 0]
    BY <1>3 DEF IgnoreAlarm, Counted, MemoryTypeOK
  <2>3. QED
    BY <2>1, <2>2
<1>4. ASSUME NEW a \in Agents, RaiseAlarm(a) PROVE MemoryStep
  BY <1>4 DEF RaiseAlarm, Take, Observe, fit, Counted, Alarm, is_anomalous, is_burst
<1>5. CASE Answered \/ GiveUp
  BY <1>5 DEF Answered, GiveUp, Resume
<1>6. ASSUME NEW a \in Agents, ScoreEndpoint(a) PROVE MemoryStep
  BY <1>6 DEF ScoreEndpoint, Counted
<1>7. CASE Crash
  BY <1>7 DEF Crash
<1>8. CASE PublishEvent \/ AutoCommit \/ Start \/ OperatorCalls
           \/ (\E w \in Threads : ThreadStep(w)) \/ UNCHANGED vars
  BY <1>8 DEF PublishEvent, AutoCommit, Start, OperatorCalls, ThreadStep, vars
<1>9. QED
  BY <1>1, <1>2, <1>3, <1>4, <1>5, <1>6, <1>7, <1>8 DEF Next, ConsumerStep

LEMMA MemoryTypeStep == MemoryTypeOK /\ MemoryStep => MemoryTypeOK'
<1> SUFFICES ASSUME MemoryTypeOK, MemoryStep PROVE MemoryTypeOK'
  OBVIOUS
<1> USE Bounds DEF MemoryTypeOK
<1>1. ASSUME NEW a \in Agents, Observed(a)
      PROVE  /\ _histories' \in [Agents -> 0 .. MaxLen] /\ fitted' \in [Agents -> BOOLEAN]
             /\ scored' \in [Agents -> Nat]
  BY <1>1 DEF Observed
<1>2. ASSUME NEW a \in Agents, _count' = [_count EXCEPT ![a] = @ + 1]
      PROVE  _count' \in [Agents -> Nat]
  BY <1>2
<1>3. ASSUME NEW x, _count' = [_count EXCEPT ![x] = 0] PROVE _count' \in [Agents -> Nat]
  BY <1>3
<1>4. ASSUME NEW a \in Agents, scored' = [scored EXCEPT ![a] = @ + 1]
      PROVE  scored' \in [Agents -> Nat]
  BY <1>4
<1>5. CASE /\ _histories' = Fresh(0) /\ fitted' = Fresh(FALSE) /\ _count' = Fresh(0)
           /\ scored' = Fresh(0) /\ _suspended' = {}
  BY <1>5 DEF Fresh
<1>6. QED
  BY <1>1, <1>2, <1>3, <1>4, <1>5 DEF MemoryStep

\* Only a publication changes the topic, and it makes it longer.
LEMMA LogStep ==
  ASSUME IsLog, [Next]_vars
  PROVE  /\ IsLog'
         /\ log' = log \/ (PublishEvent /\ Len(log') = Len(log) + 1)
<1>1. CASE PublishEvent
  BY <1>1 DEF PublishEvent, IsLog
<1>2. CASE UNCHANGED log
  BY <1>2 DEF IsLog
<1>3. CASE ~PublishEvent
  BY <1>2, <1>3
     DEF Next, ConsumerStep, SkipMalformed, DeserializerRaises, HandleNormal, IgnoreAlarm,
         RaiseAlarm, Take, Answered, GiveUp, Resume, ScoreEndpoint, AutoCommit, Start, Crash, OperatorCalls,
         ThreadStep, vars
<1>4. QED
  BY <1>1, <1>3

LEMMA ConsumerTypeStep ==
  ASSUME ConsumerTypeOK, [Next]_vars, Len(log) \in Nat,
         log' = log \/ (PublishEvent /\ Len(log') = Len(log) + 1)
  PROVE  ConsumerTypeOK'
<1> USE DEF ConsumerTypeOK
<1>1. CASE PublishEvent
  BY <1>1 DEF PublishEvent
<1>2. ASSUME NEW a, Take(a), UNCHANGED <<apc, burst, caller>> PROVE ConsumerTypeOK'
  BY <1>2 DEF Take
<1>3. ASSUME NEW a \in Agents, RaiseAlarm(a) PROVE ConsumerTypeOK'
  <2>1. burst' \in BOOLEAN
    BY <1>3 DEF RaiseAlarm, is_burst
  <2>2. caller' \in Threads \cup {NoThread}
    BY <1>3 DEF RaiseAlarm
  <2>3. QED
    BY <1>3, <2>1, <2>2 DEF RaiseAlarm, Take
<1>4. CASE Answered \/ GiveUp
  BY <1>4 DEF Answered, GiveUp, Resume
<1>5. CASE AutoCommit \/ Start \/ Crash
  <2>1. apc' \in {"down", "deaf", "idle", "waiting"}
    BY <1>5 DEF AutoCommit, Start, Crash
  <2>2. committed' \in 0 .. position' /\ position' \in 0 .. Len(log')
    <3>1. /\ Len(log') = Len(log)
          /\ position' \in {position, committed}
          /\ \/ committed' = committed
             \/ committed' = position /\ position' = position
      BY <1>5 DEF AutoCommit, Start, Crash
    <3>2. QED
      BY <3>1
  <2>3. burst' \in BOOLEAN
    BY <1>5 DEF AutoCommit, Start, Crash
  <2>4. caller' \in Threads \cup {NoThread}
    BY <1>5 DEF AutoCommit, Start, Crash
  <2>5. QED
    BY <2>1, <2>2, <2>3, <2>4
<1>6. CASE (\E a \in Agents : ScoreEndpoint(a)) \/ OperatorCalls
           \/ (\E w \in Threads : ThreadStep(w)) \/ UNCHANGED vars
  BY <1>6 DEF ScoreEndpoint, OperatorCalls, ThreadStep, vars
<1>7. CASE DeserializerRaises
  BY <1>7 DEF DeserializerRaises, waitFor
<1>8. QED
  BY <1>1, <1>2, <1>3, <1>4, <1>5, <1>6, <1>7
     DEF Next, ConsumerStep, SkipMalformed, HandleNormal, IgnoreAlarm

\* Every step keeps the types.
LEMMA TypeStep == TypeOK /\ [Next]_vars => TypeOK'
<1> SUFFICES ASSUME TypeOK, [Next]_vars PROVE TypeOK'
  OBVIOUS
<1>1. ApiTypeOK /\ MemoryTypeOK /\ IsLog /\ ConsumerTypeOK
  BY TypeParts
<1>2. ApiTypeOK'
  <2>1. CASE UNCHANGED apiVars
    BY <1>1, <2>1 DEF ApiTypeOK, apiVars
  <2>2. ASSUME NEW w \in Threads, ApiStep(w) PROVE ApiTypeOK'
    BY <1>1, <2>2, ApiTypeStep
  <2>3. QED
    BY <2>1, <2>2, ApiSide
<1>3. MemoryTypeOK' /\ IsLog' /\ ConsumerTypeOK'
  BY <1>1, MemorySide, MemoryTypeStep, LogStep, LogLength, ConsumerTypeStep
<1>4. QED
  BY <1>2, <1>3 DEF TypeOK, MemoryTypeOK, IsLog, ConsumerTypeOK

\* Detectors and models know their own agent's events only, and alarms come from them.
LEMMA OwnEventsStep ==
  ASSUME MemoryTypeOK, SuspendedForItsOwnEvents, CountsItsOwnEvents, MemoryStep
  PROVE  SuspendedForItsOwnEvents' /\ CountsItsOwnEvents'
<1> USE Bounds DEF MemoryTypeOK, SuspendedForItsOwnEvents, CountsItsOwnEvents
<1>1. ASSUME NEW a \in Agents, Observed(a),
             \/ _count' = [_count EXCEPT ![a] = @ + 1]
             \/ _count' = [_count EXCEPT ![a] = 0]
      PROVE  CountsItsOwnEvents'
  BY <1>1 DEF Observed
<1>2. ASSUME NEW a \in Agents, Observed(a), UNCHANGED _suspended
      PROVE  SuspendedForItsOwnEvents'
  BY <1>2 DEF Observed
<1>3. ASSUME NEW a \in Agents, Observed(a), CountsItsOwnEvents',
             _suspended' = _suspended \cup {a}, _count'[a] > BurstLimit \/ fitted'[a],
             _count' = [_count EXCEPT ![a] = @ + 1]
      PROVE  SuspendedForItsOwnEvents'
  BY <1>3 DEF Observed
<1>4. CASE /\ UNCHANGED <<_histories, fitted, _suspended, scored>>
           /\ _count' = _count \/ \E x : _count' = [_count EXCEPT ![x] = 0]
  BY <1>4
<1>5. ASSUME NEW a \in Agents, UNCHANGED <<_histories, fitted, _suspended>>,
             scored' = [scored EXCEPT ![a] = @ + 1], _count' = [_count EXCEPT ![a] = @ + 1]
      PROVE  SuspendedForItsOwnEvents' /\ CountsItsOwnEvents'
  BY <1>5
<1>6. CASE /\ _histories' = Fresh(0) /\ fitted' = Fresh(FALSE) /\ _count' = Fresh(0)
           /\ scored' = Fresh(0) /\ _suspended' = {}
  BY <1>6 DEF Fresh
<1>7. QED
  BY <1>1, <1>2, <1>3, <1>4, <1>5, <1>6 DEF MemoryStep

LEMMA InitIInv == Init => IInv
<1> SUFFICES ASSUME Init PROVE IInv
  OBVIOUS
<1>1. (CHOOSE b \in Agents : TRUE) \in Agents
  OBVIOUS
<1>2. TypeOK
  <2>1. Idle \in Handlers
    BY <1>1 DEF Idle, Handler, Handlers
  <2>2. ApiTypeOK
    BY <2>1 DEF Init, ApiInit, ApiTypeOK
  <2>3. MemoryTypeOK
    BY Bounds DEF Init, MemoryTypeOK, Fresh
  <2>4. <<>> \in Seq(Agents \cup {Malformed, NotJson}) /\ Len(<<>>) = 0
    OBVIOUS
  <2>5. IsLog /\ Len(log) = 0
    BY <2>4, Zenon DEF Init, IsLog
  <2>6. ConsumerTypeOK
    <3>1. apc \in {"down", "deaf", "idle", "waiting"}
      BY DEF Init
    <3>2. committed \in 0 .. position /\ position \in 0 .. Len(log)
      BY <2>5 DEF Init
    <3>3. burst \in BOOLEAN
      BY DEF Init
    <3>4. caller \in Threads \cup {NoThread}
      BY DEF Init
    <3>5. QED
      BY <3>1, <3>2, <3>3, <3>4 DEF ConsumerTypeOK
  <2>7. QED
    BY <2>2, <2>3, <2>5, <2>6, TypeParts
<1>3. BooksBalance
  <2>1. Uncounted("set") = {} /\ Uncounted("del") = {} /\ suspended = {}
    BY DEF Init, ApiInit, Idle, Handler, Uncounted
  <2>2. Cardinality({}) = 0
    BY FS_EmptySet
  <2>3. /\ Cardinality(suspended) = 0 /\ Cardinality(Uncounted("set")) = 0
        /\ Cardinality(Uncounted("del")) = 0
    BY <2>1, <2>2, Zenon
  <2>4. QED
    BY <2>3 DEF Init, ApiInit, BooksBalance
<1>4. SuspendedHasReason /\ DeletesNoReason
  BY DEF Init, ApiInit, SuspendedHasReason, DeletesNoReason
<1>5. SuspendedForItsOwnEvents /\ CountsItsOwnEvents
  BY Bounds DEF Init, Fresh, SuspendedForItsOwnEvents, CountsItsOwnEvents
<1>6. QED
  BY <1>2, <1>3, <1>4, <1>5 DEF IInv

\* IInv holds in every reachable state.
THEOREM Inductive == Spec => []IInv
<1>1. IInv /\ [Next]_vars => IInv'
  <2> SUFFICES ASSUME IInv, [Next]_vars PROVE IInv'
    OBVIOUS
  <2>1. TypeOK' /\ SuspendedForItsOwnEvents' /\ CountsItsOwnEvents'
    BY TypeStep, MemorySide, OwnEventsStep, TypeParts DEF IInv
  <2>2. BooksBalance' /\ SuspendedHasReason' /\ DeletesNoReason'
    <3>1. CASE UNCHANGED apiVars
      BY <3>1 DEF IInv, apiVars, BooksBalance, Uncounted, SuspendedHasReason, DeletesNoReason
    <3>2. ASSUME NEW w \in Threads, ApiStep(w)
          PROVE  BooksBalance' /\ SuspendedHasReason' /\ DeletesNoReason'
      BY <3>2, BooksStep, ReasonStep DEF IInv, TypeOK
    <3>3. QED
      BY <3>1, <3>2, ApiSide
  <2>3. QED
    BY <2>1, <2>2 DEF IInv
<1>2. QED
  BY <1>1, InitIInv, PTL DEF Spec

-----------------------------------------------------------------------------

\* Every variable keeps its type, and the group's offset stays behind the consumer.
THEOREM TypeCorrect == Spec => []TypeOK
<1>1. IInv => TypeOK
  BY DEF IInv
<1>2. QED
  BY <1>1, Inductive, PTL

\* suspend_identity and unsuspend_identity (identity/api.py) count every change of
\* the set once, however many of them interleave.
THEOREM BooksAlwaysBalance == Spec => []BooksBalance
<1>1. IInv => BooksBalance
  BY DEF IInv
<1>2. QED
  BY <1>1, Inductive, PTL

\* A suspended identity has its reason, or is about to, unless a reinstatement or a
\* failing Redis tore its suspension (identity/api.py).
THEOREM ReasonsAreKept == Spec => []SuspendedHasReason
<1>1. IInv => SuspendedHasReason
  BY DEF IInv
<1>2. QED
  BY <1>1, Inductive, PTL

\* The service (anomaly/service.py) marks an agent for events of its own only.
THEOREM OwnEventsOnly == Spec => []SuspendedForItsOwnEvents
<1>1. IInv => SuspendedForItsOwnEvents
  BY DEF IInv
<1>2. QED
  BY <1>1, Inductive, PTL

=============================================================================
