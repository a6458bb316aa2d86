------------------------ MODULE ApprovalQueueProofs -------------------------
(* What ApprovalQueue guarantees for any number of requests and of threads *)
(* at PATCH and at GET, each of which may stop after any Redis command.    *)
EXTENDS ApprovalQueue, TLAPS

Verdicts == {"APPROVED", "DENIED"}

\* The values of the threads' local variables, and of the history.
ThreadsTyped ==
  /\ resolver \in [Resolvers ->
       [pc : {"idle", "setex", "srem"}, id : Ids \cup {"none"},
        status : Verdicts \cup {"none"}, approver : Approvers \cup {"none"}]]
  /\ lister \in [Listers ->
       [pc : {"idle", "get", "srem"}, left : SUBSET Ids, gone : SUBSET Ids,
        results : SUBSET (Ids \X {"none", "PENDING", "APPROVED", "DENIED"})]]
  /\ \A w \in Listers : lister[w].pc # "srem" => lister[w].gone = {}
  /\ answers \subseteq
       [id : Ids, by : Resolvers, status : Verdicts, approver : Approvers]
  /\ created \subseteq Ids

\* A request was written exactly when its writer has begun, and only a written
\* request is in the set, in the hands of a thread or answered.
OnlyWritten ==
  /\ \A q \in Ids : q \in created <=> writer[q] # "unused"
  /\ \A a \in answers : a.id \in created

\* A thread past its checks holds the decision of another identity.
CheckedResolvers ==
  \A w \in Resolvers : resolver[w].pc # "idle" =>
    /\ resolver[w].id \in created
    /\ resolver[w].status \in Verdicts
    /\ resolver[w].approver \in Approvers \ {Agent}

\* A request that was answered, or that a thread is about to take out of the
\* set, does not wait for a decision any more, and never will again: ids are not
\* used twice.
RemovedIsOver ==
  /\ \A a \in answers : record[a.id].status # "PENDING"
  /\ \A w \in Resolvers :
       Stored(w) => record[resolver[w].id].status # "PENDING"
  /\ \A w \in Listers : \A q \in lister[w].gone : record[q].status # "PENDING"

\* A thread answers a request once: the one it resolves it has not answered yet.
OneAnswerEach ==
  /\ \A a, b \in answers : a.id = b.id /\ a.by = b.by => a = b
  /\ \A w \in Resolvers : resolver[w].pc # "idle" =>
       ~\E a \in answers : a.id = resolver[w].id /\ a.by = w

\* The decision in the record of q is one that was answered or will be.
Accounted(q) ==
  \/ record[q] = Nothing \/ record[q].status = "PENDING"
  \/ \E b \in answers : b.id = q /\ record[q] = Decided(b)
  \/ \E w \in Resolvers :
       Stored(w) /\ resolver[w].id = q /\ record[q] = Decided(resolver[w])

AllAccounted == \A q \in Ids : Accounted(q)

\* The inductive invariant: it implies DecisionIsFinal.
IInv ==
  /\ TypeOK /\ ThreadsTyped /\ OnlyWritten /\ CheckedResolvers
  /\ RemovedIsOver /\ OneAnswerEach /\ AllAccounted
  /\ NoSelfApproval /\ WaitingIsListed

-----------------------------------------------------------------------------

LEMMA InitIInv == Init => IInv
<1> SUFFICES ASSUME Init PROVE IInv
  OBVIOUS
<1> USE ApprovalAssumption DEF Init, Nothing, Idle, NotListing, Listing
<1>1. TypeOK /\ ThreadsTyped
  BY DEF TypeOK, ThreadsTyped
<1>2. OnlyWritten /\ CheckedResolvers /\ RemovedIsOver /\ OneAnswerEach
  BY DEF OnlyWritten, CheckedResolvers, RemovedIsOver, OneAnswerEach, Stored
<1>3. NoSelfApproval /\ WaitingIsListed /\ AllAccounted
  BY DEF NoSelfApproval, WaitingIsListed, AllAccounted, Accounted
<1>4. QED
  BY <1>1, <1>2, <1>3 DEF IInv

\* What a record is when it holds a decision.
LEMMA DecidedRecord ==
  ASSUME NEW x, x.status \in Verdicts
  PROVE  /\ Decided(x) # Nothing /\ Decided(x).status # "PENDING"
         /\ Decided(x).status = x.status /\ Decided(x).approver = x.approver
BY DEF Decided, Written, Nothing, Verdicts

\* A record that stays accounts for itself as long as no thread that has stored a
\* decision loses it without an answer.
LEMMA AccountedStays ==
  ASSUME IInv, NEW q \in Ids, record'[q] = record[q], answers \subseteq answers',
         \A w \in Resolvers : Stored(w) =>
           \/ resolver'[w] = resolver[w]
           \/ \E b \in answers' :
                b.id = resolver[w].id /\ Decided(b) = Decided(resolver[w])
  PROVE  Accounted(q)'
<1>1. CASE record[q] = Nothing \/ record[q].status = "PENDING"
  BY <1>1 DEF Accounted, Nothing
<1>2. ASSUME NEW b \in answers, b.id = q, record[q] = Decided(b)
      PROVE  Accounted(q)'
  BY <1>2 DEF Accounted
<1>3. ASSUME NEW w \in Resolvers, Stored(w), resolver[w].id = q,
             record[q] = Decided(resolver[w])
      PROVE  Accounted(q)'
  <2>1. CASE resolver'[w] = resolver[w]
    BY <1>3, <2>1 DEF Accounted, Stored, Decided
  <2>2. CASE \E b \in answers' :
               b.id = resolver[w].id /\ Decided(b) = Decided(resolver[w])
    BY <1>3, <2>2 DEF Accounted
  <2>3. QED
    BY <1>3, <2>1, <2>2
<1>4. QED
  BY <1>1, <1>2, <1>3 DEF IInv, AllAccounted, Accounted

-----------------------------------------------------------------------------
(* The writers                                                             *)

\* A new request is one that nobody knew of.
LEMMA NewRecordKeeps ==
  ASSUME IInv, NEW q \in Ids, EnqueueRecord(q) \/ PepQueueApproval(q)
  PROVE  IInv'
<1>1. /\ q \notin created /\ created' = created \cup {q}
      /\ UNCHANGED <<pending, resolver, lister, answers>>
      /\ \E e \in {"setex", "pep"} : writer' = [writer EXCEPT ![q] = e]
      /\ \E b \in BOOLEAN : record' = [record EXCEPT ![q] =
           [status |-> "PENDING", approver |-> "none", json |-> b]]
  BY DEF EnqueueRecord, PepQueueApproval, Written, IInv, OnlyWritten
<1>2. TypeOK'
  BY <1>1 DEF IInv, TypeOK
<1>3. ThreadsTyped' /\ OnlyWritten' /\ CheckedResolvers' /\ OneAnswerEach'
  BY <1>1 DEF IInv, TypeOK, ThreadsTyped, OnlyWritten, CheckedResolvers, OneAnswerEach
<1>4. RemovedIsOver'
  BY <1>1 DEF IInv, TypeOK, RemovedIsOver, OnlyWritten, CheckedResolvers, Stored
<1>5. NoSelfApproval' /\ WaitingIsListed'
  BY <1>1, ApprovalAssumption DEF IInv, TypeOK, NoSelfApproval, WaitingIsListed
<1>6. ASSUME NEW p \in Ids PROVE Accounted(p)'
  <2>1. CASE p = q
    BY <1>1, <2>1 DEF IInv, TypeOK, Accounted
  <2>2. CASE p # q
    BY <1>1, <2>2, AccountedStays DEF IInv, TypeOK
  <2>3. QED
    BY <2>1, <2>2
<1>7. QED
  BY <1>2, <1>3, <1>4, <1>5, <1>6 DEF IInv, AllAccounted

LEMMA EnqueueIdKeeps ==
  ASSUME IInv, NEW q \in Ids, EnqueueId(q) PROVE IInv'
<1> USE DEF EnqueueId
<1>1. TypeOK' /\ ThreadsTyped' /\ OnlyWritten' /\ CheckedResolvers' /\ OneAnswerEach'
  BY DEF IInv, TypeOK, ThreadsTyped, OnlyWritten, CheckedResolvers, OneAnswerEach
<1>2. RemovedIsOver' /\ NoSelfApproval' /\ WaitingIsListed'
  BY DEF IInv, TypeOK, RemovedIsOver, Stored, NoSelfApproval, WaitingIsListed
<1>3. AllAccounted'
  BY AccountedStays DEF AllAccounted
<1>4. QED
  BY <1>1, <1>2, <1>3 DEF IInv

LEMMA ExpireKeeps ==
  ASSUME IInv, NEW q \in Ids, Expire(q) PROVE IInv'
<1> USE DEF Expire
<1>1. TypeOK' /\ ThreadsTyped' /\ OnlyWritten' /\ CheckedResolvers' /\ OneAnswerEach'
  BY DEF IInv, TypeOK, ThreadsTyped, OnlyWritten, CheckedResolvers, OneAnswerEach, Nothing
<1>2. record'[q].status # "PENDING" /\ record'[q] = Nothing
  BY DEF IInv, TypeOK, Nothing
<1>3. \A p \in Ids \ {q} : record'[p] = record[p]
  BY DEF IInv, TypeOK
<1>4. RemovedIsOver'
  BY <1>2, <1>3 DEF IInv, TypeOK, ThreadsTyped, RemovedIsOver, CheckedResolvers, Stored
<1>5. NoSelfApproval' /\ WaitingIsListed'
  BY <1>2, <1>3, ApprovalAssumption DEF IInv, NoSelfApproval, WaitingIsListed, Nothing
<1>6. AllAccounted'
  BY <1>2, <1>3, AccountedStays DEF AllAccounted, Accounted
<1>7. QED
  BY <1>1, <1>4, <1>5, <1>6 DEF IInv

-----------------------------------------------------------------------------
(* PATCH /approvals/{id}                                                   *)

\* What the checks let through is a request nobody has answered.
LEMMA ResolveGetKeeps ==
  ASSUME IInv, NEW w \in Resolvers, NEW q \in Ids, NEW who \in Approvers,
         NEW action \in {"approve", "deny"}, ResolveGet(w, q, who, action)
  PROVE  IInv'
<1> USE DEF ResolveGet
<1>1. q \in created /\ who # Agent /\ new_status(action) \in Verdicts
  BY DEF IInv, TypeOK, Resolvable, new_status, Verdicts
<1>2. ~\E a \in answers : a.id = q
  BY DEF Resolvable, IInv, RemovedIsOver
<1>3. TypeOK' /\ ThreadsTyped' /\ OnlyWritten' /\ CheckedResolvers'
  BY <1>1 DEF IInv, TypeOK, ThreadsTyped, OnlyWritten, CheckedResolvers
<1>4. RemovedIsOver' /\ NoSelfApproval' /\ WaitingIsListed'
  BY DEF IInv, ThreadsTyped, RemovedIsOver, Stored, NoSelfApproval, WaitingIsListed
<1>5. OneAnswerEach'
  BY <1>2 DEF IInv, ThreadsTyped, OneAnswerEach
<1>6. AllAccounted'
  BY AccountedStays DEF AllAccounted, IInv, ThreadsTyped, Stored
<1>7. QED
  BY <1>3, <1>4, <1>5, <1>6 DEF IInv

LEMMA ResolveSetKeeps ==
  ASSUME IInv, NEW w \in Resolvers, ResolveSet(w) PROVE IInv'
<1> USE DEF ResolveSet
<1> DEFINE q == resolver[w].id
<1>1. /\ q \in created /\ q \in Ids
      /\ resolver[w].status \in Verdicts /\ resolver[w].approver \in Approvers \ {Agent}
  BY DEF IInv, CheckedResolvers, ThreadsTyped
<1>2. record' = [record EXCEPT ![q] = Decided(resolver[w])]
  BY DEF Decided
<1>3. /\ Decided(resolver'[w]) = Decided(resolver[w])
      /\ Stored(w)' /\ resolver'[w].id = q /\ ~Stored(w)
      /\ \A v \in Resolvers \ {w} : resolver'[v] = resolver[v]
  BY DEF IInv, ThreadsTyped, Decided, Written, Stored
<1>4. TypeOK' /\ ThreadsTyped' /\ OnlyWritten'
  BY <1>1, <1>2 DEF IInv, TypeOK, ThreadsTyped, OnlyWritten, Decided, Written, Verdicts
<1>5. CheckedResolvers' /\ OneAnswerEach'
  BY <1>1 DEF IInv, ThreadsTyped, CheckedResolvers, OneAnswerEach
<1>6. record'[q].status # "PENDING" /\ record'[q].approver # Agent
  BY <1>1, <1>2, DecidedRecord DEF IInv, TypeOK
<1>7. \A p \in Ids \ {q} : record'[p] = record[p]
  BY <1>2 DEF IInv, TypeOK
<1>8. RemovedIsOver'
  BY <1>1, <1>3, <1>6, <1>7
     DEF IInv, TypeOK, ThreadsTyped, RemovedIsOver, CheckedResolvers, Stored
<1>9. NoSelfApproval' /\ WaitingIsListed'
  BY <1>6, <1>7 DEF IInv, NoSelfApproval, WaitingIsListed
<1>10. ASSUME NEW p \in Ids PROVE Accounted(p)'
  <2>1. CASE p = q
    <3>1. record'[p] = Decided(resolver'[w]) /\ resolver'[w].id = p
      BY <1>1, <1>2, <1>3, <2>1 DEF IInv, TypeOK
    <3>2. QED
      BY <1>3, <3>1 DEF Accounted, Stored, Decided
  <2>2. CASE p # q
    BY <1>3, <1>7, <2>2, AccountedStays
  <2>3. QED
    BY <2>1, <2>2
<1>11. QED
  BY <1>4, <1>5, <1>8, <1>9, <1>10 DEF IInv, AllAccounted

\* The answer is the resolution the thread holds.
LEMMA ResolveRemoveKeeps ==
  ASSUME IInv, NEW w \in Resolvers, ResolveRemove(w) PROVE IInv'
<1> USE DEF ResolveRemove
<1> DEFINE q == resolver[w].id
           new == [id |-> q, by |-> w, status |-> resolver[w].status,
                   approver |-> resolver[w].approver]
<1>1. /\ q \in created /\ q \in Ids
      /\ resolver[w].status \in Verdicts /\ resolver[w].approver \in Approvers \ {Agent}
  BY DEF IInv, CheckedResolvers, ThreadsTyped
<1>2. answers' = answers \cup {new} /\ Decided(new) = Decided(resolver[w])
  BY DEF Decided
<1>3. TypeOK' /\ ThreadsTyped' /\ OnlyWritten'
  BY <1>1 DEF IInv, TypeOK, ThreadsTyped, OnlyWritten, Idle
<1>4. CheckedResolvers'
  BY <1>1 DEF IInv, ThreadsTyped, CheckedResolvers, Idle
<1>5. OneAnswerEach'
  BY <1>1, <1>2 DEF IInv, ThreadsTyped, OneAnswerEach, Idle
<1>6. RemovedIsOver' /\ NoSelfApproval' /\ WaitingIsListed'
  BY <1>1 DEF IInv, TypeOK, ThreadsTyped, RemovedIsOver, Stored, NoSelfApproval,
              WaitingIsListed, Idle
<1>7. \A v \in Resolvers \ {w} : resolver'[v] = resolver[v]
  BY DEF IInv, ThreadsTyped
<1>8. AllAccounted'
  BY <1>2, <1>7, AccountedStays DEF AllAccounted
<1>9. QED
  BY <1>3, <1>4, <1>5, <1>6, <1>8 DEF IInv

-----------------------------------------------------------------------------
(* GET /approvals                                                          *)

\* A listing changes nothing but its own thread and the set.
LEMMA ListChanges ==
  ASSUME NEW w \in Listers, ListStep(w)
  PROVE  UNCHANGED <<record, writer, resolver, answers, created>>
BY DEF ListStep, ListMembers, ListGet, ListRemove, ListReturn

\* An id is pruned because its record was found missing, which no later step
\* can turn into a waiting request.
LEMMA PrunedIsOver ==
  ASSUME IInv, NEW w \in Listers, ListStep(w)
  PROVE  /\ pending' \subseteq created
         /\ \A q \in pending \ pending' : record[q].status # "PENDING"
<1>1. CASE ListRemove(w)
  BY <1>1 DEF ListRemove, IInv, TypeOK, RemovedIsOver
<1>2. CASE ~ListRemove(w)
  BY <1>2 DEF ListStep, ListMembers, ListGet, ListReturn, IInv, TypeOK
<1>3. QED
  BY <1>1, <1>2

\* What a listing thread holds after its step.
LEMMA ListerTyped ==
  ASSUME IInv, NEW w \in Listers, ListStep(w)
  PROVE  /\ lister' \in [Listers ->
              [pc : {"idle", "get", "srem"}, left : SUBSET Ids, gone : SUBSET Ids,
               results : SUBSET (Ids \X {"none", "PENDING", "APPROVED", "DENIED"})]]
         /\ \A v \in Listers \ {w} : lister'[v] = lister[v]
         /\ lister'[w].pc # "srem" => lister'[w].gone = {}
         /\ lister'[w].left \subseteq created /\ lister'[w].gone \subseteq lister'[w].left
         /\ \A q \in lister'[w].gone : record[q].status # "PENDING"
<1> USE DEF IInv, TypeOK, ThreadsTyped, RemovedIsOver
<1>1. CASE ListMembers(w)
  BY <1>1 DEF ListMembers, Listing
<1>2. ASSUME NEW q \in Ids, ListGet(w, q), record[q] = Nothing
      PROVE  /\ lister' = [lister EXCEPT ![w] =
                             Listing("srem", lister[w].left, {q}, lister[w].results)]
             /\ q \in lister[w].left /\ record[q].status # "PENDING"
  BY <1>2 DEF ListGet, Nothing
<1>3. ASSUME NEW q \in Ids, ListGet(w, q), record[q] # Nothing, record[q].json
      PROVE  lister' = [lister EXCEPT ![w] =
               Listing("get", lister[w].left \ {q}, {},
                       lister[w].results \cup {<<q, record[q].status>>})]
  BY <1>3 DEF ListGet
<1>4. ASSUME NEW q \in Ids, ListGet(w, q), record[q] # Nothing, ~record[q].json
      PROVE  lister' = [lister EXCEPT ![w] = NotListing]
  BY <1>4 DEF ListGet
<1>5. CASE ListRemove(w)
  BY <1>5 DEF ListRemove, Listing
<1>6. CASE ListReturn(w)
  BY <1>6 DEF ListReturn, NotListing, Listing
<1>7. QED
  BY <1>1, <1>2, <1>3, <1>4, <1>5, <1>6 DEF ListStep, NotListing, Listing

LEMMA ListStepKeeps ==
  ASSUME IInv, NEW w \in Listers, ListStep(w) PROVE IInv'
<1>1. TypeOK' /\ ThreadsTyped'
  <2>1. TypeOK'
    BY ListChanges, PrunedIsOver, ListerTyped DEF IInv, TypeOK
  <2>2. \A v \in Listers : lister'[v].pc # "srem" => lister'[v].gone = {}
    BY ListerTyped DEF IInv, ThreadsTyped
  <2>3. QED
    BY <2>1, <2>2, ListChanges, ListerTyped DEF IInv, ThreadsTyped
<1>2. OnlyWritten' /\ CheckedResolvers' /\ OneAnswerEach' /\ NoSelfApproval'
  BY ListChanges DEF IInv, OnlyWritten, CheckedResolvers, OneAnswerEach, NoSelfApproval
<1>3. RemovedIsOver'
  BY ListChanges, ListerTyped DEF IInv, RemovedIsOver, Stored
<1>4. WaitingIsListed'
  BY ListChanges, PrunedIsOver DEF IInv, WaitingIsListed
<1>5. AllAccounted'
  BY ListChanges, AccountedStays DEF AllAccounted
<1>6. QED
  BY <1>1, <1>2, <1>3, <1>4, <1>5 DEF IInv

-----------------------------------------------------------------------------

\* IInv holds in every reachable state.
THEOREM Inductive == Spec => []IInv
<1>1. IInv /\ [Next]_vars => IInv'
  <2> SUFFICES ASSUME IInv, [Next]_vars PROVE IInv'
    OBVIOUS
  <2>1. CASE UNCHANGED vars
    BY <2>1 DEF vars, IInv, TypeOK, ThreadsTyped, OnlyWritten, CheckedResolvers,
      RemovedIsOver, OneAnswerEach, AllAccounted, Accounted, NoSelfApproval,
      WaitingIsListed, Stored, Decided
  <2>2. CASE Next
    BY <2>2, NewRecordKeeps, EnqueueIdKeeps, ExpireKeeps, ResolveGetKeeps,
       ResolveSetKeeps, ResolveRemoveKeeps, ListStepKeeps DEF Next, WriterStep
  <2>3. QED
    BY <2>1, <2>2
<1>2. QED
  BY <1>1, InitIInv, PTL DEF Spec

\* The records, the set and the threads of the approval API hold what their
\* types say; only a request that was written is in the set or with a thread.
THEOREM TypeCorrect == Spec => []TypeOK
<1>1. IInv => TypeOK
  BY DEF IInv
<1>2. QED
  BY <1>1, Inductive, PTL

\* resolve() compares the approver with the requester before its SETEX; no
\* interleaving of threads stores or answers a self-approval (FR-3.8).
THEOREM NobodyApprovesThemselves == Spec => []NoSelfApproval
<1>1. IInv => NoSelfApproval
  BY DEF IInv
<1>2. QED
  BY <1>1, Inductive, PTL

\* Neither resolve()'s SREM nor list_pending()'s pruning takes a waiting request
\* out of the set that GET /approvals reads.
THEOREM WaitingRequestsAreListed == Spec => []WaitingIsListed
<1>1. IInv => WaitingIsListed
  BY DEF IInv
<1>2. QED
  BY <1>1, Inductive, PTL

\* A decision that was answered with 200 is never undone by a later request, and
\* the record of such a request holds a decision that is answered or will be.
THEOREM AnsweredDecisionIsFinal == Spec => []DecisionIsFinal
<1>1. IInv => DecisionIsFinal
  BY DEF IInv, ThreadsTyped, RemovedIsOver, OneAnswerEach, AllAccounted, Accounted,
         DecisionIsFinal
<1>2. QED
  BY <1>1, Inductive, PTL

\* The only step that writes PENDING is the first of a request, and a thread that
\* stores a record stores a verdict: a request that is over stays over.
THEOREM OverIsOver == Spec => NeverWaitsAgain
<1> DEFINE Over(q) == writer[q] # "unused" /\ record[q].status # "PENDING"
<1>1. ASSUME IInv, [Next]_vars, NEW q \in Ids, Over(q)
      PROVE  record'[q].status # "PENDING"
  <2> USE <1>1 DEF IInv, TypeOK
  <2>1. CASE UNCHANGED vars
    BY <2>1 DEF vars
  <2>2. ASSUME NEW p \in Ids, WriterStep(p)
        PROVE  record'[q].status # "PENDING"
    BY <2>2 DEF WriterStep, EnqueueRecord, EnqueueId, PepQueueApproval
  <2>3. ASSUME NEW p \in Ids, Expire(p)
        PROVE  record'[q].status # "PENDING"
    BY <2>3 DEF Expire, Nothing
  <2>4. ASSUME NEW w \in Resolvers, ResolveSet(w)
        PROVE  record'[q].status # "PENDING"
    <3>1. Decided(resolver[w]).status # "PENDING"
      BY <2>4, DecidedRecord DEF ResolveSet, CheckedResolvers
    <3>2. QED
      BY <2>4, <3>1 DEF ResolveSet, Decided
  <2>5. ASSUME NEW w \in Resolvers, NEW p \in Ids, NEW who \in Approvers,
               NEW action \in {"approve", "deny"},
               ResolveGet(w, p, who, action) \/ ResolveRemove(w)
        PROVE  record'[q].status # "PENDING"
    BY <2>5 DEF ResolveGet, ResolveRemove
  <2>6. ASSUME NEW w \in Resolvers, ResolveRemove(w)
        PROVE  record'[q].status # "PENDING"
    BY <2>6 DEF ResolveRemove
  <2>7. ASSUME NEW w \in Listers, ListStep(w)
        PROVE  record'[q].status # "PENDING"
    BY <2>7, ListChanges
  <2>8. QED
    BY <1>1, <2>1, <2>2, <2>3, <2>4, <2>5, <2>6, <2>7 DEF Next
<1>2. IInv /\ [Next]_vars =>
        [\A q \in Ids : Over(q) => record'[q].status # "PENDING"]_vars
  BY <1>1
<1>3. QED
  BY <1>2, Inductive, PTL DEF Spec, NeverWaitsAgain

=============================================================================
