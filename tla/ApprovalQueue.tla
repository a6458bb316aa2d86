--------------------------- MODULE ApprovalQueue ----------------------------
(***************************************************************************)
(* Human approval: the records in Redis (approval/queue.py), the REST API  *)
(* over them (approval/api.py), whose handlers run in threads of a pool,   *)
(* and the two writers, ApprovalQueue.enqueue and the PEP's                *)
(* _queue_approval (pep/client.py).  Every Redis command is one step, so   *)
(* resolve() and list_pending() may interleave anywhere between two.  A     *)
(* handler that fails or dies half way is one that takes no further step.  *)
(***************************************************************************)
EXTENDS FiniteSets

CONSTANTS
  Ids,          \* request ids (UUIDs, never used twice)
  Agent,        \* the identity all requests are made for
  Approvers,    \* identities that call PATCH /approvals/{id}
  Resolvers,    \* threads that serve PATCH
  Listers,      \* threads that serve GET /approvals
  PepWrites     \* the PEP queues requests as well

\* "none" stands for a missing approver, so no identity has that name.
ASSUME ApprovalAssumption == PepWrites \in BOOLEAN /\ Agent # "none"

VARIABLES
  record,    \* [id] the value of approval:{id}: status, approver, encoding
  pending,   \* the set approval:pending
  writer,    \* [id] the writer: "unused", "setex" (done), "queued", "pep"
  resolver,  \* [thread] its pc and the resolution in hand
  lister,    \* [thread] its pc, the ids left, the one not found, and the answer
  answers,   \* history: resolutions answered with 200
  created    \* history: ids whose record was written

vars == <<record, pending, writer, resolver, lister, answers, created>>

\* A missing or expired key.
Nothing == [status |-> "none", approver |-> "none", json |-> FALSE]

Written(status, who) == [status |-> status, approver |-> who, json |-> TRUE]

Idle == [pc |-> "idle", id |-> "none", status |-> "none", approver |-> "none"]

Listing(pc, left, gone, results) ==
  [pc |-> pc, left |-> left, gone |-> gone, results |-> results]

NotListing == Listing("idle", {}, {}, {})

Init ==
  /\ record = [q \in Ids |-> Nothing]
  /\ pending = {}
  /\ writer = [q \in Ids |-> "unused"]
  /\ resolver = [w \in Resolvers |-> Idle]
  /\ lister = [w \in Listers |-> NotListing]
  /\ answers = {}
  /\ created = {}

-----------------------------------------------------------------------------
(* Writers                                                                 *)

\* enqueue: SETEX with the request's TTL ...
EnqueueRecord(q) ==
  /\ writer[q] = "unused"
  /\ record' = [record EXCEPT ![q] = Written("PENDING", "none")]
  /\ writer' = [writer EXCEPT ![q] = "setex"]
  /\ created' = created \cup {q}
  /\ UNCHANGED <<pending, resolver, lister, answers>>

\* Mutant: an enqueue whose SADD failed starts over with its SETEX.
MutEnqueueOver(q) ==
  /\ writer[q] = "setex"
  /\ record' = [record EXCEPT ![q] = Written("PENDING", "none")]
  /\ pending' = pending \cup {q}
  /\ writer' = [writer EXCEPT ![q] = "queued"]
  /\ UNCHANGED <<resolver, lister, answers, created>>

\* ... then SADD.
EnqueueId(q) ==
  /\ writer[q] = "setex"
  /\ pending' = pending \cup {q}
  /\ writer' = [writer EXCEPT ![q] = "queued"]
  /\ UNCHANGED <<record, resolver, lister, answers, created>>

\* _queue_approval: SETEX of str(dict), which is not JSON, and nothing else.
PepQueueApproval(q) ==
  /\ PepWrites
  /\ writer[q] = "unused"
  /\ record' = [record EXCEPT ![q] =
                  [status |-> "PENDING", approver |-> "none", json |-> FALSE]]
  /\ writer' = [writer EXCEPT ![q] = "pep"]
  /\ created' = created \cup {q}
  /\ UNCHANGED <<pending, resolver, lister, answers>>

\* The TTL of the key is over.
Expire(q) ==
  /\ record[q] # Nothing
  /\ record' = [record EXCEPT ![q] = Nothing]
  /\ UNCHANGED <<pending, writer, resolver, lister, answers, created>>

-----------------------------------------------------------------------------
(* PATCH /approvals/{id}: resolve()                                        *)

\* Mutant: anybody may resolve a request.
MutAnyApprover(q, who) ==
  /\ record[q] # Nothing
  /\ record[q].json
  /\ record[q].status = "PENDING"

\* Mutant: a resolved request may be resolved again.
MutResolveAgain(q, who) ==
  /\ record[q] # Nothing
  /\ record[q].json
  /\ who # Agent

\* What GET and the checks after it let through.  Otherwise the handler ends in
\* 404 (no record), 500 (not JSON), 409 (resolved) or 403 (self-approval).
Resolvable(q, who) ==
  /\ record[q] # Nothing
  /\ record[q].json
  /\ record[q].status = "PENDING"
  /\ who # Agent

\* Mutant: the verb of the request is stored as the status.
MutVerbAsStatus(action) == action

new_status(action) == IF action = "approve" THEN "APPROVED" ELSE "DENIED"

ResolveGet(w, q, who, action) ==
  /\ resolver[w].pc = "idle"
  /\ Resolvable(q, who)
  /\ resolver' = [resolver EXCEPT ![w] =
       [pc |-> "setex", id |-> q, status |-> new_status(action), approver |-> who]]
  /\ UNCHANGED <<record, pending, writer, lister, answers, created>>

\* The updated record, kept for an hour from now.
ResolveSet(w) ==
  /\ resolver[w].pc = "setex"
  /\ record' = [record EXCEPT ![resolver[w].id] =
                  Written(resolver[w].status, resolver[w].approver)]
  /\ resolver' = [resolver EXCEPT ![w].pc = "srem"]
  /\ UNCHANGED <<pending, writer, lister, answers, created>>

\* SREM, and the answer 200 with the resolved request.
ResolveRemove(w) ==
  /\ resolver[w].pc = "srem"
  /\ pending' = pending \ {resolver[w].id}
  /\ answers' = answers \cup {[id |-> resolver[w].id, by |-> w,
       status |-> resolver[w].status, approver |-> resolver[w].approver]}
  /\ resolver' = [resolver EXCEPT ![w] = Idle]
  /\ UNCHANGED <<record, writer, lister, created>>

-----------------------------------------------------------------------------
(* GET /approvals: list_pending()                                          *)

ListMembers(w) ==
  /\ lister[w].pc = "idle"
  /\ pending # {}
  /\ lister' = [lister EXCEPT ![w] =
       Listing("get", pending, {}, {})]
  /\ UNCHANGED <<record, pending, writer, resolver, answers, created>>

\* get() of one id: its record goes to the results, a missing one is to be
\* removed, and one that is not JSON ends the request.
ListGet(w, q) ==
  /\ lister[w].pc = "get"
  /\ q \in lister[w].left
  /\ \/ /\ record[q] = Nothing
        /\ lister' = [lister EXCEPT ![w] = Listing("srem", @.left, {q}, @.results)]
     \/ /\ record[q] # Nothing /\ record[q].json
        /\ lister' = [lister EXCEPT ![w] =
             Listing("get", @.left \ {q}, {}, @.results \cup {<<q, record[q].status>>})]
     \/ /\ record[q] # Nothing /\ ~record[q].json
        /\ lister' = [lister EXCEPT ![w] = NotListing]
  /\ UNCHANGED <<record, pending, writer, resolver, answers, created>>

\* Mutant: an expired id is left in the set.
MutKeepExpired(w) ==
  /\ lister[w].pc = "srem"
  /\ lister' = [lister EXCEPT ![w] =
       Listing("get", @.left \ @.gone, {}, @.results)]
  /\ UNCHANGED <<record, pending, writer, resolver, answers, created>>

ListRemove(w) ==
  /\ lister[w].pc = "srem"
  /\ pending' = pending \ lister[w].gone
  /\ lister' = [lister EXCEPT ![w] =
       Listing("get", @.left \ @.gone, {}, @.results)]
  /\ UNCHANGED <<record, writer, resolver, answers, created>>

\* The response.
ListReturn(w) ==
  /\ lister[w].pc = "get"
  /\ lister[w].left = {}
  /\ lister' = [lister EXCEPT ![w] = NotListing]
  /\ UNCHANGED <<record, pending, writer, resolver, answers, created>>

-----------------------------------------------------------------------------

\* Mutant: enqueue announces the id (SADD) before its record exists (SETEX).
MutAnnounceFirst(q) ==
  \/ /\ writer[q] = "unused"
     /\ pending' = pending \cup {q}
     /\ writer' = [writer EXCEPT ![q] = "setex"]
     /\ created' = created \cup {q}
     /\ UNCHANGED <<record, resolver, lister, answers>>
  \/ /\ writer[q] = "setex"
     /\ record' = [record EXCEPT ![q] = Written("PENDING", "none")]
     /\ writer' = [writer EXCEPT ![q] = "queued"]
     /\ UNCHANGED <<pending, resolver, lister, answers, created>>

WriterStep(q) ==
  EnqueueRecord(q) \/ EnqueueId(q) \/ PepQueueApproval(q)

ListStep(w) ==
  \/ ListMembers(w)
  \/ \E q \in Ids : ListGet(w, q)
  \/ ListRemove(w) \/ ListReturn(w)

Next ==
  \/ \E q \in Ids : WriterStep(q) \/ Expire(q)
  \/ \E w \in Resolvers :
       \/ \E q \in Ids, who \in Approvers, action \in {"approve", "deny"} :
            ResolveGet(w, q, who, action)
       \/ ResolveSet(w) \/ ResolveRemove(w)
  \/ \E w \in Listers : ListStep(w)

Spec == Init /\ [][Next]_vars

\* The console polls GET /approvals every five seconds, and every record has a
\* TTL.  Nothing is assumed of PATCH: a thread may stop between two commands.
FairSpec ==
  /\ Spec
  /\ \A w \in Listers : WF_vars(ListStep(w))
  /\ \A q \in Ids : WF_vars(Expire(q))

-----------------------------------------------------------------------------
(* Properties                                                              *)

\* Records, threads and what is known of a request that was never written.
TypeOK ==
  /\ record \in [Ids -> [status : {"none", "PENDING", "APPROVED", "DENIED"},
                         approver : Approvers \cup {"none"}, json : BOOLEAN]]
  /\ pending \subseteq created
  /\ writer \in [Ids -> {"unused", "setex", "queued", "pep"}]
  /\ \A w \in Resolvers :
       /\ resolver[w].pc \in {"idle", "setex", "srem"}
       /\ resolver[w].pc # "idle" => resolver[w].id \in created
  /\ \A w \in Listers :
       /\ lister[w].pc \in {"idle", "get", "srem"}
       /\ lister[w].left \subseteq created /\ lister[w].gone \subseteq lister[w].left
  /\ \A q \in Ids : q \notin created => record[q] = Nothing

\* FR-3.8: no request is ever resolved, in Redis or in an answer, under the
\* name of the identity that made it, however the threads interleave.
NoSelfApproval ==
  /\ \A q \in Ids : record[q].approver # Agent
  /\ \A a \in answers : a.approver # Agent

\* A request that was queued and waits for its decision is in the set that
\* GET /approvals reads: pruning expired ids never loses a live one.
WaitingIsListed ==
  \A q \in Ids :
    writer[q] = "queued" /\ record[q].status = "PENDING" => q \in pending

\* The resolution a thread has stored and not answered yet.
Stored(w) == resolver[w].pc = "srem"

Decided(x) == Written(x.status, x.approver)

\* A decision once answered is never undone by a later request: a thread answers
\* a request at most once, and as long as the record of an answered request
\* exists it holds a decision that some PATCH answered or is about to answer.
\* (Threads that race may overwrite each other: DoubleResolveIsBlocked.)
DecisionIsFinal ==
  \A a \in answers :
    /\ \A b \in answers : a.id = b.id /\ a.by = b.by => a = b
    /\ \/ record[a.id] = Nothing
       \/ \E b \in answers : b.id = a.id /\ record[a.id] = Decided(b)
       \/ \E w \in Resolvers :
            /\ Stored(w) /\ resolver[w].id = a.id
            /\ record[a.id] = Decided(resolver[w])

\* A request that is over, by a decision or because its record expired, never
\* waits for a decision again.  resolve() may bring an expired record back (the
\* key may expire between its GET and its SETEX), but only with a decision: no
\* approver is asked a second time.
NeverWaitsAgain ==
  [][\A q \in Ids :
       writer[q] # "unused" /\ record[q].status # "PENDING"
         => record'[q].status # "PENDING"]_vars

\* Every request leaves the pending list in the end, by a decision or because it
\* expired, also when resolve() stopped after its SETEX and never ran its SREM.
RequestsLeaveTheList == \A q \in Ids : (q \in pending) ~> (q \notin pending)

-----------------------------------------------------------------------------
(* What the repository says of approvals                                   *)

\* tests/test_policy_boundaries.py:428 test_approval_double_resolve_blocked: a
\* second resolution of a request is refused.
DoubleResolveIsBlocked == \A a, b \in answers : a.id = b.id => a = b

=============================================================================
