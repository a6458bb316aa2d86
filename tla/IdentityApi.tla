---------------------------- MODULE IdentityApi -----------------------------
(***************************************************************************)
(* The identity API (identity/api.py): suspension state in Redis, changed  *)
(* by handlers that FastAPI runs in its thread pool.  A handler is two     *)
(* Redis commands with nothing around them, so the commands of several     *)
(* handlers interleave.  The read-only endpoints change nothing.           *)
(***************************************************************************)
EXTENDS Integers, FiniteSets

CONSTANTS
  Agents,        \* agent identities
  Threads,       \* threads of the pool
  RedisMayFail   \* bound: one Redis command may fail, or none

ASSUME ApiAssumption ==
  /\ IsFiniteSet(Agents) /\ Agents # {}
  /\ IsFiniteSet(Threads)
  /\ RedisMayFail \in BOOLEAN

VARIABLES
  suspended,             \* Redis identities:suspended
  reason,                \* agents that have a key identity:suspension_reason:{id}
  thread,                \* [thread] the handler it runs
  _suspensions_total,    \* counter of the process
  _unsuspensions_total,  \* counter of the process
  torn,                  \* history: suspended while a reinstatement was under way,
                         \*   or by a handler that lost Redis
  redisFailed            \* history: some command failed

store   == <<suspended, reason>>
totals  == <<_suspensions_total, _unsuspensions_total>>
apiVars == <<store, thread, totals, torn, redisFailed>>

\* agent and changed mean nothing once pc is "idle".
Handler(pc, a, changed) == [pc |-> pc, agent |-> a, changed |-> changed]
Idle == Handler("idle", CHOOSE a \in Agents : TRUE, FALSE)

Commands == {"sadd", "set", "srem", "del"}
Answers  == {"200", "404", "503"}

ApiInit ==
  /\ suspended = {}
  /\ reason = {}
  /\ thread = [w \in Threads |-> Idle]
  /\ _suspensions_total = 0
  /\ _unsuspensions_total = 0
  /\ torn = {}
  /\ redisFailed = FALSE

Become(w, handler) == thread' = [thread EXCEPT ![w] = handler]

\* A request comes in: first is the command its handler starts with, "sadd" for
\* POST .../suspend and "srem" for POST .../unsuspend.
Receive(w, first, a) ==
  /\ thread[w].pc = "idle"
  /\ Become(w, Handler(first, a, FALSE))
  /\ UNCHANGED <<store, totals, torn, redisFailed>>

\* The client has its answer, or does not wait for it any more.
Release(w) ==
  /\ thread[w].pc \in Answers
  /\ Become(w, Idle)
  /\ UNCHANGED <<store, totals, torn, redisFailed>>

-----------------------------------------------------------------------------
(* suspend_identity                                                        *)

\* A reinstatement of a has removed a from the set and not yet its reason.
Reinstating(a) == \E w \in Threads : thread[w].pc = "del" /\ thread[w].agent = a

\* Mutant: the handler forgets the set and only writes the reason.
MutReasonOnly(w) ==
  /\ thread[w].pc = "sadd"
  /\ Become(w, Handler("set", thread[w].agent, FALSE))
  /\ UNCHANGED <<store, totals, torn, redisFailed>>

SAdd(w) ==
  LET a == thread[w].agent IN
    /\ thread[w].pc = "sadd"
    /\ suspended' = suspended \cup {a}
    /\ torn' = IF Reinstating(a) THEN torn \cup {a} ELSE torn
    /\ Become(w, Handler("set", a, a \notin suspended))
    /\ UNCHANGED <<reason, totals, redisFailed>>

\* Mutant: every call counts, whether it changed the set or not.
MutCountEveryCall(w) ==
  LET a == thread[w].agent IN
    /\ thread[w].pc = "set"
    /\ reason' = reason \cup {a}
    /\ _suspensions_total' = _suspensions_total + 1
    /\ Become(w, Handler("200", a, FALSE))
    /\ UNCHANGED <<suspended, _unsuspensions_total, torn, redisFailed>>

\* Mutant: the handler forgets the reason.
MutNoReason(w) ==
  LET a == thread[w].agent IN
    /\ thread[w].pc = "set"
    /\ _suspensions_total' = _suspensions_total + (IF thread[w].changed THEN 1 ELSE 0)
    /\ Become(w, Handler("200", a, FALSE))
    /\ UNCHANGED <<store, _unsuspensions_total, torn, redisFailed>>

\* The last command, the counter and the answer.
SetReason(w) ==
  LET a == thread[w].agent IN
    /\ thread[w].pc = "set"
    /\ reason' = reason \cup {a}
    /\ _suspensions_total' = _suspensions_total + (IF thread[w].changed THEN 1 ELSE 0)
    /\ Become(w, Handler("200", a, FALSE))
    /\ UNCHANGED <<suspended, _unsuspensions_total, torn, redisFailed>>

-----------------------------------------------------------------------------
(* unsuspend_identity                                                      *)

SRem(w) ==
  LET a == thread[w].agent IN
    /\ thread[w].pc = "srem"
    /\ suspended' = suspended \ {a}
    /\ torn' = torn \ {a}
    /\ Become(w, Handler("del", a, a \in suspended))
    /\ UNCHANGED <<reason, totals, redisFailed>>

\* The reason goes also when nothing was suspended; the answer is 404 then.
DelReason(w) ==
  LET a == thread[w].agent IN
    /\ thread[w].pc = "del"
    /\ reason' = reason \ {a}
    /\ _unsuspensions_total' = _unsuspensions_total + (IF thread[w].changed THEN 1 ELSE 0)
    /\ Become(w, Handler(IF thread[w].changed THEN "200" ELSE "404", a, FALSE))
    /\ UNCHANGED <<suspended, _suspensions_total, torn, redisFailed>>

\* A command fails, before or after Redis applied it, and the handler answers
\* 503: what was done stays done, what was to come does not happen.
RedisFails(w) ==
  LET a  == thread[w].agent
      pc == thread[w].pc
  IN
    /\ RedisMayFail /\ ~redisFailed
    /\ pc \in Commands
    /\ suspended' \in {suspended, IF pc = "sadd" THEN suspended \cup {a}
                                  ELSE IF pc = "srem" THEN suspended \ {a}
                                  ELSE suspended}
    /\ reason' \in {reason, IF pc = "set" THEN reason \cup {a}
                            ELSE IF pc = "del" THEN reason \ {a} ELSE reason}
    /\ torn' = IF pc \in {"sadd", "set"} THEN torn \cup {a} ELSE torn
    /\ redisFailed' = TRUE
    /\ Become(w, Handler("503", a, FALSE))
    /\ UNCHANGED totals

-----------------------------------------------------------------------------

HandlerStep(w) == SAdd(w) \/ SetReason(w) \/ SRem(w) \/ DelReason(w) \/ RedisFails(w)

Handlers == [pc : {"idle"} \cup Commands \cup Answers, agent : Agents, changed : BOOLEAN]

ApiTypeOK ==
  /\ suspended \subseteq Agents /\ reason \subseteq Agents /\ torn \subseteq Agents
  /\ thread \in [Threads -> Handlers]
  /\ _suspensions_total \in Nat /\ _unsuspensions_total \in Nat

\* Threads whose change of the set is not counted yet.
Uncounted(pc) == {w \in Threads : thread[w].pc = pc /\ thread[w].changed}

\* The metrics tell the truth: as long as Redis answers, every change of the set,
\* by whichever of the racing handlers, is counted once and by one of them, so that
\* suspensions less reinstatements are the suspended identities.
BooksBalance ==
  ~redisFailed =>
    Cardinality(suspended) + _unsuspensions_total + Cardinality(Uncounted("del"))
      = _suspensions_total + Cardinality(Uncounted("set"))

\* An operator who looks at a suspended identity finds the reason
\* (GET .../status), unless the suspension met a reinstatement half way or Redis
\* failed in it.
SuspendedHasReason ==
  \A a \in suspended \ torn :
    \/ a \in reason
    \/ \E w \in Threads : thread[w].pc = "set" /\ thread[w].agent = a

\* Why SuspendedHasReason holds: a reinstatement that is about to remove a reason
\* meets its agent suspended only if that suspension is torn.
DeletesNoReason ==
  \A w \in Threads : thread[w].pc = "del" => thread[w].agent \notin suspended \ torn

=============================================================================
