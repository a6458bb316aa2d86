-------------------------- MODULE GuardedExecution --------------------------
(***************************************************************************)
(* What a governed run promises to whoever reads the audit trail, without  *)
(* saying how the verdict is reached: a run records one verdict, acts once *)
(* and only on a recorded ALLOW, and then reports how it went.  A run may  *)
(* stop anywhere.                                                          *)
(*                                                                         *)
(* The trail is a log that outlives the runners and, when the log may fail,*)
(* a memory of each runner that does not.  A record in memory may still    *)
(* reach the log.  AgentRun implements this.                               *)
(***************************************************************************)
EXTENDS Naturals

CONSTANTS
  Runners,
  Verdicts,    \* what a run may decide
  Outcomes,    \* what an action may report
  LogMayFail   \* a record may be refused by the log

VARIABLES
  stage,    \* [runner] "idle", "deciding", "allowed", "refused" or "acted"
  run,      \* [runner] the number of its run
  told,     \* [runner] how many records it made
  log,      \* the durable records
  memory,   \* [runner] the records that only exist in its process
  acted     \* runs in which something was done to the cloud

guardVars == <<stage, run, told, log, memory, acted>>

GuardInit ==
  /\ stage = [r \in Runners |-> "idle"]
  /\ run = [r \in Runners |-> 0]
  /\ told = [r \in Runners |-> 0]
  /\ log = {}
  /\ memory = [r \in Runners |-> {}]
  /\ acted = {}

Move(r, from, to) ==
  /\ stage[r] = from
  /\ stage' = [stage EXCEPT ![r] = to]

Tell(r, what) ==
  LET record == [runner |-> r, id |-> told[r] + 1, run |-> run[r], decision |-> what] IN
    /\ told' = [told EXCEPT ![r] = @ + 1]
    /\ \/ log' = log \cup {record} /\ UNCHANGED memory
       \/ /\ LogMayFail
          /\ memory' = [memory EXCEPT ![r] = @ \cup {record}]
          /\ UNCHANGED log

Begin(r) ==
  /\ Move(r, "idle", "deciding")
  /\ run' = [run EXCEPT ![r] = @ + 1]
  /\ UNCHANGED <<told, log, memory, acted>>

RecordVerdict(r, d) ==
  /\ Move(r, "deciding", IF d = "ALLOW" THEN "allowed" ELSE "refused")
  /\ Tell(r, d)
  /\ UNCHANGED <<run, acted>>

\* The run's ALLOW is on record; there may be nothing to do on it.
Act(r) ==
  /\ Move(r, "allowed", "acted")
  /\ \E e \in log \cup memory[r] :
       e.runner = r /\ e.run = run[r] /\ e.decision = "ALLOW"
  /\ acted' \in {acted, acted \cup {<<r, run[r]>>}}
  /\ UNCHANGED <<run, told, log, memory>>

Report(r, how) ==
  /\ Move(r, "acted", "idle")
  /\ Tell(r, how)
  /\ UNCHANGED <<run, acted>>

\* A refused run ends; any run may die, and its runner's memory with it.
Stop(r) ==
  /\ stage' = [stage EXCEPT ![r] = "idle"]
  /\ memory' \in {memory, [memory EXCEPT ![r] = {}]}
  /\ UNCHANGED <<run, told, log, acted>>

ReachLog(r) ==
  /\ \E e \in memory[r] : log' = log \cup {e}
  /\ UNCHANGED <<stage, run, told, memory, acted>>

GuardNext ==
  \E r \in Runners :
    \/ Begin(r) \/ Act(r) \/ Stop(r) \/ ReachLog(r)
    \/ \E d \in Verdicts : RecordVerdict(r, d)
    \/ \E how \in Outcomes : Report(r, how)

GuardSpec == GuardInit /\ [][GuardNext]_guardVars

=============================================================================
