----------------------------- MODULE MCAgentRun -----------------------------
(* Small instances of AgentRun.                                            *)
EXTENDS AgentRun, TLC

CONSTANTS r1, r2, r3, a1

\* All processes run as one identity.
OneIdentity == [r \in Runners |-> a1]

\* The processes are interchangeable.
RunnerSymmetry == Permutations(Runners)

Infra == [a \in Agents |-> "InfraAgent"]
Provisioner == [a \in Agents |-> "ProvisionerAgent"]

InfraScopes == [a \in Agents |-> {"cloud:ec2:describe"}]
ProvisionerScopes ==
  [a \in Agents |-> {"cloud:iam:create-role", "cloud:ec2:describe", "cloud:s3:read"}]

InfraHandlers == [a \in Agents |-> {"ec2_describe_instances"}]
ProvisionerHandlers == [a \in Agents |-> {"iam_create_role", "s3_get_object"}]

Addresses == [r \in Runners |-> "10.0.0.1"]

NoTags == [DataClassification |-> {}, Environment |-> {"dev"},
           managed_by |-> {"nhi-sentinel"}, template_name |-> {"reader"}]

Job(tool) ==
  [tool |-> tool, environment |-> "dev", task_id |-> TRUE, time_window |-> {},
   incident_id |-> FALSE, max |-> {3}, pre_approved |-> FALSE,
   allowed_environments |-> {}, hour |-> 10, tags |-> NoTags]

\* An action Cedar does not govern, with a limit of three a minute.
DescribeJobs == {Job("ec2_describe_instances")}

Approved(tool) == [Job(tool) EXCEPT !.pre_approved = TRUE]

\* One job per way through the graph: to be approved first, allowed, allowed but
\* without a handler, refused by Cedar after OPA's ALLOW, not in the registry,
\* and in a foreign environment.
ProvisionerJobs ==
  {Job("iam_create_role"), Approved("iam_create_role"),
   Approved("ec2_describe_instances"), Approved("s3_get_object"),
   Job("iam_list_roles"),
   [Approved("iam_create_role") EXCEPT !.allowed_environments = {{"prod"}}]}

Active(scopes, ip) ==
  [active |-> "true", agent_id |-> {a1}, scopes |-> scopes, source_ip |-> ip]
Inactive == [active |-> "false", agent_id |-> {}, scopes |-> {}, source_ip |-> {}]

AllScopes == {"cloud:ec2:describe", "cloud:s3:read", "cloud:iam:create-role"}

ActiveOnly == {Active(AllScopes, {"10.0.0.1"})}
AnyToken == {Active(AllScopes, {"10.0.0.1"}), Active(AllScopes, {"10.0.0.2"}),
             Inactive}

=============================================================================
