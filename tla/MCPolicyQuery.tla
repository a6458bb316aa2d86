--------------------------- MODULE MCPolicyQuery ----------------------------
(* Bounded sets of requests for PolicyQuery.                               *)
EXTENDS PolicyQuery

Optional(S) == {{}} \cup {{x} : x \in S}

\* The documents Keycloak's introspection endpoint returns: an inactive token
\* is reported by {"active": false} alone.
KeycloakClaims(ids, scopes) ==
  {[active |-> "false", agent_id |-> {}, scopes |-> {}, source_ip |-> {}]}
  \cup [active : {"true"}, agent_id : Optional(ids), scopes : scopes,
        source_ip : {{}}]

Tags ==
  [DataClassification : {{}, {"public"}, {"restricted"}},
   Environment : {{"dev"}, {"prod"}},
   managed_by : {{"nhi-sentinel"}}, template_name : {{"reader"}}]

Requests(types, actions, claims, hours, tags) ==
  [agent_id : {"a1"}, agent_type : types, action : actions,
   environment : {"dev"}, task_id : BOOLEAN, claims : claims,
   time_window : Optional({[start |-> 9, end |-> 17]}), incident_id : BOOLEAN,
   max : Optional({2}), count : Optional({1, 2, 3}), pre_approved : BOOLEAN,
   allowed_environments : Optional({{"dev"}, {"staging"}}), hour : hours,
   tags : tags]

SomeScopes == {{}, {"cloud:s3:read", "cloud:s3:delete", "cloud:iam:create-role"}}

\* Every agent type against reads, destructive actions and IAM writes, with the
\* hours at both edges of the window.  A field no rule looks at for the request
\* has one value.
PolicyInputs ==
  {r \in Requests({"InfraAgent", "SecOpsAgent", "ProvisionerAgent"},
           {"s3:GetObject", "s3:DeleteObject", "iam:AttachRolePolicy"},
           KeycloakClaims({"a1", "a2"}, SomeScopes), {9, 17},
           {[DataClassification |-> {"public"}, Environment |-> {"dev"},
             managed_by |-> {"nhi-sentinel"}, template_name |-> {"reader"}]}) :
     /\ r.incident_id => r.agent_type = "SecOpsAgent"
     /\ r.time_window = {} => r.hour = 9
     /\ r.count \subseteq {1, 2} /\ (r.count = {} => r.max = {2})
     /\ r.allowed_environments # {}}

\* Every resource tag against the actions Cedar governs, one it does not, and
\* one that no policy registers.
ResourceInputs ==
  {r \in Requests({"InfraAgent", "DataAgent", "ProvisionerAgent"},
           {"s3:GetObject", "iam:CreateRole", "ec2:DescribeInstances",
            "iam:CreatePolicy"},
           KeycloakClaims({"a1"}, {{"cloud:s3:read", "cloud:iam:create-role",
                                   "cloud:ec2:describe"}}), {10}, Tags) :
     /\ r.task_id /\ r.pre_approved /\ ~r.incident_id
     /\ r.max = {2} /\ r.count \in {{}, {1}} /\ r.time_window = {}
     /\ r.allowed_environments = {}}

\* Requests ordered by Tighter in every field the relation may vary.
OrderedInputs ==
  {[agent_id |-> "a1", agent_type |-> "SecOpsAgent", action |-> "s3:GetObject",
    environment |-> "dev", task_id |-> t, claims |-> c, time_window |-> w,
    incident_id |-> i, max |-> m, count |-> n, pre_approved |-> FALSE,
    allowed_environments |-> e, hour |-> 16,
    tags |-> [DataClassification |-> {}, Environment |-> {},
              managed_by |-> {}, template_name |-> {}]] :
     t \in {TRUE}, i \in BOOLEAN,
     c \in KeycloakClaims({"a1"}, {{}, {"cloud:s3:read"}}),
     w \in Optional({[start |-> 9, end |-> 17], [start |-> 9, end |-> 16]}),
     m \in {{2}}, n \in Optional({1, 2}),
     e \in Optional({{"dev"}, {"staging"}, {"dev", "staging"}})}

\* All of them, for the run with the Cedar CLI installed.
LayeredInputs == PolicyInputs \cup ResourceInputs \cup OrderedInputs

=============================================================================
