---------------------------- MODULE Credentials -----------------------------
(***************************************************************************)
(* The credentials of one agent: provisioning (identity/provisioner.py,    *)
(* identity/vault_client.py), the agent's TokenManager                     *)
(* (identity/token_manager.py) and the Keycloak they both talk to.  Every  *)
(* provisioning run generates a key pair of its own, so a run also names   *)
(* its key, and the Keycloak client created with it.  A token is its time  *)
(* of expiry.  Keycloak answers at one step and the agent has the answer   *)
(* at a later one.  Time passes between steps, but not past a timeout.     *)
(***************************************************************************)
EXTENDS Integers

CONSTANTS
  Runs,         \* provisioning runs, and their keys
  Lifespan,     \* accessTokenLifespan of the realm
  Ttl,          \* settings.token_ttl_seconds
  Buffer,       \* the buffer before expiry in get_token
  Latency,      \* the longest an answer of the token endpoint travels
  Introspect,   \* the longest an introspection takes
  MaxTime       \* bound: the clock

\* 900, 900, 30, and timeouts of 10 and 5 seconds, the latter for each of
\* connecting, sending and receiving.
ASSUME TimingAssumption ==
  /\ {Lifespan, Ttl, Buffer, Latency, Introspect, MaxTime} \subseteq Nat
  /\ Ttl + Latency + Introspect <= Lifespan + Buffer
  /\ Latency + Introspect < Lifespan

NoKey   == "no key"
NoToken == 0
Never   == -1

\* No run has this name.
ASSUME NoKeyAssumption == NoKey \notin Runs

VARIABLES
  now,                \* time.time()
  vault,              \* the key pair under agents/{id}/keypair
  client,             \* the key of the Keycloak client, or NoKey without a client
  enabled,            \* the client's flag
  run,                \* [run] "new", "stored", "active" or "dead"
  admin,              \* an administrator's call: the operation and the client it is for
  _private_key_pem,   \* the key the TokenManager loaded
  _cached_token,
  _token_expires_at,
  tpc,                \* "idle", "acquire", "issued", "introspect" or "answered"
  inflight,           \* the token on its way to the agent
  answer,             \* Keycloak's verdict on its way to the agent
  deadline,           \* when the call under way times out
  claims,             \* what the last get_token and introspect led to
  revokedAt           \* history: [key] when its client was first disabled or deleted

keycloak == <<client, enabled, revokedAt>>
cache    == <<_cached_token, _token_expires_at>>
call     == <<tpc, inflight, answer, deadline, claims>>
vars     == <<now, vault, keycloak, run, admin, _private_key_pem, cache, call>>

NoCall == [op |-> "none", id |-> NoKey]

Init ==
  /\ now = 0
  /\ vault = NoKey
  /\ client = NoKey
  /\ enabled = FALSE
  /\ run = [r \in Runs |-> "new"]
  /\ admin = NoCall
  /\ _private_key_pem = NoKey
  /\ _cached_token = NoToken
  /\ _token_expires_at = 0
  /\ tpc = "idle"
  /\ inflight = NoToken
  /\ answer = "none"
  /\ deadline = 0
  /\ claims = "none"
  /\ revokedAt = [r \in Runs |-> Never]

Tick ==
  /\ now < MaxTime
  /\ tpc \in {"issued", "introspect", "answered"} => now < deadline
  /\ now' = now + 1
  /\ UNCHANGED <<vault, keycloak, run, admin, _private_key_pem, cache, call>>

-----------------------------------------------------------------------------
(* IdentityProvisioner.provision, and the administration of a client       *)

Become(r, state) == run' = [run EXCEPT ![r] = state]

agentVars == <<_private_key_pem, cache, call>>

\* generate_rsa_keypair and write_agent_keypair, which overwrites.
StoreKey(r) ==
  /\ run[r] = "new"
  /\ vault' = r
  /\ Become(r, "stored")
  /\ UNCHANGED <<now, keycloak, admin, agentVars>>

\* create_client, and the ACTIVE record.  A client that exists is left as it is.
CreateClient(r) ==
  /\ run[r] = "stored"
  /\ Become(r, "active")
  /\ \/ client = NoKey /\ client' = r /\ enabled' = TRUE
     \/ client # NoKey /\ UNCHANGED <<client, enabled>>
  /\ UNCHANGED <<now, vault, revokedAt, admin, agentVars>>

\* A request fails, or the process dies, before or after the service did its part.
ProvisionFails(r) ==
  /\ run[r] \in {"new", "stored"}
  /\ Become(r, "dead")
  /\ \/ UNCHANGED <<client, enabled>>
     \/ run[r] = "stored" /\ client = NoKey /\ client' = r /\ enabled' = TRUE
  /\ UNCHANGED <<now, vault, revokedAt, admin, agentVars>>

\* suspend_client and delete_client look the client up ...
LookUp(op) ==
  /\ admin = NoCall
  /\ client # NoKey
  /\ admin' = [op |-> op, id |-> client]
  /\ UNCHANGED <<now, vault, keycloak, run, agentVars>>

\* ... and act on what they found, if it is still there.
Administer ==
  /\ admin # NoCall
  /\ admin' = NoCall
  /\ \/ /\ client = admin.id
        /\ enabled' = FALSE
        /\ client' = IF admin.op = "delete" THEN NoKey ELSE client
        /\ revokedAt' = [revokedAt EXCEPT ![client] = IF @ = Never THEN now ELSE @]
     \/ UNCHANGED keycloak
  /\ UNCHANGED <<now, vault, run, agentVars>>

\* VaultClient.delete_agent_keypair
DeleteKeypair ==
  /\ vault' = NoKey
  /\ UNCHANGED <<now, keycloak, run, admin, agentVars>>

-----------------------------------------------------------------------------
(* TokenManager                                                            *)

outside == <<vault, keycloak, run, admin>>

\* An agent process starts and loads, once, the key the Vault holds then.
StartAgent ==
  /\ tpc = "idle"
  /\ vault # NoKey
  /\ _private_key_pem' = vault
  /\ _cached_token' = NoToken
  /\ _token_expires_at' = 0
  /\ claims' = "none"
  /\ UNCHANGED <<now, outside, tpc, inflight, answer, deadline>>

\* The token at hand goes straight on to introspection.
Return ==
  /\ tpc' = "introspect"
  /\ deadline' = now + Introspect
  /\ claims' = "none"

\* The check of get_token.  Mutant: no buffer.
MutNoBuffer == _cached_token # NoToken /\ now < _token_expires_at
CacheIsValid == _cached_token # NoToken /\ now < _token_expires_at - Buffer

\* get_token with a token in the cache.  Mutant: a cached token is trusted.
MutTrustCache ==
  /\ tpc = "idle"
  /\ CacheIsValid
  /\ claims' = "active"
  /\ UNCHANGED <<now, outside, _private_key_pem, cache, tpc, inflight, answer, deadline>>

GetCached ==
  /\ tpc = "idle"
  /\ CacheIsValid
  /\ Return
  /\ UNCHANGED <<now, outside, _private_key_pem, cache, inflight, answer>>

\* get_token without: the assertion is signed and sent.  Without a key it raises.
Acquire ==
  /\ tpc = "idle"
  /\ ~CacheIsValid
  /\ _private_key_pem # NoKey
  /\ tpc' = "acquire"
  /\ claims' = "none"
  /\ UNCHANGED <<now, outside, _private_key_pem, cache, inflight, answer, deadline>>

\* Keycloak takes an assertion or an introspection of the agent.
Authenticates == client = _private_key_pem /\ enabled

Issue ==
  /\ tpc = "acquire"
  /\ Authenticates
  /\ inflight' = now + Lifespan
  /\ tpc' = "issued"
  /\ deadline' = now + Latency
  /\ UNCHANGED <<now, outside, _private_key_pem, cache, answer, claims>>

\* The end of get_token.
ReceiveToken ==
  /\ tpc = "issued"
  /\ _cached_token' = inflight
  /\ _token_expires_at' = now + Ttl
  /\ inflight' = NoToken
  /\ Return
  /\ UNCHANGED <<now, outside, _private_key_pem, answer>>

\* A status other than 200, a timeout or a lost answer: get_token raises and
\* leaves the cache alone.
AcquireFails ==
  /\ tpc \in {"acquire", "issued"}
  /\ tpc' = "idle"
  /\ inflight' = NoToken
  /\ UNCHANGED <<now, outside, _private_key_pem, cache, answer, deadline, claims>>

\* Keycloak judges the token just returned.
Introspected ==
  /\ tpc = "introspect"
  /\ Authenticates
  /\ answer' = IF now < _cached_token THEN "active" ELSE "inactive"
  /\ tpc' = "answered"
  /\ UNCHANGED <<now, outside, _private_key_pem, cache, inflight, deadline, claims>>

\* The end of introspect.  The client may be disabled or deleted by now.
ReceiveClaims ==
  /\ tpc = "answered"
  /\ tpc' = "idle"
  /\ claims' = answer
  /\ answer' = "none"
  /\ UNCHANGED <<now, outside, _private_key_pem, cache, inflight, deadline>>

\* Mutant: without raise_for_status, the body of an error passes for the claims.
MutErrorBody ==
  /\ tpc \in {"introspect", "answered"}
  /\ tpc' = "idle"
  /\ claims' = "error"
  /\ answer' = "none"
  /\ UNCHANGED <<now, outside, _private_key_pem, cache, inflight, deadline>>

\* An error status, a timeout or a lost answer: introspect raises.
IntrospectFails ==
  /\ tpc \in {"introspect", "answered"}
  /\ tpc' = "idle"
  /\ claims' = "raised"
  /\ answer' = "none"
  /\ UNCHANGED <<now, outside, _private_key_pem, cache, inflight, deadline>>

-----------------------------------------------------------------------------

Provisioning ==
  \/ \E r \in Runs : StoreKey(r) \/ CreateClient(r) \/ ProvisionFails(r)
  \/ \E op \in {"suspend", "delete"} : LookUp(op)
  \/ Administer
  \/ DeleteKeypair

Agent ==
  \/ StartAgent \/ GetCached \/ Acquire \/ Issue \/ ReceiveToken \/ AcquireFails
  \/ Introspected \/ ReceiveClaims \/ IntrospectFails

Next == Tick \/ Provisioning \/ Agent

Spec == Init /\ [][Next]_vars

-----------------------------------------------------------------------------
(* Properties                                                              *)

\* The variables have their types.
TypeOK ==
  /\ now \in Nat /\ deadline \in Nat
  /\ vault \in Runs \cup {NoKey} /\ client \in Runs \cup {NoKey} /\ enabled \in BOOLEAN
  /\ run \in [Runs -> {"new", "stored", "active", "dead"}]
  /\ admin \in [op : {"none", "suspend", "delete"}, id : Runs \cup {NoKey}]
  /\ _private_key_pem \in Runs \cup {NoKey}
  /\ _cached_token \in Nat /\ _token_expires_at \in Nat /\ inflight \in Nat
  /\ tpc \in {"idle", "acquire", "issued", "introspect", "answered"}
  /\ answer \in {"none", "active", "inactive"}
  /\ claims \in {"none", "active", "inactive", "raised"}
  /\ revokedAt \in [Runs -> Nat \cup {Never}]

\* The token get_token hands out outlives its introspection: the agent counts its
\* life from the arrival, which is later than Keycloak does, and the buffer makes up
\* for that and for the time the introspection takes.
ReturnedTokenIsLive == tpc \in {"introspect", "answered"} => now < _cached_token

\* At most an introspection later, a key whose Keycloak client was disabled or
\* deleted authorises no more, whatever is cached or on its way and however often
\* the agent is provisioned anew.  (An "active" that Keycloak sent before still
\* arrives: no call asks again.)
RevokedKeyIsDead ==
  [][claims' = "active" /\ claims # "active" =>
       LET k == _private_key_pem IN
         revokedAt[k] = Never \/ now <= revokedAt[k] + Introspect]_vars

-----------------------------------------------------------------------------
(* The inductive invariant behind these properties                         *)

\* A key is registered once, and loses its right for good.
KeysKept ==
  /\ \A r \in Runs :
       run[r] \in {"new", "stored"} => r # client /\ revokedAt[r] = Never
  /\ client # NoKey /\ enabled => revokedAt[client] = Never
  /\ client = NoKey => ~enabled
  /\ admin = NoCall \/ admin.id \in Runs

\* How the agent's clock relates to the life of its tokens.
TokensKept ==
  /\ _cached_token # NoToken => _token_expires_at + Lifespan <= _cached_token + Latency + Ttl
  /\ tpc = "issued" => now <= deadline /\ deadline + Lifespan = inflight + Latency
  /\ tpc \in {"introspect", "answered"} =>
       now <= deadline /\ deadline <= now + Introspect /\ deadline < _cached_token

\* A verdict on its way was right when it left, and arrives in time.
AnswersKept ==
  tpc = "answered" =>
    LET k == _private_key_pem IN
      /\ k \in Runs
      /\ revokedAt[k] = Never \/ deadline <= revokedAt[k] + Introspect

IInv == TypeOK /\ KeysKept /\ TokensKept /\ AnswersKept

=============================================================================
