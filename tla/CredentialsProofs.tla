------------------------- MODULE CredentialsProofs --------------------------
(* What Credentials guarantees for any number of provisioning runs and any *)
(* durations that meet TimingAssumption.                                   *)
EXTENDS Credentials, TLAPS

USE TimingAssumption, NoKeyAssumption
    DEF keycloak, cache, call, agentVars, outside, Never

LEMMA InitIInv == Init => IInv
<1> SUFFICES ASSUME Init PROVE IInv
  OBVIOUS
<1>1. TypeOK
  BY DEF Init, TypeOK, NoToken, NoCall
<1>2. KeysKept
  BY DEF Init, KeysKept
<1>3. TokensKept
  BY DEF Init, TokensKept
<1>4. AnswersKept
  BY DEF Init, AnswersKept
<1>5. QED
  BY <1>1, <1>2, <1>3, <1>4 DEF IInv

\* Every step of Next keeps the types.
LEMMA TypeStep == IInv /\ [Next]_vars => TypeOK'
<1> SUFFICES ASSUME IInv, [Next]_vars PROVE TypeOK'
  OBVIOUS
<1> USE DEF IInv, TypeOK
<1>1. CASE Tick
  BY <1>1 DEF Tick
<1>2. ASSUME NEW r \in Runs, StoreKey(r) \/ CreateClient(r) \/ ProvisionFails(r)
      PROVE  TypeOK'
  <2>1. run' \in [Runs -> {"new", "stored", "active", "dead"}]
    BY <1>2 DEF StoreKey, CreateClient, ProvisionFails, Become
  <2>2. vault' \in Runs \cup {NoKey} /\ UNCHANGED <<now, revokedAt, admin, agentVars>>
    BY <1>2 DEF StoreKey, CreateClient, ProvisionFails
  <2>3. client' \in Runs \cup {NoKey} /\ enabled' \in BOOLEAN
    BY <1>2 DEF StoreKey, CreateClient, ProvisionFails
  <2>4. QED
    BY <2>1, <2>2, <2>3
<1>3. ASSUME NEW op \in {"suspend", "delete"}, LookUp(op) PROVE TypeOK'
  BY <1>3 DEF LookUp
<1>4. CASE Administer
  <2>1. admin' \in [op : {"none", "suspend", "delete"}, id : Runs \cup {NoKey}]
    BY <1>4 DEF Administer, NoCall
  <2>2. revokedAt' \in [Runs -> Nat \cup {Never}]
    BY <1>4 DEF Administer
  <2>3. client' \in Runs \cup {NoKey} /\ enabled' \in BOOLEAN
    BY <1>4 DEF Administer
  <2>4. UNCHANGED <<now, vault, run, agentVars>>
    BY <1>4 DEF Administer
  <2>5. QED
    BY <2>1, <2>2, <2>3, <2>4
<1>5. CASE DeleteKeypair
  BY <1>5 DEF DeleteKeypair
<1>6. CASE StartAgent
  BY <1>6 DEF StartAgent, NoToken
<1>7. CASE GetCached \/ Acquire
  BY <1>7 DEF GetCached, Acquire, Return
<1>8. CASE Issue \/ ReceiveToken \/ AcquireFails
  BY <1>8 DEF Issue, ReceiveToken, AcquireFails, Return, NoToken
<1>9. CASE Introspected \/ ReceiveClaims \/ IntrospectFails
  BY <1>9 DEF Introspected, ReceiveClaims, IntrospectFails
<1>10. CASE UNCHANGED vars
  BY <1>10 DEF vars
<1>11. QED
  BY <1>1, <1>2, <1>3, <1>4, <1>5, <1>6, <1>7, <1>8, <1>9, <1>10
     DEF Next, Provisioning, Agent

\* The agent touches neither Keycloak nor the Vault.
LEMMA AgentOutside ==
  ASSUME Agent \/ Tick PROVE UNCHANGED outside
BY DEF Agent, Tick, StartAgent, GetCached, Acquire, Issue, ReceiveToken, AcquireFails,
       Introspected, ReceiveClaims, IntrospectFails

\* Provisioning touches neither the agent nor the clock.
LEMMA ProvisioningOutside ==
  ASSUME Provisioning PROVE UNCHANGED <<now, agentVars>>
BY DEF Provisioning, StoreKey, CreateClient, ProvisionFails, LookUp, Administer,
       DeleteKeypair

\* A client is created once and loses its right for good.
LEMMA KeysStep == IInv /\ [Next]_vars => KeysKept'
<1> SUFFICES ASSUME IInv, [Next]_vars PROVE KeysKept'
  OBVIOUS
<1> USE DEF IInv, TypeOK, KeysKept
<1>1. CASE Agent \/ Tick \/ UNCHANGED vars
  BY <1>1, AgentOutside DEF vars
<1>2. ASSUME NEW r \in Runs, StoreKey(r) PROVE KeysKept'
  BY <1>2 DEF StoreKey, Become
<1>3. ASSUME NEW r \in Runs, CreateClient(r) \/ ProvisionFails(r) PROVE KeysKept'
  BY <1>3 DEF CreateClient, ProvisionFails, Become
<1>4. ASSUME NEW op \in {"suspend", "delete"}, LookUp(op) PROVE KeysKept'
  BY <1>4 DEF LookUp
<1>5. CASE Administer
  BY <1>5 DEF Administer, NoCall
<1>6. CASE DeleteKeypair
  BY <1>6 DEF DeleteKeypair
<1>7. QED
  BY <1>1, <1>2, <1>3, <1>4, <1>5, <1>6 DEF Next, Provisioning

\* The buffer covers what the agent's clock is behind and what introspection takes.
LEMMA TokensStep == IInv /\ [Next]_vars => TokensKept'
<1> SUFFICES ASSUME IInv, [Next]_vars PROVE TokensKept'
  OBVIOUS
<1> USE DEF IInv, TypeOK, TokensKept, NoToken
<1>1. CASE Provisioning \/ UNCHANGED vars
  BY <1>1, ProvisioningOutside DEF vars
<1>2. CASE Tick
  BY <1>2 DEF Tick
<1>3. CASE GetCached
  BY <1>3 DEF GetCached, CacheIsValid, Return
<1>4. CASE ReceiveToken
  BY <1>4 DEF ReceiveToken, Return
<1>5. CASE Issue
  BY <1>5 DEF Issue
<1>6. CASE \/ StartAgent \/ Acquire \/ AcquireFails
           \/ Introspected \/ ReceiveClaims \/ IntrospectFails
  BY <1>6 DEF StartAgent, Acquire, AcquireFails, Introspected, ReceiveClaims,
              IntrospectFails
<1>7. QED
  BY <1>1, <1>2, <1>3, <1>4, <1>5, <1>6 DEF Next, Agent

\* Keycloak only says "active" of a key that is not revoked, and what happens to the
\* client after that happens at most Introspect before the deadline.
LEMMA AnswersStep == IInv /\ [Next]_vars => AnswersKept'
<1> SUFFICES ASSUME IInv, [Next]_vars PROVE AnswersKept'
  OBVIOUS
<1> USE DEF IInv, TypeOK, AnswersKept
<1>1. CASE UNCHANGED vars
  BY <1>1 DEF vars
<1>2. CASE Provisioning
  <2>1. UNCHANGED <<now, tpc, deadline, _private_key_pem>>
    BY <1>2, ProvisioningOutside
  <2>2. CASE Administer
    BY <2>1, <2>2 DEF Administer, TokensKept
  <2>3. CASE ~Administer
    <3>1. UNCHANGED revokedAt
      BY <1>2, <2>3 DEF Provisioning, StoreKey, CreateClient, ProvisionFails, LookUp,
                        DeleteKeypair
    <3>2. QED
      BY <2>1, <3>1
  <2>4. QED
    BY <2>2, <2>3
<1>3. CASE Introspected
  BY <1>3 DEF Introspected, Authenticates, KeysKept
<1>4. CASE Tick
  BY <1>4 DEF Tick
<1>5. CASE Agent /\ ~Introspected
  BY <1>5 DEF Agent, StartAgent, GetCached, Return, Acquire, Issue, ReceiveToken,
              AcquireFails, ReceiveClaims, IntrospectFails
<1>6. QED
  BY <1>1, <1>2, <1>3, <1>4, <1>5 DEF Next

\* IInv holds in every reachable state.
THEOREM Inductive == Spec => []IInv
<1>1. IInv /\ [Next]_vars => IInv'
  BY TypeStep, KeysStep, TokensStep, AnswersStep DEF IInv
<1>2. QED
  BY <1>1, InitIInv, PTL DEF Spec

-----------------------------------------------------------------------------

\* Every variable of provisioning, Keycloak and the TokenManager keeps its type.
THEOREM TypeCorrect == Spec => []TypeOK
<1>1. IInv => TypeOK
  BY DEF IInv
<1>2. QED
  BY <1>1, Inductive, PTL

\* get_token (identity/token_manager.py) never hands out a token that expires before
\* its introspection is over, whenever the two timeouts fit into the buffer.
THEOREM TokenLives == Spec => []ReturnedTokenIsLive
<1>1. IInv => ReturnedTokenIsLive
  BY DEF IInv, TypeOK, TokensKept, ReturnedTokenIsLive
<1>2. QED
  BY <1>1, Inductive, PTL

\* suspend_client and delete_client end the authority of a key for good: later than
\* the timeout of one introspection no call, of whatever token, brings active claims.
THEOREM RevocationHolds == Spec => RevokedKeyIsDead
<1> DEFINE Authorised == claims' = "active" /\ claims # "active"
           k == _private_key_pem
           InTime == revokedAt[k] = Never \/ now <= revokedAt[k] + Introspect
<1>1. ASSUME IInv, Next, Authorised PROVE InTime
  <2>1. CASE ReceiveClaims
    BY <1>1, <2>1 DEF ReceiveClaims, IInv, TypeOK, TokensKept, AnswersKept
  <2>2. ASSUME ~ReceiveClaims PROVE FALSE
    BY <1>1, <2>2, ProvisioningOutside
       DEF Next, Agent, Tick, StartAgent, GetCached, Return, Acquire, Issue, ReceiveToken,
           AcquireFails, Introspected, IntrospectFails
  <2>3. QED
    BY <2>1, <2>2
<1>2. ASSUME IInv, [Next]_vars PROVE [Authorised => InTime]_vars
  BY <1>1, <1>2
<1>3. QED
  BY <1>2, Inductive, PTL DEF Spec, RevokedKeyIsDead

=============================================================================
