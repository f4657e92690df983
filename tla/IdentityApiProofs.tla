--------------------------- MODULE IdentityApiProofs ---------------------------
(***************************************************************************)
(* Theorems about IdentityApi for any number of requests, agents, keys,    *)
(* documents and restarts.                                                 *)
(***************************************************************************)
EXTENDS IdentityApi, SessionServiceProofs

-----------------------------------------------------------------------------
(* The invariant of the session service holds in the whole process: the      *)
(* registries do not touch its tables, and a restart only drops requests.    *)

LEMMA RestartSessions == SessionInv /\ Restart => SessionInv'
<1> SUFFICES ASSUME SessionInv, Restart
             PROVE  SessionInv'
  OBVIOUS
<1>1. /\ UNCHANGED <<sessions, attestations, nextId, tokens, now>>
      /\ sessionRequests' = [w \in SessionWorkers |-> NoSessionRequest]
  BY DEF Restart, tableVars
<1>2. RequestOK(NoSessionRequest)'
  BY IdleOK
<1>3. \A v, w \in SessionWorkers : Apart(sessionRequests'[v], sessionRequests'[w])
  BY <1>1, IdleOK, NothingHeld
<1>4. \A s \in sessions' : StoredOK(s)'
  BY <1>1 DEF SessionInv, StoredOK, RowOK
<1>5. \A w \in SessionWorkers : RequestOK(sessionRequests[w])'
  BY <1>1, <1>2
<1> QED BY <1>1, <1>3, <1>4, <1>5 DEF SessionInv, HasSession

LEMMA ApiSessions == SessionInv /\ [ApiNext]_apiVars => SessionInv'
<1> SUFFICES ASSUME SessionInv, [ApiNext]_apiVars
             PROVE  SessionInv'
  OBVIOUS
<1>1. now \in Int
  BY DEF SessionInv
<1>2. ASSUME UNCHANGED sessionVars, now' = now
      PROVE  SessionInv'
  BY <1>1, <1>2, SessionWait DEF sessionVars
<1>3. ASSUME NEW w \in AdminWorkers, Administer(w)
      PROVE  SessionInv'
  BY <1>2, <1>3 DEF Administer
<1>4. CASE ManageBlueprints
  BY <1>2, <1>4 DEF ManageBlueprints
<1>5. CASE ManageDelegations
  BY <1>2, <1>5
  DEF ManageDelegations, DelegationApi!CreateDelegation, DelegationApi!RevokeDelegation,
      DelegationApi!CommitRevocation, DelegationApi!FailRevocation
<1>6. CASE ServeSessions
  BY <1>6, SessionStep DEF ServeSessions
<1>7. CASE Tick
  BY <1>1, <1>7, SessionWait DEF Tick, tableVars, requestVars
<1>8. CASE Restart
  BY <1>8, RestartSessions
<1>9. CASE UNCHANGED apiVars
  BY <1>2, <1>9 DEF apiVars, tableVars, requestVars, sessionVars
<1> QED BY <1>3, <1>4, <1>5, <1>6, <1>7, <1>8, <1>9 DEF ApiNext

LEMMA ApiStart == ApiInit => SessionInv
BY SessionStart DEF ApiInit

\* A document opens one session at most, although NONCE_SEEN is forgotten at every
\* restart and any number of requests may present it at once.
THEOREM OneSessionPerNonce == ApiSpec => []NonceBacksOneSession
<1>1. SessionInv => NonceBacksOneSession
  BY DEF SessionInv, NonceBacksOneSession
<1> QED BY <1>1, ApiStart, ApiSessions, PTL DEF ApiSpec

\* A create_session that is refused, fails or is cut off uses up no nonce.
THEOREM AttestationsHaveSessions == ApiSpec => []AttestationHasSession
<1>1. SessionInv => AttestationHasSession
  BY DEF SessionInv, HasSession, AttestationHasSession
<1> QED BY <1>1, ApiStart, ApiSessions, PTL DEF ApiSpec

\* No session without a committed attestation that was fresh when it was verified
\* and whose document made every required claim about the session's agent.
THEOREM AttestedSessions == ApiSpec => []EverySessionAttested
<1>1. SessionInv => EverySessionAttested
  <2> SUFFICES ASSUME SessionInv, NEW s \in sessions
               PROVE  /\ \E t \in attestations :
                           /\ t.nonce = s.nonce
                           /\ Distance(t.verifiedAt, t.issuedAt) <= MaxSkew
                           /\ t.verifiedAt <= s.issued
                      /\ \E e \in Evidence : e.nonce = s.nonce /\ e.agent = s.agent /\ e.complete
    BY DEF EverySessionAttested
  <2> QED BY DEF SessionInv, StoredOK, RowOK, VerifiedBy, Documented
<1> QED BY <1>1, ApiStart, ApiSessions, PTL DEF ApiSpec

-----------------------------------------------------------------------------
(* A revoked agent.                                                          *)

\* Rows of agents, stored or about to be, have a status.
AgentRows ==
  /\ DOMAIN agents = Agents /\ DOMAIN agentRequests = AdminWorkers
  /\ \A a \in Agents : "status" \in DOMAIN agents[a]
  /\ \A w \in AdminWorkers :
       agentRequests[w].kind = "insert" => "status" \in DOMAIN agentRequests[w].row

\* What an administrator's load, or its end, does to the requests.
LEMMA AgentRowsRequest ==
  ASSUME AgentRows, NEW w \in AdminWorkers, NEW r, agents' = agents,
         agentRequests' = [agentRequests EXCEPT ![w] = r],
         r.kind = "insert" => "status" \in DOMAIN r.row
  PROVE  AgentRows'
BY DEF AgentRows

LEMMA HandleRows ==
  ASSUME AgentRows, NEW w \in AdminWorkers, Registry!Handle(w)
  PROVE  AgentRows'
<1>1. ASSUME NEW b, NEW k, Registry!CreateAgent(w, b, k)
      PROVE  AgentRows'
  <2>1. "status" \in DOMAIN Registry!NewAgent(b, k)
    BY DEF Registry!NewAgent, Registry!NoAgent
  <2> QED BY <1>1, <2>1, AgentRowsRequest DEF Registry!CreateAgent
<1>2. ASSUME NEW a, NEW e, Registry!LoadAndEdit(w, a, e)
      PROVE  AgentRows'
  BY <1>2, AgentRowsRequest DEF Registry!LoadAndEdit
<1>3. ASSUME Registry!InsertAgent(w)
      PROVE  AgentRows'
  BY <1>3 DEF Registry!InsertAgent, Registry!Idle, AgentRows
<1>4. ASSUME Registry!UpdateAgent(w)
      PROVE  AgentRows'
  <2>1. "status" \in DOMAIN Registry!Merge(agents[agentRequests[w].agent],
                                           agentRequests[w].loaded, agentRequests[w].edited)
    BY DEF Registry!Merge
  <2> QED BY <1>4, <2>1 DEF Registry!UpdateAgent, Registry!Idle, AgentRows
<1>5. ASSUME Registry!FailRequest(w)
      PROVE  AgentRows'
  BY <1>5, AgentRowsRequest DEF Registry!FailRequest, Registry!Idle
<1> QED
  BY <1>1, <1>2, <1>3, <1>4, <1>5
  DEF Registry!Handle, Registry!Commit, Registry!ActivateAgent, Registry!SuspendAgent,
      Registry!RevokeAgent, Registry!RotateKey
LEMMA ApiRows == AgentRows /\ [ApiNext]_apiVars => AgentRows'
<1> SUFFICES ASSUME AgentRows, [ApiNext]_apiVars
             PROVE  AgentRows'
  OBVIOUS
<1>1. ASSUME NEW w \in AdminWorkers, Administer(w)
      PROVE  AgentRows'
  BY <1>1, HandleRows DEF Administer
<1>2. ASSUME UNCHANGED <<agents, agentRequests>>
      PROVE  AgentRows'
  BY <1>2 DEF AgentRows
<1>3. CASE Restart
  BY <1>3 DEF Restart, tableVars, AgentRows, Registry!Idle
<1> QED
  BY <1>1, <1>2, <1>3
  DEF ApiNext, ManageBlueprints, ManageDelegations, ServeSessions, Tick, apiVars, tableVars,
      requestVars

\* The agents of a provisioned deployment: active, with the stamp of it, each
\* under a blueprint.
LEMMA Provisioned ==
  ASSUME ApiInit
  PROVE  /\ agents \in [Agents -> Registry!AgentRow]
         /\ \A a \in Agents :
              /\ agents[a].status = "active" /\ agents[a].blueprint \in Blueprints
              /\ agents[a].activated /\ ~agents[a].suspended /\ ~agents[a].revoked
<1> DEFINE Row(b, k) == [Registry!NewAgent(b, k) EXCEPT !.status = "active", !.activated = TRUE]
           Good(row) == /\ row.status = "active" /\ row.blueprint \in Blueprints
                        /\ row.activated /\ ~row.suspended /\ ~row.revoked
<1>1. PICK b \in [Agents -> Blueprints], k \in [Agents -> Keys \cup {NoKey}] :
        agents = [a \in Agents |-> Row(b[a], k[a])]
  BY DEF ApiInit
<1>2. ASSUME NEW c \in Blueprints, NEW h \in Keys \cup {NoKey}
      PROVE  Row(c, h) \in Registry!AgentRow /\ Good(Row(c, h))
  <2> DEFINE new == Registry!NewAgent(c, h)
  <2>1. /\ new \in Registry!AgentRow /\ new.blueprint = c
        /\ ~new.suspended /\ ~new.revoked
    BY DEF Registry!NewAgent, Registry!NoAgent, Registry!AgentRow, Registry!AgentStatus
  <2> HIDE DEF new
  <2>2. LET row == [new EXCEPT !.status = "active", !.activated = TRUE]
        IN  row \in Registry!AgentRow /\ Good(row)
    BY <2>1 DEF Registry!AgentRow, Registry!AgentStatus
  <2> QED BY <2>2 DEF new
<1> HIDE DEF Row
<1>3. \A a \in Agents : b[a] \in Blueprints /\ k[a] \in Keys \cup {NoKey}
  OBVIOUS
<1> QED BY <1>1, <1>2, <1>3

LEMMA ApiRowsStart == ApiInit => AgentRows
<1> SUFFICES ASSUME ApiInit
             PROVE  AgentRows
  OBVIOUS
<1>1. agents \in [Agents -> Registry!AgentRow]
  BY Provisioned
<1>2. \A a \in Agents : "status" \in DOMAIN agents[a]
  BY <1>1 DEF Registry!AgentRow
<1> QED BY <1>1, <1>2 DEF ApiInit, AgentRows, Registry!Idle

\* Whoever administers agent a, with no older request left, cannot bring it back:
\* activation and suspension are refused, and a merge leaves the status alone.
LEMMA HandleSettled ==
  ASSUME AgentRows, NEW a \in Agents, Registry!Settled(a),
         NEW w \in AdminWorkers, Registry!Handle(w)
  PROVE  Registry!Settled(a)'
<1>1. agents[a].status = "revoked" /\ \A v \in AdminWorkers : ~Registry!Overwrites(v, a)
  BY DEF Registry!Settled
<1>2. ASSUME NEW b \in Agents, NEW e, Registry!LoadAndEdit(w, b, e),
             b = a => e.status = "revoked"
      PROVE  Registry!Settled(a)'
  <2>1. /\ agents' = agents
        /\ agentRequests'[w] = [kind |-> "update", agent |-> b, loaded |-> agents[b], edited |-> e]
        /\ \A v \in AdminWorkers : v # w => agentRequests'[v] = agentRequests[v]
    BY <1>2 DEF Registry!LoadAndEdit, AgentRows
  <2>2. ~Registry!Overwrites(w, a)'
    BY <2>1, <1>2 DEF Registry!Overwrites
  <2>3. \A v \in AdminWorkers : v # w => ~Registry!Overwrites(v, a)'
    BY <2>1, <1>1 DEF Registry!Overwrites
  <2> QED BY <1>1, <2>1, <2>2, <2>3 DEF Registry!Settled
<1>3. ASSUME agentRequests'[w].kind # "update", agents'[a].status = "revoked",
             \A v \in AdminWorkers : v # w => agentRequests'[v] = agentRequests[v]
      PROVE  Registry!Settled(a)'
  BY <1>1, <1>3 DEF Registry!Settled, Registry!Overwrites
<1>4. ASSUME NEW b \in Agents, Registry!ActivateAgent(w, b) \/ Registry!SuspendAgent(w, b)
      PROVE  Registry!Settled(a)'
  BY <1>1, <1>2, <1>4
  DEF Registry!ActivateAgent, Registry!MayActivate, Registry!SuspendAgent, Registry!MaySuspend
<1>5. ASSUME NEW b \in Agents, Registry!RevokeAgent(w, b)
      PROVE  Registry!Settled(a)'
  <2>1. [agents[b] EXCEPT !.status = "revoked", !.revoked = TRUE].status = "revoked"
    BY DEF AgentRows
  <2> QED BY <1>2, <1>5, <2>1 DEF Registry!RevokeAgent
<1>6. ASSUME NEW b \in Agents, NEW k, Registry!RotateKey(w, b, k)
      PROVE  Registry!Settled(a)'
  <2>1. [agents[b] EXCEPT !.key = k].status = agents[b].status
    BY DEF AgentRows
  <2> QED BY <1>1, <1>2, <1>6, <2>1 DEF Registry!RotateKey
<1>7. ASSUME NEW b, NEW k, Registry!CreateAgent(w, b, k)
      PROVE  Registry!Settled(a)'
  BY <1>1, <1>3, <1>7 DEF Registry!CreateAgent, AgentRows
<1>8. ASSUME Registry!InsertAgent(w)
      PROVE  Registry!Settled(a)'
  BY <1>1, <1>3, <1>8 DEF Registry!InsertAgent, Registry!Exists, Registry!Idle, AgentRows
<1>9. ASSUME Registry!UpdateAgent(w)
      PROVE  Registry!Settled(a)'
  <2> DEFINE r == agentRequests[w]
             m == Registry!Merge(agents[r.agent], r.loaded, r.edited)
  <2>1. /\ agents' = [agents EXCEPT ![r.agent] = m]
        /\ agentRequests' = [agentRequests EXCEPT ![w] = Registry!Idle]
        /\ r.kind = "update"
    BY <1>9 DEF Registry!UpdateAgent
  <2>2. r.agent = a => m.status = "revoked"
    BY <1>1, <2>1 DEF Registry!Overwrites, Registry!Merge, Registry!Written
  <2>3. agents'[a].status = "revoked"
    BY <1>1, <2>1, <2>2 DEF AgentRows
  <2> QED BY <1>3, <2>1, <2>3 DEF Registry!Idle, AgentRows
<1>10. ASSUME Registry!FailRequest(w)
       PROVE  Registry!Settled(a)'
  BY <1>1, <1>3, <1>10 DEF Registry!FailRequest, Registry!Idle, AgentRows
<1> QED
  BY <1>4, <1>5, <1>6, <1>7, <1>8, <1>9, <1>10 DEF Registry!Handle, Registry!Commit

\* A request for another agent, or for none.
NotFor(r, a) ==
  /\ r.kind = "load" => r.agent # a
  /\ r.kind \in Verified => r.att.agent # a

LEMMA NotInFlight ==
  ASSUME NEW w, NEW a
  PROVE  ~InFlightFor(w, a) <=> NotFor(sessionRequests[w], a)
BY DEF InFlightFor, NotFor, Verified

\* A step that replaces one request by another that is not for a.
LEMMA ReplaceRequest ==
  ASSUME SessionInv, NEW a, \A v \in SessionWorkers : ~InFlightFor(v, a),
         NEW w \in SessionWorkers, NEW r, NotFor(r, a),
         sessionRequests' = [sessionRequests EXCEPT ![w] = r]
  PROVE  \A v \in SessionWorkers : ~InFlightFor(v, a)'
<1>1. \A v \in SessionWorkers : NotFor(sessionRequests[v], a)
  BY NotInFlight
<1>2. \A v \in SessionWorkers : NotFor(sessionRequests'[v], a)
  BY <1>1 DEF SessionInv
<1> QED BY <1>2 DEF InFlightFor, NotFor, Verified

LEMMA NobodyRequest == \A a : NotFor(NoSessionRequest, a)
BY DEF NotFor, NoSessionRequest, Verified

\* An agent that is not active and has no request past the check gets nothing.
LEMMA NothingOpens ==
  ASSUME SessionInv, SessionNext, NEW a, agents[a].status # "active",
         \A v \in SessionWorkers : ~InFlightFor(v, a)
  PROVE  /\ \A v \in SessionWorkers : ~InFlightFor(v, a)'
         /\ SessionsOf(a)' = SessionsOf(a) /\ TokensOf(a)' = TokensOf(a)
<1> DEFINE Keeps == /\ \A v \in SessionWorkers : ~InFlightFor(v, a)'
                    /\ SessionsOf(a)' = SessionsOf(a) /\ TokensOf(a)' = TokensOf(a)
<1>1. sessions' = sessions => SessionsOf(a)' = SessionsOf(a)
  BY DEF SessionsOf
<1>2. tokens' = tokens => TokensOf(a)' = TokensOf(a)
  BY DEF TokensOf
<1>3. ASSUME NEW w \in SessionWorkers, NEW r, NotFor(r, a),
             sessionRequests' = [sessionRequests EXCEPT ![w] = r],
             SessionsOf(a)' = SessionsOf(a), TokensOf(a)' = TokensOf(a)
      PROVE  Keeps
  BY <1>3, ReplaceRequest
<1>4. ASSUME NEW w \in SessionWorkers
      PROVE  NotFor(sessionRequests[w], a) /\ RequestOK(sessionRequests[w])
  BY NotInFlight DEF SessionInv
<1>5. ASSUME NEW w \in SessionWorkers, NEW b, NEW ask, BeginSession(w, b, ask)
      PROVE  Keeps
  <2> DEFINE r == [kind |-> "load", agent |-> b, key |-> agents[b].key, ask |-> ask]
  <2>1. b # a
    BY <1>5 DEF BeginSession, MayOpenSession
  <2>2. NotFor(r, a)
    BY <2>1 DEF NotFor, Verified
  <2> HIDE DEF r
  <2>3. sessionRequests' = [sessionRequests EXCEPT ![w] = r]
    BY <1>5 DEF BeginSession, Proceed, r
  <2> QED BY <1>1, <1>2, <1>3, <1>5, <2>2, <2>3 DEF BeginSession
<1>6. ASSUME NEW w \in SessionWorkers, VerifyAttestation(w)
      PROVE  Keeps
  <2> DEFINE r == sessionRequests[w]
             q == [ kind |-> "attestation",
                    att |-> [nonce |-> r.ask.evidence.nonce, agent |-> r.agent,
                             issuedAt |-> r.ask.evidence.issuedAt, verifiedAt |-> now],
                    ttl |-> SessionTtl(r.ask.ttl, blueprints[agents[r.agent].blueprint].ttl),
                    delegation |-> r.ask.delegation ]
  <2>1. NotFor(q, a)
    BY <1>4, <1>6 DEF VerifyAttestation, NotFor, Verified
  <2>2. \/ sessionRequests' = [sessionRequests EXCEPT ![w] = q]
        \/ sessionRequests' = [sessionRequests EXCEPT ![w] = NoSessionRequest]
    BY <1>6 DEF VerifyAttestation, Proceed
  <2> HIDE DEF q
  <2> QED BY <1>1, <1>2, <1>3, <1>6, <2>1, <2>2, NobodyRequest DEF VerifyAttestation
<1>7. ASSUME NEW w \in SessionWorkers, FlushAttestation(w)
      PROVE  Keeps
  <2> DEFINE r == sessionRequests[w]
             q == [r EXCEPT !.kind = "delegation"]
  <2>1. NotFor(q, a)
    <3>1. RequestOK(r) /\ r.kind = "attestation"
      BY <1>4, <1>7 DEF FlushAttestation
    <3>2. q = [kind |-> "delegation", att |-> r.att, ttl |-> r.ttl, delegation |-> r.delegation]
      BY <3>1 DEF RequestOK, IsRequest
    <3>3. r.att.agent # a
      BY <1>4, <1>7 DEF FlushAttestation, NotFor, Verified
    <3> QED BY <3>2, <3>3 DEF NotFor
  <2>2. \/ sessionRequests' = [sessionRequests EXCEPT ![w] = q]
        \/ sessionRequests' = [sessionRequests EXCEPT ![w] = NoSessionRequest]
    BY <1>7 DEF FlushAttestation, Proceed
  <2> HIDE DEF q
  <2> QED BY <1>1, <1>2, <1>3, <1>7, <2>1, <2>2, NobodyRequest DEF FlushAttestation
<1>8. ASSUME NEW w \in SessionWorkers, FlushSession(w)
      PROVE  Keeps
  <2> DEFINE r == sessionRequests[w]
             q == [ kind |-> "respond", att |-> r.att,
                    row |-> [ id |-> nextId, agent |-> r.att.agent,
                              delegation |-> r.delegation, nonce |-> r.att.nonce,
                              issued |-> now, expires |-> now + r.ttl * Second, revoked |-> FALSE ] ]
  <2>1. NotFor(q, a)
    BY <1>4, <1>8 DEF FlushSession, NotFor, Verified
  <2>2. \/ sessionRequests' = [sessionRequests EXCEPT ![w] = q]
        \/ sessionRequests' = [sessionRequests EXCEPT ![w] = NoSessionRequest]
    BY <1>8 DEF FlushSession, Proceed
  <2> HIDE DEF q
  <2> QED BY <1>1, <1>2, <1>3, <1>8, <2>1, <2>2, NobodyRequest DEF FlushSession
<1>9. ASSUME NEW w \in SessionWorkers, Respond(w)
      PROVE  Keeps
  <2> DEFINE r == sessionRequests[w]
             q == [r EXCEPT !.kind = "commit"]
  <2>1. r.kind = "respond" /\ r.row.agent # a
    BY <1>4, <1>9 DEF Respond, NotFor, Verified, Built, RequestOK, RowOK
  <2>2. NotFor(q, a)
    <3>1. RequestOK(r)
      BY <1>4
    <3>2. q = [kind |-> "commit", att |-> r.att, row |-> r.row]
      BY <2>1, <3>1 DEF RequestOK, IsRequest, Built
    <3>3. r.att.agent # a
      BY <1>4, <2>1 DEF NotFor, Verified
    <3> QED BY <3>2, <3>3 DEF NotFor
  <2>3. TokensOf(a)' = TokensOf(a)
    BY <1>9, <2>1 DEF Respond, TokensOf, TokenOf
  <2>4. sessionRequests' = [sessionRequests EXCEPT ![w] = q]
    BY <1>9 DEF Respond, Proceed
  <2> HIDE DEF q
  <2> QED BY <1>1, <1>3, <1>9, <2>2, <2>3, <2>4 DEF Respond
<1>10. ASSUME NEW w \in SessionWorkers, CommitSession(w)
       PROVE  Keeps
  <2>1. sessionRequests[w].row.agent # a
    BY <1>4, <1>10 DEF CommitSession, NotFor, Verified, Built, RequestOK, RowOK
  <2>2. SessionsOf(a)' = SessionsOf(a)
    BY <1>10, <2>1 DEF CommitSession, SessionsOf
  <2> QED BY <1>2, <1>3, <1>10, <2>2, NobodyRequest DEF CommitSession, Proceed
<1>11. ASSUME NEW w \in SessionWorkers, CommitRevoke(w)
       PROVE  Keeps
  <2>1. /\ \A s \in sessions' : \E t \in sessions : SameRow(s, t)
        /\ \A t \in sessions : \E s \in sessions' : SameRow(s, t)
    BY <1>11, RevokeKeepsRows
  <2>2. SessionsOf(a)' = SessionsOf(a)
    BY <2>1 DEF SessionsOf, SameRow
  <2> QED BY <1>2, <1>3, <1>11, <2>2, NobodyRequest DEF CommitRevoke, Proceed
<1>12. ASSUME NEW w \in SessionWorkers, NEW s, BeginRevoke(w, s)
       PROVE  Keeps
  <2>1. NotFor([kind |-> "revoke", id |-> s.id], a)
    BY DEF NotFor, Verified
  <2> QED BY <1>1, <1>2, <1>3, <1>12, <2>1 DEF BeginRevoke, Proceed
<1>13. ASSUME NEW w \in SessionWorkers, FailSession(w)
       PROVE  Keeps
  BY <1>1, <1>2, <1>3, <1>13, NobodyRequest DEF FailSession, Proceed
<1> HIDE DEF Keeps
<1>14. Keeps
  BY <1>5, <1>6, <1>7, <1>8, <1>9, <1>10, <1>11, <1>12, <1>13 DEF SessionNext, AdvanceSession
<1> QED BY <1>14 DEF Keeps

\* One step of the API leaves a revoked agent that is cut off with what it had.
LEMMA ShutStep ==
  ASSUME SessionInv, AgentRows, [ApiNext]_apiVars, NEW a \in Agents, AgentShut(a)
  PROVE  AgentShut(a)' /\ SessionsOf(a)' = SessionsOf(a) /\ TokensOf(a)' = TokensOf(a)
<1> DEFINE Quiet == \A w \in SessionWorkers : ~InFlightFor(w, a)
           Same == SessionsOf(a)' = SessionsOf(a) /\ TokensOf(a)' = TokensOf(a)
<1>1. Registry!Settled(a) /\ Quiet
  BY DEF AgentShut
<1>2. UNCHANGED <<agents, agentRequests>> => Registry!Settled(a)'
  BY <1>1 DEF Registry!Settled, Registry!Overwrites
<1>3. UNCHANGED sessionVars => Quiet' /\ Same
  BY <1>1 DEF sessionVars, InFlightFor, SessionsOf, TokensOf
<1>4. ASSUME NEW w \in AdminWorkers, Administer(w)
      PROVE  Registry!Settled(a)' /\ Quiet' /\ Same
  BY <1>1, <1>3, <1>4, HandleSettled DEF Administer
<1>5. CASE ManageBlueprints \/ ManageDelegations
  BY <1>2, <1>3, <1>5 DEF ManageBlueprints, ManageDelegations, AgentShut
<1>6. CASE ServeSessions
  <2>1. agents[a].status # "active"
    BY <1>1 DEF Registry!Settled
  <2> QED BY <1>1, <1>2, <1>6, <2>1, NothingOpens DEF ServeSessions, AgentShut
<1>7. CASE Tick \/ UNCHANGED apiVars
  BY <1>2, <1>3, <1>7 DEF Tick, apiVars, tableVars, requestVars, sessionVars, AgentShut
<1>8. CASE Restart
  <2>1. \A w \in AdminWorkers : agentRequests'[w].kind = "idle"
    BY <1>8 DEF Restart, Registry!Idle
  <2>2. agents' = agents /\ sessions' = sessions /\ tokens' = tokens
    BY <1>8 DEF Restart, tableVars
  <2>3. Registry!Settled(a)'
    BY <1>1, <2>1, <2>2 DEF Registry!Settled, Registry!Overwrites
  <2>4. \A w \in SessionWorkers : sessionRequests'[w].kind = "idle"
    BY <1>8 DEF Restart, NoSessionRequest
  <2>5. Quiet'
    BY <2>4 DEF InFlightFor
  <2> QED BY <2>2, <2>3, <2>5 DEF AgentShut, SessionsOf, TokensOf
<1> QED BY <1>4, <1>5, <1>6, <1>7, <1>8 DEF ApiNext, AgentShut

\* When the requests that overlapped its revocation have drained, an agent never
\* gets another session or token, by replay, rotation, activation or restart.
THEOREM ShutAgentStaysOut == ApiSpec => ShutAgentGetsNothing
<1>1. SessionInv /\ AgentRows /\ [ApiNext]_apiVars =>
        [\A a \in Agents : AgentShut(a) =>
           AgentShut(a)' /\ SessionsOf(a)' = SessionsOf(a) /\ TokensOf(a)' = TokensOf(a)]_apiVars
  BY ShutStep
<1> QED
  BY <1>1, ApiStart, ApiSessions, ApiRowsStart, ApiRows, PTL DEF ApiSpec, ShutAgentGetsNothing

-----------------------------------------------------------------------------
(* The types of the whole API: the rows of the four tables and what the     *)
(* requests in flight carry.                                                 *)

\* What the agent endpoints keep.
AgentTypes ==
  /\ Registry!TypeOK
  /\ \A a \in Agents : agents[a].blueprint \in Blueprints
  /\ \A w \in AdminWorkers :
       /\ agentRequests[w].kind = "insert" => agentRequests[w].row.blueprint \in Blueprints
       /\ agentRequests[w].kind = "update" => agentRequests[w].edited.blueprint \in Blueprints

LEMMA AgentLoadTypes ==
  ASSUME AgentTypes, NEW w \in AdminWorkers, NEW a \in Agents, NEW e \in Registry!AgentRow,
         e.blueprint = agents[a].blueprint, Registry!LoadAndEdit(w, a, e)
  PROVE  AgentTypes'
<1> DEFINE r == [kind |-> "update", agent |-> a, loaded |-> agents[a], edited |-> e]
<1>1. r \in Registry!Request
  BY DEF AgentTypes, Registry!TypeOK, Registry!Request
<1>2. Registry!TypeOK'
  BY <1>1 DEF AgentTypes, Registry!TypeOK, Registry!LoadAndEdit
<1>3. r.kind = "update" /\ r.edited.blueprint \in Blueprints
  BY DEF AgentTypes
<1> HIDE DEF r
<1> QED BY <1>2, <1>3 DEF AgentTypes, Registry!TypeOK, Registry!LoadAndEdit, r

LEMMA AgentHandleTypes ==
  ASSUME AgentTypes, NEW w \in AdminWorkers, Registry!Handle(w)
  PROVE  AgentTypes'
<1>1. ASSUME NEW b \in Blueprints, NEW k \in Keys \cup {NoKey}, Registry!CreateAgent(w, b, k)
      PROVE  AgentTypes'
  <2>1. Registry!NewAgent(b, k) \in Registry!AgentRow /\ Registry!NewAgent(b, k).blueprint = b
    BY DEF Registry!NewAgent, Registry!NoAgent, Registry!AgentRow, Registry!AgentStatus
  <2>2. Registry!TypeOK'
    BY <1>1, <2>1 DEF Registry!CreateAgent, AgentTypes, Registry!TypeOK, Registry!Request
  <2> QED
    BY <1>1, <2>1, <2>2 DEF Registry!CreateAgent, AgentTypes, Registry!TypeOK
<1>2. ASSUME NEW a \in Agents, NEW e,
             \/ e = [agents[a] EXCEPT !.status = "active", !.activated = TRUE]
             \/ e = [agents[a] EXCEPT !.status = "suspended", !.suspended = TRUE]
             \/ e = [agents[a] EXCEPT !.status = "revoked", !.revoked = TRUE]
             \/ \E k \in Keys : e = [agents[a] EXCEPT !.key = k],
             Registry!LoadAndEdit(w, a, e)
      PROVE  AgentTypes'
  <2>1. agents[a] \in Registry!AgentRow
    BY DEF AgentTypes, Registry!TypeOK
  <2>2. e \in Registry!AgentRow /\ e.blueprint = agents[a].blueprint
    BY <1>2, <2>1 DEF Registry!AgentRow, Registry!AgentStatus
  <2> QED BY <1>2, <2>2, AgentLoadTypes
<1>3. ASSUME Registry!InsertAgent(w)
      PROVE  AgentTypes'
  <2>1. /\ agentRequests[w].row \in Registry!AgentRow
        /\ agentRequests[w].row.blueprint \in Blueprints
    BY <1>3 DEF Registry!InsertAgent, AgentTypes, Registry!TypeOK, Registry!Request, Registry!Idle
  <2> QED
    BY <1>3, <2>1
    DEF Registry!InsertAgent, AgentTypes, Registry!TypeOK, Registry!Request, Registry!Idle
<1>4. ASSUME Registry!UpdateAgent(w)
      PROVE  AgentTypes'
  <2> DEFINE r == agentRequests[w]
             row == Registry!Merge(agents[r.agent], r.loaded, r.edited)
  <2>1. /\ r.agent \in Agents /\ r.loaded \in Registry!AgentRow /\ r.edited \in Registry!AgentRow
        /\ agents[r.agent] \in Registry!AgentRow
        /\ r.edited.blueprint \in Blueprints /\ agents[r.agent].blueprint \in Blueprints
    BY <1>4 DEF Registry!UpdateAgent, AgentTypes, Registry!TypeOK, Registry!Request, Registry!Idle
  <2>2. row \in Registry!AgentRow
    BY <2>1 DEF Registry!Merge, Registry!Written, Registry!AgentRow
  <2>3. row.blueprint \in Blueprints
    BY <2>1 DEF Registry!Merge, Registry!Written
  <2> HIDE DEF row
  <2> QED
    BY <1>4, <2>1, <2>2, <2>3
    DEF Registry!UpdateAgent, AgentTypes, Registry!TypeOK, Registry!Request, Registry!Idle, row
<1>5. ASSUME Registry!FailRequest(w)
      PROVE  AgentTypes'
  BY <1>5 DEF Registry!FailRequest, AgentTypes, Registry!TypeOK, Registry!Request, Registry!Idle
<1> QED
  BY <1>1, <1>2, <1>3, <1>4, <1>5
  DEF Registry!Handle, Registry!Commit, Registry!ActivateAgent, Registry!SuspendAgent,
      Registry!RevokeAgent, Registry!RotateKey

-----------------------------------------------------------------------------
(* The blueprint endpoints keep in the process what they keep alone.         *)

BlueprintFacts == INSTANCE BlueprintRegistryProofs

\* IdentityApi's instance of the registry and the one the proofs are about.
LEMMA SameBlueprintRegistry ==
  /\ BlueprintApi!Next => BlueprintFacts!Next
  /\ BlueprintApi!BlueprintTypeOK <=> BlueprintFacts!BlueprintTypeOK
BY DEF BlueprintApi!Next, BlueprintFacts!Next,
       BlueprintApi!CreateBlueprint, BlueprintFacts!CreateBlueprint,
       BlueprintApi!UpdateBlueprint, BlueprintFacts!UpdateBlueprint,
       BlueprintApi!ActivateBlueprint, BlueprintFacts!ActivateBlueprint,
       BlueprintApi!DeactivateBlueprint, BlueprintFacts!DeactivateBlueprint,
       BlueprintApi!InsertBlueprint, BlueprintFacts!InsertBlueprint,
       BlueprintApi!CommitBlueprint, BlueprintFacts!CommitBlueprint,
       BlueprintApi!FailBlueprintRequest, BlueprintFacts!FailBlueprintRequest,
       BlueprintApi!LoadAndEdit, BlueprintFacts!LoadAndEdit,
       BlueprintApi!SlugTaken, BlueprintFacts!SlugTaken,
       BlueprintApi!NewBlueprint, BlueprintFacts!NewBlueprint,
       BlueprintApi!BlueprintExists, BlueprintFacts!BlueprintExists,
       BlueprintApi!NoRequest, BlueprintFacts!NoRequest,
       BlueprintApi!Merge, BlueprintFacts!Merge,
       BlueprintApi!Written, BlueprintFacts!Written,
       BlueprintApi!Storable, BlueprintFacts!Storable,
       BlueprintApi!BlueprintTypeOK, BlueprintFacts!BlueprintTypeOK,
       BlueprintApi!BlueprintRow, BlueprintFacts!BlueprintRow,
       BlueprintApi!BlueprintStatus, BlueprintFacts!BlueprintStatus,
       BlueprintApi!BlueprintRequest, BlueprintFacts!BlueprintRequest

LEMMA BlueprintConstants == BlueprintFacts!BlueprintAssumption
BY ApiAssumption, Zenon DEF BlueprintFacts!BlueprintAssumption, ApiAssumption

\* The registry's own invariant, and no blueprint goes away.
BlueprintTypes ==
  /\ BlueprintFacts!BlueprintInv
  /\ \A b \in Blueprints : BlueprintFacts!BlueprintExists(b)

LEMMA BlueprintNextTypes ==
  ASSUME BlueprintTypes, BlueprintApi!Next
  PROVE  BlueprintTypes'
<1>1. BlueprintFacts!BlueprintInv /\ BlueprintFacts!Next
  BY SameBlueprintRegistry DEF BlueprintTypes
<1>2. BlueprintFacts!BlueprintInv'
  BY <1>1, BlueprintFacts!BlueprintStep, BlueprintConstants, Zenon
<1>3. ASSUME NEW b \in Blueprints, blueprints'[b] # blueprints[b]
      PROVE  blueprints'[b].status # "absent"
  <2>1. BlueprintFacts!BlueprintExists(b)
    BY DEF BlueprintTypes
  <2>2. PICK w \in BlueprintWorkers :
          /\ BlueprintFacts!CommitBlueprint(w) /\ blueprintRequests[w].blueprint = b
          /\ blueprints'[b] = BlueprintFacts!Merge(blueprints[b], blueprintRequests[w].loaded,
                                                  blueprintRequests[w].edited)
    BY <1>1, <1>3, <2>1, BlueprintFacts!RowChanges, BlueprintConstants, Zenon
  <2> QED BY <1>1, <2>2, BlueprintFacts!MergedRow, BlueprintConstants, Zenon
<1> QED BY <1>2, <1>3 DEF BlueprintTypes, BlueprintFacts!BlueprintExists

\* A restart drops the requests in flight.
LEMMA BlueprintRestart ==
  ASSUME BlueprintTypes, Restart
  PROVE  BlueprintTypes'
<1>1. /\ blueprints' = blueprints
      /\ blueprintRequests' = [w \in BlueprintWorkers |-> BlueprintFacts!NoRequest]
  BY DEF Restart, tableVars, BlueprintApi!NoRequest, BlueprintFacts!NoRequest
<1>2. /\ BlueprintFacts!NoRequest \in BlueprintFacts!BlueprintRequest
      /\ BlueprintFacts!NoRequest.kind = "idle"
  BY DEF BlueprintFacts!NoRequest, BlueprintFacts!BlueprintRequest
<1> QED
  BY <1>1, <1>2
  DEF BlueprintTypes, BlueprintFacts!BlueprintInv, BlueprintFacts!BlueprintTypeOK,
      BlueprintFacts!SlugUnique, BlueprintFacts!TtlStored, BlueprintFacts!BlueprintExists,
      BlueprintFacts!EditOK

-----------------------------------------------------------------------------
\* What the delegation endpoints keep.
LEMMA DelegationTypes ==
  ASSUME DelegationApi!DelegationTypeOK, now \in Nat, ManageDelegations
  PROVE  DelegationApi!DelegationTypeOK' /\ now' = now
<1> USE ApiAssumption DEF DelegationApi!DelegationTypeOK
<1>1. ASSUME NEW d \in Delegations, NEW a \in Agents, NEW t \in DelegationTtls,
             DelegationApi!CreateDelegation(d, a, t)
      PROVE  DelegationApi!DelegationTypeOK' /\ now' = now
  <2>1. now + t \in Nat
    OBVIOUS
  <2>2. [agent |-> a, expires |-> now + t, revoked |-> FALSE] \in DelegationApi!Grant
    BY <2>1 DEF DelegationApi!Grant
  <2> QED BY <1>1, <2>2 DEF DelegationApi!CreateDelegation
<1>2. ASSUME NEW w \in DelegationWorkers, NEW d \in Delegations,
             DelegationApi!RevokeDelegation(w, d)
      PROVE  DelegationApi!DelegationTypeOK' /\ now' = now
  BY <1>2 DEF DelegationApi!RevokeDelegation, DelegationApi!Revocation
<1>3. ASSUME NEW w \in DelegationWorkers, DelegationApi!CommitRevocation(w)
      PROVE  DelegationApi!DelegationTypeOK' /\ now' = now
  <2> DEFINE r == delegationRequests[w]
             revoked == DelegationApi!Written(delegations[r.grant].revoked, r.loaded.revoked, TRUE)
  <2>1. r.grant \in Delegations /\ r.loaded \in DelegationApi!Grant
    BY <1>3 DEF DelegationApi!CommitRevocation, DelegationApi!Revocation, DelegationApi!NoRevocation
  <2>2. revoked \in BOOLEAN
    BY <2>1 DEF DelegationApi!Written, DelegationApi!Grant
  <2>3. [delegations[r.grant] EXCEPT !.revoked = revoked] \in DelegationApi!Grant
    BY <2>1, <2>2 DEF DelegationApi!Grant
  <2> HIDE DEF revoked
  <2>4. delegations' = [delegations EXCEPT
                          ![r.grant] = [delegations[r.grant] EXCEPT !.revoked = revoked]]
    BY <1>3 DEF DelegationApi!CommitRevocation, revoked
  <2> QED
    BY <1>3, <2>1, <2>3, <2>4
    DEF DelegationApi!CommitRevocation, DelegationApi!Revocation
<1>4. ASSUME NEW w \in DelegationWorkers, DelegationApi!FailRevocation(w)
      PROVE  DelegationApi!DelegationTypeOK' /\ now' = now
  BY <1>4 DEF DelegationApi!FailRevocation, DelegationApi!Revocation
<1> QED BY <1>1, <1>2, <1>3, <1>4 DEF ManageDelegations

-----------------------------------------------------------------------------
\* What the session service keeps, given rows to read.
LEMMA ProceedTypes ==
  ASSUME SessionTypeOK, NEW w \in SessionWorkers, NEW r \in SessionRequest, Proceed(w, r),
         UNCHANGED <<sessions, attestations, tokens>>,
         nonceSeen' \subseteq Nonces, nextId' \in Nat
  PROVE  SessionTypeOK'
BY DEF SessionTypeOK, Proceed

LEMMA NoSessionRequestType == NoSessionRequest \in SessionRequest
BY DEF SessionRequest

LEMMA MinimumType == ASSUME NEW s \in Int, NEW t \in Int PROVE Minimum(s, t) \in Int
BY DEF Minimum

LEMMA TtlTypes == RequestTtls \subseteq Int /\ SettingsMaxTtl \in Int
<1>1. RequestTtls \subseteq Nat \ {0} /\ SettingsMaxTtl \in Nat \ {0}
  BY SessionAssumption, Zenon
<1> QED BY <1>1

LEMMA SecondType == Second \in Nat \ {0}
BY SessionAssumption, Zenon

\* The whole seconds of a time lie less than a second before it.
LEMMA WholeBounds ==
  ASSUME NEW t \in Int
  PROVE  Whole(t) \in Int /\ Whole(t) <= t /\ t < Whole(t) + Second
BY SecondType DEF Whole

LEMMA EvidenceTypes ==
  Evidence \subseteq
    [agent : Agents, signer : Keys, nonce : Nonces, issuedAt : Int, complete : BOOLEAN]
BY SessionAssumption, Zenon

LEMMA SessionNextTypes ==
  ASSUME SessionTypeOK, now \in Nat, SessionNext,
         \A a \in Agents : agents[a].blueprint \in Blueprints,
         \A a \in Agents : agents[a].key \in Keys \cup {NoKey},
         \A b \in Blueprints : blueprints[b].ttl \in Int
  PROVE  SessionTypeOK'
<1>1. PICK w \in SessionWorkers :
        \/ \E a \in Agents, e \in Evidence, d \in Delegations \cup {NoDelegation}, t \in RequestTtls :
             BeginSession(w, a, [evidence |-> e, delegation |-> d, ttl |-> t])
        \/ \E s \in sessions : BeginRevoke(w, s)
        \/ AdvanceSession(w)
        \/ FailSession(w)
  BY DEF SessionNext
<1> DEFINE r == sessionRequests[w]
<1>2. r \in SessionRequest /\ nextId \in Nat /\ nonceSeen \subseteq Nonces
  BY DEF SessionTypeOK
<1>3. ASSUME NEW a \in Agents, NEW e \in Evidence, NEW d \in Delegations \cup {NoDelegation},
             NEW t \in RequestTtls,
             BeginSession(w, a, [evidence |-> e, delegation |-> d, ttl |-> t])
      PROVE  SessionTypeOK'
  <2>1. agents[a].key \in Keys
    BY <1>3 DEF BeginSession, MayOpenSession
  <2>2. [kind |-> "load", agent |-> a, key |-> agents[a].key,
         ask |-> [evidence |-> e, delegation |-> d, ttl |-> t]] \in SessionRequest
    BY <2>1 DEF SessionRequest, Ask
  <2> QED BY <1>2, <1>3, <2>2, ProceedTypes DEF BeginSession
<1>4. ASSUME NEW s \in sessions, BeginRevoke(w, s)
      PROVE  SessionTypeOK'
  <2>1. [kind |-> "revoke", id |-> s.id] \in SessionRequest
    BY DEF SessionRequest, SessionTypeOK, SessionRow
  <2> QED BY <1>2, <1>4, <2>1, ProceedTypes DEF BeginRevoke
<1>5. ASSUME VerifyAttestation(w)
      PROVE  SessionTypeOK'
  <2> DEFINE e == r.ask.evidence
             bp == blueprints[agents[r.agent].blueprint]
             q == [ kind |-> "attestation",
                    att |-> [nonce |-> e.nonce, agent |-> r.agent,
                             issuedAt |-> e.issuedAt, verifiedAt |-> now],
                    ttl |-> SessionTtl(r.ask.ttl, bp.ttl), delegation |-> r.ask.delegation ]
  <2>1. r.agent \in Agents /\ r.ask \in Ask
    BY <1>2, <1>5 DEF VerifyAttestation, SessionRequest, NoSessionRequest
  <2>2. /\ e \in [agent : Agents, signer : Keys, nonce : Nonces, issuedAt : Int, complete : BOOLEAN]
        /\ r.ask.ttl \in Int /\ r.ask.delegation \in Delegations \cup {NoDelegation}
    <3>1. /\ e \in Evidence /\ r.ask.ttl \in RequestTtls
          /\ r.ask.delegation \in Delegations \cup {NoDelegation}
      BY <2>1 DEF Ask
    <3> QED BY <3>1, TtlTypes, EvidenceTypes, Zenon
  <2>3. bp.ttl \in Int
    BY <2>1
  <2>4. SessionTtl(r.ask.ttl, bp.ttl) \in Int
    <3>1. Minimum(r.ask.ttl, SettingsMaxTtl) \in Int
      BY <2>2, TtlTypes, MinimumType
    <3>2. Minimum(Minimum(r.ask.ttl, SettingsMaxTtl), bp.ttl) \in Int
      BY <2>3, <3>1, MinimumType
    <3> QED BY <3>2 DEF SessionTtl
  <2>5. [nonce |-> e.nonce, agent |-> r.agent, issuedAt |-> e.issuedAt, verifiedAt |-> now]
          \in Attestation
    BY <2>1, <2>2 DEF Attestation
  <2>6. q \in SessionRequest
    BY <2>2, <2>4, <2>5 DEF SessionRequest
  <2>7. nonceSeen' \subseteq Nonces
    BY <1>2, <1>5, <2>2 DEF VerifyAttestation
  <2> HIDE DEF q
  <2>8. Proceed(w, q) \/ Proceed(w, NoSessionRequest)
    BY <1>5 DEF VerifyAttestation, q
  <2> QED BY <1>2, <1>5, <2>6, <2>7, <2>8, ProceedTypes, NoSessionRequestType DEF VerifyAttestation
<1>6. ASSUME FlushAttestation(w)
      PROVE  SessionTypeOK'
  <2>1. [r EXCEPT !.kind = "delegation"] \in SessionRequest
    BY <1>2, <1>6 DEF FlushAttestation, SessionRequest, NoSessionRequest
  <2> QED BY <1>2, <1>6, <2>1, ProceedTypes, NoSessionRequestType DEF FlushAttestation
<1>7. ASSUME FlushSession(w)
      PROVE  SessionTypeOK'
  <2> DEFINE row == [ id |-> nextId, agent |-> r.att.agent, delegation |-> r.delegation,
                      nonce |-> r.att.nonce, issued |-> now, expires |-> now + r.ttl * Second,
                      revoked |-> FALSE ]
             q == [kind |-> "respond", att |-> r.att, row |-> row]
  <2>1. /\ r.att \in Attestation /\ r.ttl \in Int
        /\ r.delegation \in Delegations \cup {NoDelegation}
    BY <1>2, <1>7 DEF FlushSession, SessionRequest, NoSessionRequest
  <2>2. now + r.ttl * Second \in Int /\ r.att.agent \in Agents /\ r.att.nonce \in Nonces
    BY <2>1, SecondType DEF Attestation
  <2>3. row \in SessionRow
    BY <1>2, <2>1, <2>2 DEF SessionRow
  <2>4. q \in SessionRequest
    BY <2>1, <2>3 DEF SessionRequest
  <2> HIDE DEF row
  <2>5. nextId' \in Nat
    BY <1>2, <1>7 DEF FlushSession
  <2>6. Proceed(w, q) \/ Proceed(w, NoSessionRequest)
    BY <1>7 DEF FlushSession, row
  <2> QED BY <1>2, <1>7, <2>4, <2>5, <2>6, ProceedTypes, NoSessionRequestType DEF FlushSession
<1>8. ASSUME Respond(w)
      PROVE  SessionTypeOK'
  <2>1. r.row \in SessionRow /\ [r EXCEPT !.kind = "commit"] \in SessionRequest
    BY <1>2, <1>8 DEF Respond, SessionRequest, NoSessionRequest
  <2>2. TokenOf(r.row) \in Token
    BY <2>1, WholeBounds DEF SessionRow, Token, TokenOf
  <2> QED BY <1>8, <2>1, <2>2 DEF Respond, Proceed, SessionTypeOK
<1>9. ASSUME CommitSession(w)
      PROVE  SessionTypeOK'
  <2>1. r.row \in SessionRow /\ r.att \in Attestation
    BY <1>2, <1>9 DEF CommitSession, SessionRequest, NoSessionRequest
  <2> QED BY <1>9, <2>1, NoSessionRequestType DEF CommitSession, Proceed, SessionTypeOK
<1>10. ASSUME CommitRevoke(w)
       PROVE  SessionTypeOK'
  <2>1. \A s \in SessionRow : Revoked(s) \in SessionRow
    BY DEF SessionRow, Revoked
  <2> QED BY <1>10, <2>1, NoSessionRequestType DEF CommitRevoke, Proceed, SessionTypeOK
<1>11. ASSUME FailSession(w)
       PROVE  SessionTypeOK'
  BY <1>2, <1>11, ProceedTypes, NoSessionRequestType DEF FailSession
<1> QED
  BY <1>1, <1>3, <1>4, <1>5, <1>6, <1>7, <1>8, <1>9, <1>10, <1>11 DEF AdvanceSession

-----------------------------------------------------------------------------
ApiTypes ==
  AgentTypes /\ BlueprintTypes /\ DelegationApi!DelegationTypeOK /\ SessionTypeOK /\ now \in Nat

LEMMA AgentsRest ==
  ASSUME AgentTypes, UNCHANGED <<agents, agentRequests>>
  PROVE  AgentTypes'
BY DEF AgentTypes, Registry!TypeOK

LEMMA BlueprintsRest ==
  ASSUME BlueprintTypes, UNCHANGED <<blueprints, blueprintRequests>>
  PROVE  BlueprintTypes'
BY DEF BlueprintTypes, BlueprintFacts!BlueprintInv, BlueprintFacts!BlueprintTypeOK,
       BlueprintFacts!SlugUnique, BlueprintFacts!TtlStored, BlueprintFacts!BlueprintExists,
       BlueprintFacts!EditOK

LEMMA DelegationsRest ==
  ASSUME DelegationApi!DelegationTypeOK, UNCHANGED <<delegations, delegationRequests>>
  PROVE  DelegationApi!DelegationTypeOK'
BY DEF DelegationApi!DelegationTypeOK

LEMMA SessionsRest == ASSUME SessionTypeOK, UNCHANGED sessionVars PROVE SessionTypeOK'
BY DEF SessionTypeOK, sessionVars

LEMMA RestartTypes == ApiTypes /\ Restart => ApiTypes'
<1> SUFFICES ASSUME ApiTypes, Restart
             PROVE  ApiTypes'
  OBVIOUS
<1> USE DEF ApiTypes, Restart, tableVars
<1>1. AgentTypes'
  BY DEF AgentTypes, Registry!TypeOK, Registry!Request, Registry!Idle
<1>2. BlueprintTypes'
  BY BlueprintRestart
<1>3. DelegationApi!DelegationTypeOK'
  BY DEF DelegationApi!DelegationTypeOK, DelegationApi!Revocation
<1>4. SessionTypeOK'
  BY NoSessionRequestType DEF SessionTypeOK
<1> QED BY <1>1, <1>2, <1>3, <1>4

LEMMA ApiTypesStep == ApiTypes /\ [ApiNext]_apiVars => ApiTypes'
<1> SUFFICES ASSUME ApiTypes, [ApiNext]_apiVars
             PROVE  ApiTypes'
  OBVIOUS
<1>1. AgentTypes /\ BlueprintTypes /\ DelegationApi!DelegationTypeOK /\ SessionTypeOK /\ now \in Nat
  BY DEF ApiTypes
<1>2. ASSUME NEW w \in AdminWorkers, Administer(w)
      PROVE  ApiTypes'
  BY <1>1, <1>2, AgentHandleTypes, BlueprintsRest, DelegationsRest, SessionsRest
  DEF Administer, ApiTypes
<1>3. CASE ManageBlueprints
  BY <1>1, <1>3, BlueprintNextTypes, AgentsRest, DelegationsRest, SessionsRest
  DEF ManageBlueprints, ApiTypes
<1>4. CASE ManageDelegations
  BY <1>1, <1>4, DelegationTypes, AgentsRest, BlueprintsRest, SessionsRest
  DEF ManageDelegations, ApiTypes
<1>5. CASE ServeSessions
  <2>1. \A a \in Agents : agents[a].blueprint \in Blueprints /\ agents[a].key \in Keys \cup {NoKey}
    BY <1>1 DEF AgentTypes, Registry!TypeOK, Registry!AgentRow
  <2>2. \A b \in Blueprints : blueprints[b].ttl \in Int
    BY <1>1, ApiAssumption DEF BlueprintTypes, BlueprintFacts!BlueprintInv, BlueprintFacts!TtlStored
  <2>3. SessionTypeOK'
    BY <1>1, <1>5, <2>1, <2>2, SessionNextTypes DEF ServeSessions
  <2> QED
    BY <1>1, <1>5, <2>3, AgentsRest, BlueprintsRest, DelegationsRest DEF ServeSessions, ApiTypes
<1>6. CASE Tick
  <2>1. now' \in Nat
    BY <1>1, <1>6 DEF Tick
  <2> QED
    BY <1>1, <1>6, <2>1, AgentsRest, BlueprintsRest, DelegationsRest, SessionsRest
    DEF Tick, ApiTypes, tableVars, requestVars, sessionVars
<1>7. CASE Restart
  BY <1>7, RestartTypes
<1>8. CASE UNCHANGED apiVars
  BY <1>1, <1>8, AgentsRest, BlueprintsRest, DelegationsRest, SessionsRest
  DEF ApiTypes, apiVars, tableVars, requestVars, sessionVars
<1> QED BY <1>2, <1>3, <1>4, <1>5, <1>6, <1>7, <1>8 DEF ApiNext

LEMMA ApiTypesStart == ApiInit => ApiTypes
<1> SUFFICES ASSUME ApiInit
             PROVE  ApiTypes
  OBVIOUS
<1>1. BlueprintTypes
  <2>1. PICK slug \in [Blueprints -> Slugs], ttl \in [Blueprints -> CreateTtls] :
          /\ \A b, c \in Blueprints : slug[b] = slug[c] => b = c
          /\ blueprints = [b \in Blueprints |->
               [status |-> "active", slug |-> slug[b], version |-> 1, ttl |-> ttl[b]]]
    BY DEF ApiInit
  <2>2. ASSUME NEW b \in Blueprints
        PROVE  /\ blueprints[b] \in BlueprintFacts!BlueprintRow
               /\ blueprints[b].status = "active" /\ blueprints[b].slug = slug[b]
               /\ blueprints[b].ttl \in UpdateTtls
    <3>1. slug[b] \in Slugs /\ ttl[b] \in UpdateTtls
      BY ApiAssumption
    <3> QED
      BY <2>1, <3>1, ApiAssumption
      DEF BlueprintFacts!BlueprintRow, BlueprintFacts!BlueprintStatus
  <2>3. \A b, c \in Blueprints : blueprints[b].slug = blueprints[c].slug => b = c
    <3>1. \A b, c \in Blueprints : slug[b] = slug[c] => b = c
      BY <2>1
    <3> QED BY <2>2, <3>1
  <2>4. blueprints \in [Blueprints -> BlueprintFacts!BlueprintRow]
    BY <2>1, <2>2
  <2>5. /\ blueprintRequests = [w \in BlueprintWorkers |-> BlueprintFacts!NoRequest]
        /\ BlueprintFacts!NoRequest \in BlueprintFacts!BlueprintRequest
        /\ BlueprintFacts!NoRequest.kind = "idle"
    BY DEF ApiInit, BlueprintApi!NoRequest, BlueprintFacts!NoRequest,
           BlueprintFacts!BlueprintRequest
  <2> QED
    BY <2>2, <2>3, <2>4, <2>5
    DEF BlueprintTypes, BlueprintFacts!BlueprintInv, BlueprintFacts!BlueprintTypeOK,
        BlueprintFacts!SlugUnique, BlueprintFacts!TtlStored, BlueprintFacts!BlueprintExists,
        BlueprintFacts!EditOK
<1>2. AgentTypes
  BY Provisioned
  DEF ApiInit, AgentTypes, Registry!TypeOK, Registry!Request, Registry!Idle
<1>3. DelegationApi!DelegationTypeOK
  BY DEF ApiInit, DelegationApi!DelegationInit, DelegationApi!DelegationTypeOK,
         DelegationApi!NoGrant, DelegationApi!Grant, DelegationApi!Revocation
<1>4. SessionTypeOK
  BY NoSessionRequestType DEF ApiInit, SessionInit, SessionTypeOK
<1> QED BY <1>1, <1>2, <1>3, <1>4 DEF ApiInit, ApiTypes

\* The rows of every table and every request in flight are well formed.
THEOREM ApiTypesHold == ApiSpec => []ApiTypeOK
<1>1. ApiTypes => ApiTypeOK
  BY SameBlueprintRegistry
  DEF ApiTypes, ApiTypeOK, AgentTypes, BlueprintTypes, BlueprintFacts!BlueprintInv
<1> QED BY <1>1, ApiTypesStart, ApiTypesStep, PTL DEF ApiSpec

\* For as long as a token and its session both exist, they name one agent, and the
\* token ends with the session, less than a second early.
THEOREM TokensMatch == ApiSpec => []TokenMatchesSession
<1>1. SessionInv /\ SessionTypeOK => TokenMatchesSession
  <2> SUFFICES ASSUME SessionInv, SessionTypeOK, NEW t \in tokens, NEW s \in sessions,
                      t.id = s.id
               PROVE  /\ t.agent = s.agent
                      /\ t.expires <= s.expires /\ s.expires < t.expires + Second
    BY DEF TokenMatchesSession
  <2>1. t.agent = s.agent /\ t.expires = Whole(s.expires)
    BY DEF SessionInv, StoredOK, Agree
  <2>2. s.expires \in Int
    BY DEF SessionTypeOK, SessionRow
  <2> QED BY <2>1, <2>2, WholeBounds
<1>2. ApiTypes => SessionTypeOK
  BY DEF ApiTypes
<1> QED
  BY <1>1, <1>2, ApiStart, ApiSessions, ApiTypesStart, ApiTypesStep, PTL DEF ApiSpec

-----------------------------------------------------------------------------
(* Dead grants and deactivated blueprints: where a request was a step before *)
(* tells which check it has passed, and when.                                *)

\* Where a request that has been verified, or built its row, was a step before.
CameFrom(q, r) ==
  /\ q.kind \in Verified =>
       \/ r.kind \in Verified /\ q.att = r.att
       \/ /\ r.kind = "load" /\ q.att.agent = r.agent
          /\ MayOpenUnder(blueprints[agents[r.agent].blueprint])
  /\ q.kind \in Built =>
       \/ r.kind \in Built /\ q.row = r.row
       \/ /\ r.kind = "delegation" /\ q.row.delegation = r.delegation
          /\ Usable(r.delegation, r.att.agent)

LEMMA RequestOrigin ==
  ASSUME SessionInv, SessionNext, NEW v \in SessionWorkers
  PROVE  CameFrom(sessionRequests'[v], sessionRequests[v])
<1>1. PICK w \in SessionWorkers :
        \/ \E a \in Agents, e \in Evidence, d \in Delegations \cup {NoDelegation}, t \in RequestTtls :
             BeginSession(w, a, [evidence |-> e, delegation |-> d, ttl |-> t])
        \/ \E s \in sessions : BeginRevoke(w, s)
        \/ AdvanceSession(w)
        \/ FailSession(w)
  BY DEF SessionNext
<1> DEFINE r == sessionRequests[w]
<1>2. CameFrom(sessionRequests[v], sessionRequests[v])
  BY DEF CameFrom
<1>3. ASSUME NEW q, Proceed(w, q), CameFrom(q, r)
      PROVE  CameFrom(sessionRequests'[v], sessionRequests[v])
  BY <1>2, <1>3 DEF Proceed, SessionInv
<1>4. RequestOK(r)
  BY DEF SessionInv
<1>5. CameFrom(NoSessionRequest, r)
  BY DEF CameFrom, NoSessionRequest, Verified, Built
<1>6. ASSUME NEW a, NEW ask, BeginSession(w, a, ask)
      PROVE  CameFrom(sessionRequests'[v], sessionRequests[v])
  <2>1. CameFrom([kind |-> "load", agent |-> a, key |-> agents[a].key, ask |-> ask], r)
    BY DEF CameFrom, Verified, Built
  <2> QED BY <1>3, <1>6, <2>1 DEF BeginSession
<1>7. ASSUME NEW s, BeginRevoke(w, s)
      PROVE  CameFrom(sessionRequests'[v], sessionRequests[v])
  <2>1. CameFrom([kind |-> "revoke", id |-> s.id], r)
    BY DEF CameFrom, Verified, Built
  <2> QED BY <1>3, <1>7, <2>1 DEF BeginRevoke
<1>8. ASSUME FailSession(w) \/ CommitSession(w) \/ CommitRevoke(w)
      PROVE  CameFrom(sessionRequests'[v], sessionRequests[v])
  BY <1>3, <1>5, <1>8 DEF FailSession, CommitSession, CommitRevoke
<1>9. ASSUME VerifyAttestation(w)
      PROVE  CameFrom(sessionRequests'[v], sessionRequests[v])
  <2> DEFINE e == r.ask.evidence
             bp == blueprints[agents[r.agent].blueprint]
             q == [ kind |-> "attestation",
                    att |-> [nonce |-> e.nonce, agent |-> r.agent,
                             issuedAt |-> e.issuedAt, verifiedAt |-> now],
                    ttl |-> SessionTtl(r.ask.ttl, bp.ttl), delegation |-> r.ask.delegation ]
  <2>1. r.kind = "load" /\ MayOpenUnder(bp) => CameFrom(q, r)
    BY DEF CameFrom, Verified, Built
  <2>2. \/ MayOpenUnder(bp) /\ Proceed(w, q)
        \/ Proceed(w, NoSessionRequest)
    BY <1>9 DEF VerifyAttestation
  <2> HIDE DEF q
  <2> QED BY <1>3, <1>5, <1>9, <2>1, <2>2 DEF VerifyAttestation
<1>10. ASSUME FlushAttestation(w)
       PROVE  CameFrom(sessionRequests'[v], sessionRequests[v])
  <2>1. CameFrom([r EXCEPT !.kind = "delegation"], r)
    BY <1>4, <1>10 DEF FlushAttestation, RequestOK, IsRequest, CameFrom, Verified, Built
  <2> QED BY <1>3, <1>5, <1>10, <2>1 DEF FlushAttestation
<1>11. ASSUME FlushSession(w)
       PROVE  CameFrom(sessionRequests'[v], sessionRequests[v])
  <2> DEFINE q == [ kind |-> "respond", att |-> r.att,
                    row |-> [ id |-> nextId, agent |-> r.att.agent,
                              delegation |-> r.delegation, nonce |-> r.att.nonce,
                              issued |-> now, expires |-> now + r.ttl * Second, revoked |-> FALSE ] ]
  <2>1. r.kind = "delegation" /\ Usable(r.delegation, r.att.agent) => CameFrom(q, r)
    BY DEF CameFrom, Verified, Built
  <2>2. \/ Usable(r.delegation, r.att.agent) /\ Proceed(w, q)
        \/ Proceed(w, NoSessionRequest)
    BY <1>11 DEF FlushSession
  <2> HIDE DEF q
  <2> QED BY <1>3, <1>5, <1>11, <2>1, <2>2 DEF FlushSession
<1>12. ASSUME Respond(w)
       PROVE  CameFrom(sessionRequests'[v], sessionRequests[v])
  <2>1. CameFrom([r EXCEPT !.kind = "commit"], r)
    BY <1>4, <1>12 DEF Respond, RequestOK, IsRequest, CameFrom, Verified, Built
  <2> QED BY <1>3, <1>12, <2>1 DEF Respond
<1> QED
  BY <1>1, <1>6, <1>7, <1>8, <1>9, <1>10, <1>11, <1>12 DEF AdvanceSession

\* A session that a step opens was the row of a request at its commit.
LEMMA OpenedByCommit ==
  ASSUME SessionInv, SessionNext, NEW s \in sessions', Opened(s)
  PROVE  \E w \in SessionWorkers : sessionRequests[w].kind = "commit" /\ s = sessionRequests[w].row
<1>1. sessions' # sessions
  BY DEF Opened
<1>2. PICK w \in SessionWorkers : CommitSession(w) \/ CommitRevoke(w)
  BY <1>1
  DEF SessionNext, AdvanceSession, BeginSession, BeginRevoke, FailSession, VerifyAttestation,
      FlushAttestation, FlushSession, Respond
<1>3. ~CommitRevoke(w)
  <2>1. CommitRevoke(w) => \E t \in sessions : SameRow(s, t)
    BY RevokeKeepsRows
  <2> QED BY <2>1 DEF SameRow, Opened
<1> QED BY <1>2, <1>3 DEF CommitSession, Opened

\* Outside the session service no request is served and no session opens.
LEMMA OnlyServiceOpens ==
  ASSUME SessionInv, [ApiNext]_apiVars
  PROVE  \/ SessionNext /\ UNCHANGED <<agents, blueprints, delegations, now>>
         \/ /\ sessions' = sessions
            /\ \A w \in SessionWorkers :
                 sessionRequests'[w] = sessionRequests[w] \/ sessionRequests'[w] = NoSessionRequest
BY DEF ApiNext, Administer, ManageBlueprints, ManageDelegations, ServeSessions, Tick, Restart,
       apiVars, tableVars, requestVars, sessionVars

LEMMA ShutGrantStep ==
  ASSUME SessionInv, ApiTypes, [ApiNext]_apiVars, NEW d \in Delegations,
         delegations[d].revoked \/ delegations[d].expires < now,
         \A w \in SessionWorkers : ~PastCheckOf(w, d)
  PROVE  /\ \A w \in SessionWorkers : ~PastCheckOf(w, d)'
         /\ \A s \in sessions' : Opened(s) => s.delegation # d
<1>1. CASE SessionNext
  <2>1. now \in Int /\ delegations[d].expires \in Int
    BY DEF SessionInv, ApiTypes, DelegationApi!DelegationTypeOK, DelegationApi!Grant
  <2>2. \A a : ~Usable(d, a)
    BY <2>1, SessionAssumption DEF Usable
  <2>3. \A w \in SessionWorkers : ~PastCheckOf(w, d)'
    BY <1>1, <2>2, RequestOrigin DEF CameFrom, PastCheckOf, Built
  <2>4. \A s \in sessions' : Opened(s) => s.delegation # d
    BY <1>1, OpenedByCommit DEF PastCheckOf
  <2> QED BY <2>3, <2>4
<1>2. CASE /\ sessions' = sessions
           /\ \A w \in SessionWorkers :
                sessionRequests'[w] = sessionRequests[w] \/ sessionRequests'[w] = NoSessionRequest
  BY <1>2 DEF PastCheckOf, Opened, NoSessionRequest
<1> QED BY <1>1, <1>2, OnlyServiceOpens

\* A revoked or expired grant backs no session that had not passed its check.
THEOREM ShutGrantsBackNothing == ApiSpec => ShutGrantBacksNothing
<1>1. SessionInv /\ ApiTypes /\ [ApiNext]_apiVars =>
        [\A d \in Delegations :
           /\ DelegationApi!Granted(d)
           /\ delegations[d].revoked \/ delegations[d].expires < now
           /\ \A w \in SessionWorkers : ~PastCheckOf(w, d)
           => /\ \A w \in SessionWorkers : ~PastCheckOf(w, d)'
              /\ \A s \in sessions' : Opened(s) => s.delegation # d]_apiVars
  BY ShutGrantStep
<1> QED
  BY <1>1, ApiStart, ApiSessions, ApiTypesStart, ApiTypesStep, PTL
  DEF ApiSpec, ShutGrantBacksNothing

LEMMA ShutBlueprintStep ==
  ASSUME SessionInv, ApiTypes, [ApiNext]_apiVars, NEW b \in Blueprints, BlueprintShut(b)
  PROVE  /\ \A w \in SessionWorkers, a \in Agents :
              agents[a].blueprint = b /\ InFlightFor(w, a)' => sessionRequests'[w].kind = "load"
         /\ \A s \in sessions' : Opened(s) => agents[s.agent].blueprint # b
<1>1. CASE SessionNext
  <2>1. ASSUME NEW w \in SessionWorkers, NEW a \in Agents, agents[a].blueprint = b,
               InFlightFor(w, a)'
        PROVE  sessionRequests'[w].kind = "load"
    <3> SUFFICES ASSUME sessionRequests'[w].kind # "load"
                 PROVE  FALSE
      OBVIOUS
    <3>1. sessionRequests'[w].kind \in Verified /\ sessionRequests'[w].att.agent = a
      BY <2>1 DEF InFlightFor, Verified
    <3>2. \/ sessionRequests[w].kind \in Verified /\ sessionRequests[w].att.agent = a
          \/ MayOpenUnder(blueprints[b])
      BY <1>1, <2>1, <3>1, RequestOrigin DEF CameFrom
    <3>3. ~MayOpenUnder(blueprints[b])
      BY DEF BlueprintShut, MayOpenUnder
    <3>4. sessionRequests[w].kind \in Verified /\ sessionRequests[w].att.agent = a
      BY <3>2, <3>3
    <3>5. InFlightFor(w, a) /\ sessionRequests[w].kind # "load"
      BY <3>4 DEF InFlightFor, Verified
    <3> QED BY <2>1, <3>5 DEF BlueprintShut
  <2>2. ASSUME NEW s \in sessions', Opened(s)
        PROVE  agents[s.agent].blueprint # b
    <3>1. PICK w \in SessionWorkers : sessionRequests[w].kind = "commit" /\ s = sessionRequests[w].row
      BY <1>1, <2>2, OpenedByCommit
    <3>2. s.agent = sessionRequests[w].att.agent
      BY <3>1 DEF SessionInv, RequestOK, RowOK, Built
    <3>3. s.agent \in Agents
      <4>1. s \in SessionRow
        BY <3>1 DEF ApiTypes, SessionTypeOK, SessionRequest, NoSessionRequest
      <4> QED BY <4>1 DEF SessionRow
    <3>4. InFlightFor(w, s.agent)
      BY <3>1, <3>2 DEF InFlightFor
    <3> QED BY <3>1, <3>3, <3>4 DEF BlueprintShut
  <2> QED BY <2>1, <2>2
<1>2. CASE /\ sessions' = sessions
           /\ \A w \in SessionWorkers :
                sessionRequests'[w] = sessionRequests[w] \/ sessionRequests'[w] = NoSessionRequest
  BY <1>2 DEF BlueprintShut, InFlightFor, Opened, NoSessionRequest
<1> QED BY <1>1, <1>2, OnlyServiceOpens

\* Once a deactivation has drained, no agent of the blueprint opens a session.
THEOREM ShutBlueprintsOpenNothing == ApiSpec => ShutBlueprintOpensNothing
<1>1. SessionInv /\ ApiTypes /\ [ApiNext]_apiVars =>
        [\A b \in Blueprints : BlueprintShut(b) =>
           /\ \A w \in SessionWorkers, a \in Agents :
                agents[a].blueprint = b /\ InFlightFor(w, a)' => sessionRequests'[w].kind = "load"
           /\ \A s \in sessions' : Opened(s) => agents[s.agent].blueprint # b]_apiVars
  BY ShutBlueprintStep
<1> QED
  BY <1>1, ApiStart, ApiSessions, ApiTypesStart, ApiTypesStep, PTL
  DEF ApiSpec, ShutBlueprintOpensNothing

-----------------------------------------------------------------------------
(* A stored TTL of zero or less. *)

\* A request that carries a positive lifetime did a step before, or has read a positive
\* TTL of its agent's blueprint since.
LifeFrom(q, r) ==
  q.kind \in Verified /\ Lives(q) =>
    \/ r.kind \in Verified /\ q.att = r.att /\ Lives(r)
    \/ /\ r.kind = "load" /\ q.att.agent = r.agent
       /\ blueprints[agents[r.agent].blueprint].ttl > 0

LEMMA LifeOrigin ==
  ASSUME SessionInv, ApiTypes, SessionNext, NEW v \in SessionWorkers
  PROVE  LifeFrom(sessionRequests'[v], sessionRequests[v])
<1>1. PICK w \in SessionWorkers :
        \/ \E a \in Agents, e \in Evidence, d \in Delegations \cup {NoDelegation}, t \in RequestTtls :
             BeginSession(w, a, [evidence |-> e, delegation |-> d, ttl |-> t])
        \/ \E s \in sessions : BeginRevoke(w, s)
        \/ AdvanceSession(w)
        \/ FailSession(w)
  BY DEF SessionNext
<1> DEFINE r == sessionRequests[w]
<1>2. LifeFrom(sessionRequests[v], sessionRequests[v])
  BY DEF LifeFrom
<1>3. ASSUME NEW q, Proceed(w, q), LifeFrom(q, r)
      PROVE  LifeFrom(sessionRequests'[v], sessionRequests[v])
  BY <1>2, <1>3 DEF Proceed, SessionInv
<1>4. RequestOK(r) /\ r \in SessionRequest /\ now \in Int
  BY DEF SessionInv, ApiTypes, SessionTypeOK
<1>5. LifeFrom(NoSessionRequest, r)
  BY DEF LifeFrom, NoSessionRequest, Verified
<1>6. ASSUME NEW a, NEW ask, BeginSession(w, a, ask)
      PROVE  LifeFrom(sessionRequests'[v], sessionRequests[v])
  <2>1. LifeFrom([kind |-> "load", agent |-> a, key |-> agents[a].key, ask |-> ask], r)
    BY DEF LifeFrom, Verified
  <2> QED BY <1>3, <1>6, <2>1 DEF BeginSession
<1>7. ASSUME NEW s, BeginRevoke(w, s)
      PROVE  LifeFrom(sessionRequests'[v], sessionRequests[v])
  <2>1. LifeFrom([kind |-> "revoke", id |-> s.id], r)
    BY DEF LifeFrom, Verified
  <2> QED BY <1>3, <1>7, <2>1 DEF BeginRevoke
<1>8. ASSUME FailSession(w) \/ CommitSession(w) \/ CommitRevoke(w)
      PROVE  LifeFrom(sessionRequests'[v], sessionRequests[v])
  BY <1>3, <1>5, <1>8 DEF FailSession, CommitSession, CommitRevoke
<1>9. ASSUME VerifyAttestation(w)
      PROVE  LifeFrom(sessionRequests'[v], sessionRequests[v])
  <2> DEFINE e == r.ask.evidence
             bp == blueprints[agents[r.agent].blueprint]
             life == SessionTtl(r.ask.ttl, bp.ttl)
             q == [ kind |-> "attestation",
                    att |-> [nonce |-> e.nonce, agent |-> r.agent,
                             issuedAt |-> e.issuedAt, verifiedAt |-> now],
                    ttl |-> life, delegation |-> r.ask.delegation ]
  <2>1. r.kind = "load" /\ r.agent \in Agents /\ r.ask \in Ask
    BY <1>4, <1>9 DEF VerifyAttestation, SessionRequest, NoSessionRequest
  <2>2. agents[r.agent].blueprint \in Blueprints
    BY <2>1 DEF ApiTypes, AgentTypes, Registry!TypeOK, Registry!AgentRow
  <2>3. bp.ttl \in Int
    BY <2>2, ApiAssumption
    DEF ApiTypes, BlueprintTypes, BlueprintFacts!BlueprintInv, BlueprintFacts!TtlStored
  <2>4. Minimum(r.ask.ttl, SettingsMaxTtl) \in Int
    BY <2>1, TtlTypes, MinimumType DEF Ask
  <2>5. life > 0 => bp.ttl > 0
    BY <2>3, <2>4 DEF SessionTtl, Minimum
  <2>6. LifeFrom(q, r)
    <3>1. q.kind = "attestation" /\ q.ttl = life /\ q.att.agent = r.agent
      OBVIOUS
    <3> HIDE DEF q, life
    <3> QED BY <2>1, <2>5, <3>1 DEF LifeFrom, Lives
  <2>7. Proceed(w, q) \/ Proceed(w, NoSessionRequest)
    BY <1>9 DEF VerifyAttestation
  <2> HIDE DEF q
  <2> QED BY <1>3, <1>5, <2>6, <2>7
<1>10. ASSUME FlushAttestation(w)
       PROVE  LifeFrom(sessionRequests'[v], sessionRequests[v])
  <2>1. LifeFrom([r EXCEPT !.kind = "delegation"], r)
    BY <1>4, <1>10 DEF FlushAttestation, RequestOK, IsRequest, LifeFrom, Lives, Verified
  <2> QED BY <1>3, <1>5, <1>10, <2>1 DEF FlushAttestation
<1>11. ASSUME FlushSession(w)
       PROVE  LifeFrom(sessionRequests'[v], sessionRequests[v])
  <2> DEFINE q == [ kind |-> "respond", att |-> r.att,
                    row |-> [ id |-> nextId, agent |-> r.att.agent,
                              delegation |-> r.delegation, nonce |-> r.att.nonce,
                              issued |-> now, expires |-> now + r.ttl * Second, revoked |-> FALSE ] ]
  <2>1. r.kind = "delegation" /\ r.ttl \in Int
    BY <1>4, <1>11 DEF FlushSession, SessionRequest, NoSessionRequest
  <2>2. now + r.ttl * Second > now => r.ttl > 0
    BY <1>4, <2>1, SecondType
  <2>3. LifeFrom(q, r)
    <3>1. /\ q.kind = "respond" /\ q.att = r.att
          /\ q.row.issued = now /\ q.row.expires = now + r.ttl * Second
      OBVIOUS
    <3> HIDE DEF q
    <3> QED BY <2>1, <2>2, <3>1 DEF LifeFrom, Lives, Verified
  <2>4. Proceed(w, q) \/ Proceed(w, NoSessionRequest)
    BY <1>11 DEF FlushSession
  <2> HIDE DEF q
  <2> QED BY <1>3, <1>5, <2>3, <2>4
<1>12. ASSUME Respond(w)
       PROVE  LifeFrom(sessionRequests'[v], sessionRequests[v])
  <2>1. LifeFrom([r EXCEPT !.kind = "commit"], r)
    BY <1>4, <1>12 DEF Respond, RequestOK, IsRequest, LifeFrom, Lives, Verified, Built
  <2> QED BY <1>3, <1>12, <2>1 DEF Respond
<1> QED
  BY <1>1, <1>6, <1>7, <1>8, <1>9, <1>10, <1>11, <1>12 DEF AdvanceSession

\* A token that a step hands out is that of a row built for its agent, by now.
LEMMA TokenByRespond ==
  ASSUME SessionInv, ApiTypes, [ApiNext]_apiVars, NEW t \in tokens' \ tokens
  PROVE  \E w \in SessionWorkers :
           LET r == sessionRequests[w]
           IN  /\ r.kind = "respond" /\ r.att.agent = t.agent /\ t.agent \in Agents
               /\ r.row.issued \in Int /\ r.row.expires \in Int
               /\ r.row.issued <= now
               /\ t.expires \in Int /\ t.expires <= r.row.expires
<1>1. PICK w \in SessionWorkers : Respond(w)
  BY DEF ApiNext, Administer, ManageBlueprints, ManageDelegations, ServeSessions, Tick, Restart,
         apiVars, tableVars, requestVars, sessionVars,
         SessionNext, AdvanceSession, BeginSession, BeginRevoke, FailSession,
         VerifyAttestation, FlushAttestation, FlushSession, CommitSession, CommitRevoke
<1> PICK r : r = sessionRequests[w]
  OBVIOUS
<1>2. r.kind = "respond" /\ t = TokenOf(r.row)
  BY <1>1 DEF Respond
<1>3. r.row.agent = r.att.agent /\ r.row.issued <= now
  BY <1>2 DEF SessionInv, RequestOK, RowOK, Built
<1>4. r.row \in SessionRow
  BY <1>2 DEF ApiTypes, SessionTypeOK, SessionRequest, NoSessionRequest
<1>5. r.row.agent \in Agents /\ r.row.issued \in Int /\ r.row.expires \in Int
  BY <1>4 DEF SessionRow
<1>6. t.agent = r.row.agent /\ t.expires = Whole(r.row.expires)
  BY <1>2 DEF TokenOf
<1> QED BY <1>2, <1>3, <1>5, <1>6, WholeBounds

\* A TTL that is not positive stays so while no PUT in flight would raise it.
LEMMA TtlStaysShut ==
  ASSUME ApiTypes, [ApiNext]_apiVars, NEW b \in Blueprints, TtlShut(b)
  PROVE  blueprints'[b].ttl <= 0
<1>1. CASE blueprints'[b] = blueprints[b]
  BY <1>1 DEF TtlShut
<1>2. CASE blueprints'[b] # blueprints[b]
  <2>1. BlueprintFacts!BlueprintInv /\ BlueprintFacts!Next /\ BlueprintFacts!BlueprintExists(b)
    BY <1>2, SameBlueprintRegistry
    DEF ApiTypes, BlueprintTypes, ApiNext, Administer, ManageBlueprints, ManageDelegations,
        ServeSessions, Tick, Restart, apiVars, tableVars
  <2>2. PICK w \in BlueprintWorkers :
          /\ BlueprintFacts!CommitBlueprint(w) /\ blueprintRequests[w].blueprint = b
          /\ blueprints'[b] = BlueprintFacts!Merge(blueprints[b], blueprintRequests[w].loaded,
                                                  blueprintRequests[w].edited)
    BY <1>2, <2>1, BlueprintFacts!RowChanges, BlueprintConstants, Zenon
  <2> DEFINE r == blueprintRequests[w]
  <2>3. blueprints'[b].ttl =
          BlueprintFacts!Written(blueprints[b].ttl, r.loaded.ttl, r.edited.ttl)
    BY <2>2 DEF BlueprintFacts!Merge
  <2>4. blueprints'[b].ttl # NullTtl
    <3>1. BlueprintFacts!Storable(blueprints'[b])
      BY <1>2, <2>2, Zenon DEF BlueprintFacts!CommitBlueprint
    <3> QED BY <3>1 DEF BlueprintFacts!Storable
  <2>5. r.kind = "put" \/ r.edited.ttl = r.loaded.ttl
    BY <2>1, <2>2
    DEF BlueprintFacts!BlueprintInv, BlueprintFacts!EditOK, BlueprintFacts!CommitBlueprint
  <2> QED BY <2>2, <2>3, <2>4, <2>5 DEF TtlShut, BlueprintFacts!Written
<1> QED BY <1>1, <1>2

LEMMA ZeroTtlStep ==
  ASSUME SessionInv, ApiTypes, [ApiNext]_apiVars, NEW b \in Blueprints, TtlShut(b),
         \A w \in SessionWorkers, a \in Agents :
           agents[a].blueprint = b /\ InFlightFor(w, a) => ~Lives(sessionRequests[w])
  PROVE  /\ blueprints'[b].ttl <= 0
         /\ \A w \in SessionWorkers, a \in Agents :
              agents[a].blueprint = b /\ InFlightFor(w, a)' => ~Lives(sessionRequests'[w])
         /\ \A t \in tokens' \ tokens : agents[t.agent].blueprint = b => t.expires <= now
<1>1. ASSUME NEW w \in SessionWorkers, NEW a \in Agents, agents[a].blueprint = b,
             InFlightFor(w, a)', Lives(sessionRequests'[w])
      PROVE  FALSE
  <2> DEFINE q == sessionRequests'[w]
             r == sessionRequests[w]
  <2>1. q.kind \in Verified /\ q.att.agent = a
    BY <1>1 DEF InFlightFor, Lives, Verified
  <2>2. CASE SessionNext
    <3>1. LifeFrom(q, r)
      BY <2>2, LifeOrigin
    <3>2. CASE r.kind \in Verified /\ q.att = r.att /\ Lives(r)
      BY <1>1, <2>1, <3>2 DEF InFlightFor, Verified
    <3>3. CASE /\ r.kind = "load" /\ q.att.agent = r.agent
               /\ blueprints[agents[r.agent].blueprint].ttl > 0
      <4>1. blueprints[b].ttl > 0 /\ blueprints[b].ttl <= 0
        BY <1>1, <2>1, <3>3 DEF TtlShut
      <4>2. blueprints[b].ttl \in Int
        BY ApiAssumption
        DEF ApiTypes, BlueprintTypes, BlueprintFacts!BlueprintInv, BlueprintFacts!TtlStored
      <4> QED BY <4>1, <4>2
    <3> QED BY <1>1, <2>1, <3>1, <3>2, <3>3 DEF LifeFrom
  <2>3. CASE q = r \/ q = NoSessionRequest
    BY <1>1, <2>1, <2>3 DEF InFlightFor, NoSessionRequest, Verified
  <2> QED BY <2>2, <2>3, OnlyServiceOpens
<1>2. ASSUME NEW t \in tokens' \ tokens, agents[t.agent].blueprint = b
      PROVE  t.expires <= now
  <2>1. PICK w \in SessionWorkers :
          LET r == sessionRequests[w]
          IN  /\ r.kind = "respond" /\ r.att.agent = t.agent /\ t.agent \in Agents
              /\ r.row.issued \in Int /\ r.row.expires \in Int
              /\ r.row.issued <= now
              /\ t.expires \in Int /\ t.expires <= r.row.expires
    BY TokenByRespond
  <2>2. InFlightFor(w, t.agent)
    BY <2>1 DEF InFlightFor
  <2>3. ~(sessionRequests[w].row.expires > sessionRequests[w].row.issued)
    BY <1>2, <2>1, <2>2 DEF Lives
  <2>4. now \in Int
    BY DEF SessionInv
  <2> QED BY <2>1, <2>3, <2>4
<1> QED BY <1>1, <1>2, TtlStaysShut

\* Under a stored TTL of zero or less no token is valid when it is handed out.
THEOREM ZeroTtlsOpenNoLife == ApiSpec => ZeroTtlOpensNoLife
<1>1. SessionInv /\ ApiTypes /\ [ApiNext]_apiVars =>
        [\A b \in Blueprints :
           /\ TtlShut(b)
           /\ \A w \in SessionWorkers, a \in Agents :
                agents[a].blueprint = b /\ InFlightFor(w, a) => ~Lives(sessionRequests[w])
           => /\ blueprints'[b].ttl <= 0
              /\ \A w \in SessionWorkers, a \in Agents :
                   agents[a].blueprint = b /\ InFlightFor(w, a)' => ~Lives(sessionRequests'[w])
              /\ \A t \in tokens' \ tokens :
                   agents[t.agent].blueprint = b => t.expires <= now]_apiVars
  BY ZeroTtlStep
<1> QED
  BY <1>1, ApiStart, ApiSessions, ApiTypesStart, ApiTypesStep, PTL
  DEF ApiSpec, ZeroTtlOpensNoLife

-----------------------------------------------------------------------------
(* Agents stay registered, and under one blueprint. *)

\* Every agent is registered, and no request in flight would move it to another
\* blueprint or unregister it.
BoundInv ==
  /\ AgentTypes
  /\ \A a \in Agents : Registry!Exists(a)
  /\ \A w \in AdminWorkers : agentRequests[w].kind = "update" =>
       /\ agentRequests[w].edited.blueprint = agentRequests[w].loaded.blueprint
       /\ agentRequests[w].edited.status # "absent"

\* An agent stays under the blueprint it was registered under.
Bound == \A a \in Agents : agents'[a].blueprint = agents[a].blueprint

LEMMA BoundHandle ==
  ASSUME BoundInv, NEW w \in AdminWorkers, Registry!Handle(w)
  PROVE  BoundInv' /\ Bound
<1>1. AgentTypes'
  BY AgentHandleTypes DEF BoundInv
<1> DEFINE Keeps == /\ \A a \in Agents : Registry!Exists(a)'
                    /\ \A v \in AdminWorkers : agentRequests'[v].kind = "update" =>
                         /\ agentRequests'[v].edited.blueprint = agentRequests'[v].loaded.blueprint
                         /\ agentRequests'[v].edited.status # "absent"
                    /\ Bound
<1>2. DOMAIN agentRequests = AdminWorkers /\ DOMAIN agents = Agents
  BY DEF BoundInv, AgentTypes, Registry!TypeOK
<1>3. ASSUME NEW r, agents' = agents, agentRequests' = [agentRequests EXCEPT ![w] = r],
             r.kind = "update" => r.edited.blueprint = r.loaded.blueprint /\ r.edited.status # "absent"
      PROVE  Keeps
  BY <1>2, <1>3 DEF BoundInv, Bound, Registry!Exists
<1>4. ASSUME NEW b, NEW k, Registry!CreateAgent(w, b, k)
      PROVE  Keeps
  BY <1>3, <1>4 DEF Registry!CreateAgent
<1>5. ASSUME NEW a \in Agents, NEW e,
             \/ e = [agents[a] EXCEPT !.status = "active", !.activated = TRUE]
             \/ e = [agents[a] EXCEPT !.status = "suspended", !.suspended = TRUE]
             \/ e = [agents[a] EXCEPT !.status = "revoked", !.revoked = TRUE]
             \/ \E k \in Keys : e = [agents[a] EXCEPT !.key = k],
             Registry!LoadAndEdit(w, a, e)
      PROVE  Keeps
  <2>1. agents[a] \in Registry!AgentRow /\ agents[a].status # "absent"
    BY DEF BoundInv, AgentTypes, Registry!TypeOK, Registry!Exists
  <2>2. e.blueprint = agents[a].blueprint /\ e.status # "absent"
    BY <1>5, <2>1 DEF Registry!AgentRow
  <2> QED BY <1>3, <1>5, <2>2 DEF Registry!LoadAndEdit
<1>6. ASSUME Registry!FailRequest(w)
      PROVE  Keeps
  BY <1>3, <1>6 DEF Registry!FailRequest, Registry!Idle
<1>7. ASSUME Registry!UpdateAgent(w)
      PROVE  Keeps
  <2> DEFINE r == agentRequests[w]
             row == Registry!Merge(agents[r.agent], r.loaded, r.edited)
  <2>1. /\ r.edited.blueprint = r.loaded.blueprint /\ r.edited.status # "absent"
        /\ r.agent \in Agents /\ agents[r.agent].status # "absent"
    BY <1>7
    DEF Registry!UpdateAgent, BoundInv, AgentTypes, Registry!TypeOK, Registry!Request,
        Registry!Idle, Registry!Exists
  <2>2. row.blueprint = agents[r.agent].blueprint /\ row.status # "absent"
    BY <2>1 DEF Registry!Merge, Registry!Written
  <2> HIDE DEF row
  <2>3. /\ agents' = [agents EXCEPT ![r.agent] = row]
        /\ agentRequests' = [agentRequests EXCEPT ![w] = Registry!Idle]
    BY <1>7 DEF Registry!UpdateAgent, row
  <2> QED BY <1>2, <2>1, <2>2, <2>3 DEF BoundInv, Bound, Registry!Exists, Registry!Idle
<1>8. ~Registry!InsertAgent(w)
  BY DEF Registry!InsertAgent, BoundInv
<1> HIDE DEF Keeps
<1>9. Keeps
  BY <1>4, <1>5, <1>6, <1>7, <1>8
  DEF Registry!Handle, Registry!Commit, Registry!ActivateAgent, Registry!SuspendAgent,
      Registry!RevokeAgent, Registry!RotateKey
<1> QED BY <1>1, <1>9 DEF BoundInv, Keeps

LEMMA ApiBound ==
  ASSUME BoundInv, ApiTypes, [ApiNext]_apiVars
  PROVE  BoundInv' /\ Bound
<1>1. AgentTypes'
  BY ApiTypesStep DEF ApiTypes
<1>2. ASSUME UNCHANGED <<agents, agentRequests>>
      PROVE  BoundInv' /\ Bound
  BY <1>1, <1>2 DEF BoundInv, Bound, Registry!Exists
<1>3. ASSUME Restart
      PROVE  BoundInv' /\ Bound
  BY <1>1, <1>3 DEF Restart, tableVars, BoundInv, Bound, Registry!Exists, Registry!Idle
<1> QED
  BY <1>2, <1>3, BoundHandle
  DEF ApiNext, Administer, ManageBlueprints, ManageDelegations, ServeSessions, Tick, apiVars,
      tableVars, requestVars

LEMMA BoundStart == ApiInit => BoundInv
<1> SUFFICES ASSUME ApiInit
             PROVE  BoundInv
  OBVIOUS
<1>1. \A a \in Agents : agents[a].status = "active"
  BY Provisioned
<1> QED
  BY <1>1, ApiTypesStart DEF ApiInit, ApiTypes, BoundInv, Registry!Exists, Registry!Idle

-----------------------------------------------------------------------------
(* Rotated keys. *)

\* Documents with one nonce bear one signature: a nonce is drawn anew for every
\* document, and kept by those who replay it.
NonceHasOneSigner == \A e, f \in Evidence : e.nonce = f.nonce => e.signer = f.signer

\* Request r works with key k of agent a.
WorksWith(r, a, k) ==
  \/ r.kind = "load" /\ r.agent = a /\ r.key = k
  \/ /\ r.kind \in Verified /\ r.att.agent = a
     /\ \E e \in Evidence : e.nonce = r.att.nonce /\ e.signer = k

LEMMA WorksIsVerifiedUnder ==
  ASSUME NEW w, NEW a, NEW k
  PROVE  /\ VerifiedUnder(w, a, k) <=> WorksWith(sessionRequests[w], a, k)
         /\ VerifiedUnder(w, a, k)' <=> WorksWith(sessionRequests'[w], a, k)
BY DEF VerifiedUnder, InFlightFor, WorksWith, Verified

\* A request that works with a key works with it already, or has just loaded it.
LEMMA KeyOrigin ==
  ASSUME NonceHasOneSigner, SessionInv, SessionNext, NEW v \in SessionWorkers, NEW a, NEW k,
         WorksWith(sessionRequests'[v], a, k)
  PROVE  WorksWith(sessionRequests[v], a, k) \/ agents[a].key = k
<1>1. PICK w \in SessionWorkers :
        \/ \E b \in Agents, e \in Evidence, d \in Delegations \cup {NoDelegation}, t \in RequestTtls :
             BeginSession(w, b, [evidence |-> e, delegation |-> d, ttl |-> t])
        \/ \E s \in sessions : BeginRevoke(w, s)
        \/ AdvanceSession(w)
        \/ FailSession(w)
  BY DEF SessionNext
<1> DEFINE r == sessionRequests[w]
           Comes == WorksWith(sessionRequests[v], a, k) \/ agents[a].key = k
<1>2. ASSUME NEW q, Proceed(w, q), WorksWith(q, a, k) => WorksWith(r, a, k) \/ agents[a].key = k
      PROVE  Comes
  BY <1>2 DEF Proceed, SessionInv
<1>3. RequestOK(r)
  BY DEF SessionInv
<1>4. ~WorksWith(NoSessionRequest, a, k)
  BY DEF WorksWith, NoSessionRequest, Verified
<1>5. ASSUME NEW b, NEW ask, BeginSession(w, b, ask)
      PROVE  Comes
  <2>1. WorksWith([kind |-> "load", agent |-> b, key |-> agents[b].key, ask |-> ask], a, k) =>
          agents[a].key = k
    BY DEF WorksWith, Verified
  <2> QED BY <1>2, <1>5, <2>1 DEF BeginSession
<1>6. ASSUME NEW s, BeginRevoke(w, s)
      PROVE  Comes
  <2>1. ~WorksWith([kind |-> "revoke", id |-> s.id], a, k)
    BY DEF WorksWith, Verified
  <2> QED BY <1>2, <1>6, <2>1 DEF BeginRevoke
<1>7. ASSUME FailSession(w) \/ CommitSession(w) \/ CommitRevoke(w)
      PROVE  Comes
  BY <1>2, <1>4, <1>7 DEF FailSession, CommitSession, CommitRevoke
<1>8. ASSUME VerifyAttestation(w)
      PROVE  Comes
  <2> DEFINE e == r.ask.evidence
             q == [ kind |-> "attestation",
                    att |-> [nonce |-> e.nonce, agent |-> r.agent,
                             issuedAt |-> e.issuedAt, verifiedAt |-> now],
                    ttl |-> SessionTtl(r.ask.ttl, blueprints[agents[r.agent].blueprint].ttl),
                    delegation |-> r.ask.delegation ]
  <2>1. r.kind = "load" /\ e \in Evidence
    BY <1>3, <1>8 DEF VerifyAttestation, RequestOK
  <2>2. e.signer = r.key /\ WorksWith(q, a, k) => WorksWith(r, a, k)
    BY <2>1 DEF NonceHasOneSigner, WorksWith, Verified
  <2>3. \/ e.signer = r.key /\ Proceed(w, q)
        \/ Proceed(w, NoSessionRequest)
    BY <1>8 DEF VerifyAttestation, Authentic
  <2> HIDE DEF q
  <2> QED BY <1>2, <1>4, <2>2, <2>3
<1>9. ASSUME FlushAttestation(w)
      PROVE  Comes
  <2>1. WorksWith([r EXCEPT !.kind = "delegation"], a, k) => WorksWith(r, a, k)
    BY <1>3, <1>9 DEF FlushAttestation, RequestOK, IsRequest, WorksWith, Verified
  <2> QED BY <1>2, <1>4, <1>9, <2>1 DEF FlushAttestation
<1>10. ASSUME FlushSession(w)
       PROVE  Comes
  <2> DEFINE q == [ kind |-> "respond", att |-> r.att,
                    row |-> [ id |-> nextId, agent |-> r.att.agent,
                              delegation |-> r.delegation, nonce |-> r.att.nonce,
                              issued |-> now, expires |-> now + r.ttl * Second, revoked |-> FALSE ] ]
  <2>1. r.kind = "delegation" /\ WorksWith(q, a, k) => WorksWith(r, a, k)
    BY DEF WorksWith, Verified
  <2>2. r.kind = "delegation" /\ (Proceed(w, q) \/ Proceed(w, NoSessionRequest))
    BY <1>10 DEF FlushSession
  <2> HIDE DEF q
  <2> QED BY <1>2, <1>4, <2>1, <2>2
<1>11. ASSUME Respond(w)
       PROVE  Comes
  <2>1. WorksWith([r EXCEPT !.kind = "commit"], a, k) => WorksWith(r, a, k)
    BY <1>3, <1>11 DEF Respond, RequestOK, IsRequest, Built, WorksWith, Verified
  <2> QED BY <1>2, <1>11, <2>1 DEF Respond
<1> QED
  BY <1>1, <1>5, <1>6, <1>7, <1>8, <1>9, <1>10, <1>11 DEF AdvanceSession

\* Only a rotation under way brings a key back.
LEMMA KeyStays ==
  ASSUME BoundInv, NEW w \in AdminWorkers, Registry!Handle(w), NEW a \in Agents, NEW k,
         agents[a].key # k, ~BringsBack(w, a, k)
  PROVE  agents'[a].key # k
<1>1. DOMAIN agentRequests = AdminWorkers /\ DOMAIN agents = Agents
  BY DEF BoundInv, AgentTypes, Registry!TypeOK
<1>2. ASSUME Registry!UpdateAgent(w)
      PROVE  agents'[a].key # k
  <2> DEFINE r == agentRequests[w]
             row == Registry!Merge(agents[r.agent], r.loaded, r.edited)
  <2>1. r.agent = a => row.key # k
    BY <1>2 DEF Registry!UpdateAgent, Registry!Merge, Registry!Written, BringsBack
  <2>2. agents' = [agents EXCEPT ![r.agent] = row]
    BY <1>2 DEF Registry!UpdateAgent
  <2> HIDE DEF row
  <2> QED BY <1>1, <2>1, <2>2
<1>3. ~Registry!InsertAgent(w)
  BY DEF Registry!InsertAgent, BoundInv
<1>4. Registry!UpdateAgent(w) \/ agents' = agents
  BY <1>3
  DEF Registry!Handle, Registry!Commit, Registry!CreateAgent, Registry!ActivateAgent,
      Registry!SuspendAgent, Registry!RevokeAgent, Registry!RotateKey, Registry!LoadAndEdit,
      Registry!FailRequest
<1> QED BY <1>2, <1>4

LEMMA RotatedKeyStep ==
  ASSUME NonceHasOneSigner, SessionInv, BoundInv, [ApiNext]_apiVars,
         NEW a \in Agents, NEW k \in Keys, KeyOut(a, k),
         \A w \in AdminWorkers : ~BringsBack(w, a, k)
  PROVE  /\ KeyOut(a, k)'
         /\ \A s \in sessions' : Opened(s) /\ s.agent = a =>
              \E e \in Evidence : e.nonce = s.nonce /\ e.agent = a /\ e.signer # k
<1>1. agents[a].key # k /\ \A w \in SessionWorkers : ~WorksWith(sessionRequests[w], a, k)
  BY WorksIsVerifiedUnder DEF KeyOut
<1>2. agents'[a].key # k
  <2>1. \A w \in AdminWorkers : Administer(w) => agents'[a].key # k
    BY <1>1, KeyStays DEF Administer
  <2>2. agents' = agents => agents'[a].key # k
    BY <1>1
  <2> QED
    BY <2>1, <2>2
    DEF ApiNext, ManageBlueprints, ManageDelegations, ServeSessions, Tick, Restart, apiVars,
        tableVars
<1>3. CASE SessionNext
  <2>1. \A w \in SessionWorkers : ~WorksWith(sessionRequests'[w], a, k)
    BY <1>1, <1>3, KeyOrigin
  <2>2. KeyOut(a, k)'
    BY <1>2, <2>1, WorksIsVerifiedUnder DEF KeyOut
  <2>3. ASSUME NEW s \in sessions', Opened(s), s.agent = a
        PROVE  \E e \in Evidence : e.nonce = s.nonce /\ e.agent = a /\ e.signer # k
    <3>1. PICK w \in SessionWorkers : sessionRequests[w].kind = "commit" /\ s = sessionRequests[w].row
      BY <1>3, <2>3, OpenedByCommit
    <3>2. /\ s.agent = sessionRequests[w].att.agent /\ s.nonce = sessionRequests[w].att.nonce
          /\ Documented(s.nonce, s.agent)
      BY <3>1 DEF SessionInv, RequestOK, RowOK, Built, Verified
    <3>3. \A e \in Evidence : e.nonce = s.nonce => e.signer # k
      BY <1>1, <2>3, <3>1, <3>2 DEF WorksWith, Verified
    <3> QED BY <2>3, <3>2, <3>3 DEF Documented
  <2> QED BY <2>2, <2>3
<1>4. CASE /\ sessions' = sessions
           /\ \A w \in SessionWorkers :
                sessionRequests'[w] = sessionRequests[w] \/ sessionRequests'[w] = NoSessionRequest
  <2>1. \A w \in SessionWorkers : ~WorksWith(sessionRequests'[w], a, k)
    BY <1>1, <1>4 DEF WorksWith, NoSessionRequest, Verified
  <2>2. KeyOut(a, k)'
    BY <1>2, <2>1, WorksIsVerifiedUnder DEF KeyOut
  <2> QED BY <1>4, <2>2 DEF Opened
<1> QED BY <1>3, <1>4, OnlyServiceOpens

\* A key that was rotated out opens no session, until another rotation brings it
\* back: for any number of requests, provided that a nonce tells its signer.
THEOREM RotatedKeysOpenNothing ==
  ASSUME NonceHasOneSigner
  PROVE  ApiSpec => RotatedKeyOpensNothing
<1>1. SessionInv /\ BoundInv /\ [ApiNext]_apiVars =>
        [\A a \in Agents, k \in Keys :
           KeyOut(a, k) /\ (\A w \in AdminWorkers : ~BringsBack(w, a, k)) =>
             /\ KeyOut(a, k)'
             /\ \A s \in sessions' : Opened(s) /\ s.agent = a =>
                  \E e \in Evidence : e.nonce = s.nonce /\ e.agent = a /\ e.signer # k]_apiVars
  BY RotatedKeyStep
<1>2. BoundInv /\ ApiTypes /\ [ApiNext]_apiVars => BoundInv'
  BY ApiBound
<1> QED
  BY <1>1, <1>2, ApiStart, ApiSessions, ApiTypesStart, ApiTypesStep, BoundStart, PTL
  DEF ApiSpec, RotatedKeyOpensNothing

-----------------------------------------------------------------------------
(* What the registries promise alone they promise in the process, where the  *)
(* blueprints of the agent registry are the rows of the other one, agents    *)
(* start provisioned and a restart drops all requests at once.               *)

RegistryFacts ==
  INSTANCE AgentRegistryProofs WITH
    Workers <- AdminWorkers, requests <- agentRequests,
    activeBlueprints <- {b \in Blueprints : blueprints[b].status = "active"}

LEMMA SameAgentRegistry ==
  /\ \A w \in AdminWorkers : Registry!Handle(w) => RegistryFacts!Handle(w)
  /\ Registry!TypeOK <=> RegistryFacts!TypeOK
BY DEF Registry!Handle, RegistryFacts!Handle,
       Registry!CreateAgent, RegistryFacts!CreateAgent,
       Registry!ActivateAgent, RegistryFacts!ActivateAgent,
       Registry!SuspendAgent, RegistryFacts!SuspendAgent,
       Registry!RevokeAgent, RegistryFacts!RevokeAgent,
       Registry!RotateKey, RegistryFacts!RotateKey,
       Registry!LoadAndEdit, RegistryFacts!LoadAndEdit,
       Registry!Commit, RegistryFacts!Commit,
       Registry!FailRequest, RegistryFacts!FailRequest,
       Registry!InsertAgent, RegistryFacts!InsertAgent,
       Registry!UpdateAgent, RegistryFacts!UpdateAgent,
       Registry!Merge, RegistryFacts!Merge, Registry!Written, RegistryFacts!Written,
       Registry!Exists, RegistryFacts!Exists, Registry!NewAgent, RegistryFacts!NewAgent,
       Registry!NoAgent, RegistryFacts!NoAgent, Registry!Idle, RegistryFacts!Idle,
       Registry!MayActivate, RegistryFacts!MayActivate,
       Registry!MaySuspend, RegistryFacts!MaySuspend,
       Registry!TypeOK, RegistryFacts!TypeOK, Registry!AgentRow, RegistryFacts!AgentRow,
       Registry!AgentStatus, RegistryFacts!AgentStatus, Registry!Request, RegistryFacts!Request

LEMMA AgentConstants == RegistryFacts!NoKeyAssumption
BY SessionAssumption, Zenon DEF RegistryFacts!NoKeyAssumption, SessionAssumption

\* The registry's own invariants.
RegistryInv == RegistryFacts!StampInv /\ RegistryFacts!AllowedInv

\* A step of the process is one of the agent registry, or leaves the rows alone
\* and its requests alone or dropped.
LEMMA ApiIsRegistryStep ==
  ASSUME [ApiNext]_apiVars
  PROVE  \/ RegistryFacts!Next
         \/ /\ agents' = agents
            /\ \/ agentRequests' = agentRequests
               \/ agentRequests' = [w \in AdminWorkers |-> RegistryFacts!Idle]
<1>1. ASSUME NEW w \in AdminWorkers, Administer(w)
      PROVE  RegistryFacts!Next
  BY <1>1, SameAgentRegistry DEF Administer, RegistryFacts!Next
<1> QED
  BY <1>1
  DEF ApiNext, ManageBlueprints, ManageDelegations, ServeSessions, Tick, Restart, apiVars,
      tableVars, requestVars, Registry!Idle, RegistryFacts!Idle

LEMMA ApiRegistry == RegistryInv /\ [ApiNext]_apiVars => RegistryInv'
<1> SUFFICES ASSUME RegistryInv, [ApiNext]_apiVars
             PROVE  RegistryInv'
  OBVIOUS
<1>1. CASE RegistryFacts!Next
  <2>1. RegistryFacts!StampInv'
    BY <1>1, RegistryFacts!NextStamps, AgentConstants, Zenon DEF RegistryInv
  <2>2. RegistryFacts!TypeOK
    BY DEF RegistryInv, RegistryFacts!StampInv
  <2>3. RegistryFacts!AllowedInv'
    BY <1>1, <2>2, RegistryFacts!AllowedStep, AgentConstants, Zenon DEF RegistryInv
  <2> QED BY <2>1, <2>3 DEF RegistryInv
<1>2. CASE agents' = agents /\ agentRequests' = agentRequests
  BY <1>2
  DEF RegistryInv, RegistryFacts!StampInv, RegistryFacts!AllowedInv, RegistryFacts!TypeOK,
      RegistryFacts!StampedStatus
<1>3. CASE agents' = agents /\ agentRequests' = [w \in AdminWorkers |-> RegistryFacts!Idle]
  BY <1>3
  DEF RegistryInv, RegistryFacts!StampInv, RegistryFacts!AllowedInv, RegistryFacts!TypeOK,
      RegistryFacts!StampedStatus, RegistryFacts!Request, RegistryFacts!Idle
<1> QED BY <1>1, <1>2, <1>3, ApiIsRegistryStep

LEMMA RegistryStart == ApiInit => RegistryInv
<1> SUFFICES ASSUME ApiInit
             PROVE  RegistryInv
  OBVIOUS
<1>1. RegistryFacts!TypeOK
  BY ApiTypesStart, SameAgentRegistry DEF ApiTypes, AgentTypes
<1>2. \A w \in AdminWorkers : agentRequests[w].kind = "idle"
  BY DEF ApiInit, Registry!Idle
<1>3. RegistryFacts!StampedStatus
  BY Provisioned DEF RegistryFacts!StampedStatus, RegistryFacts!StampsOf
<1> QED
  BY <1>1, <1>2, <1>3 DEF RegistryInv, RegistryFacts!StampInv, RegistryFacts!AllowedInv

\* In the process too, no row of an agent shows a status without the stamps that
\* status entails.
THEOREM ApiStampsFollowStatus == ApiSpec => []Registry!StampedStatus
<1>1. RegistryInv => Registry!StampedStatus
  BY DEF RegistryInv, RegistryFacts!StampInv, Registry!StampedStatus,
         RegistryFacts!StampedStatus, Registry!StampsOf, RegistryFacts!StampsOf
<1> QED BY <1>1, RegistryStart, ApiRegistry, PTL DEF ApiSpec

\* No step of the process, a restart included, loses the stamp of a transition.
THEOREM ApiStampsNeverLost == ApiSpec => Registry!StampsPermanent
<1>1. ASSUME RegistryInv, [ApiNext]_apiVars, NEW a \in Agents
      PROVE  /\ agents[a].activated => agents'[a].activated
             /\ agents[a].suspended => agents'[a].suspended
             /\ agents[a].revoked   => agents'[a].revoked
  <2>1. CASE RegistryFacts!Next
    <3>1. RegistryFacts!KeepsStamps(a)
      BY <1>1, <2>1, RegistryFacts!NextStamps, AgentConstants, Zenon DEF RegistryInv
    <3> QED BY <3>1 DEF RegistryFacts!KeepsStamps
  <2>2. CASE agents' = agents
    BY <2>2
  <2> QED BY <1>1, <2>1, <2>2, ApiIsRegistryStep
<1>2. RegistryInv /\ [ApiNext]_apiVars =>
        [\A a \in Agents : /\ agents[a].activated => agents'[a].activated
                           /\ agents[a].suspended => agents'[a].suspended
                           /\ agents[a].revoked   => agents'[a].revoked]_(Registry!vars)
  BY <1>1
<1> QED BY <1>2, RegistryStart, ApiRegistry, PTL DEF ApiSpec, Registry!StampsPermanent

\* Once it has settled, a revocation survives everything the process does.
THEOREM ApiSettledIsFinal == ApiSpec => Registry!SettledRevocationIsFinal
<1>1. ASSUME AgentRows, [ApiNext]_apiVars, NEW a \in Agents, Registry!Settled(a)
      PROVE  Registry!Settled(a)'
  <2>1. ASSUME NEW w \in AdminWorkers, Administer(w)
        PROVE  Registry!Settled(a)'
    BY <1>1, <2>1, HandleSettled DEF Administer
  <2>2. CASE UNCHANGED <<agents, agentRequests>>
    BY <1>1, <2>2 DEF Registry!Settled, Registry!Overwrites
  <2>3. CASE Restart
    BY <1>1, <2>3 DEF Restart, tableVars, Registry!Settled, Registry!Overwrites, Registry!Idle
  <2> QED
    BY <1>1, <2>1, <2>2, <2>3
    DEF ApiNext, ManageBlueprints, ManageDelegations, ServeSessions, Tick, apiVars, tableVars,
        requestVars
<1>2. AgentRows /\ [ApiNext]_apiVars =>
        [\A a \in Agents : Registry!Settled(a) => Registry!Settled(a)']_(Registry!vars)
  BY <1>1
<1> QED
  BY <1>2, ApiRowsStart, ApiRows, PTL DEF ApiSpec, Registry!SettledRevocationIsFinal

\* A step of the process in which no overtaken request commits makes the
\* lifecycle's transition of an agent, or none.
LEMMA FreshApiStep ==
  ASSUME RegistryInv, [ApiNext]_apiVars,
         \A w \in AdminWorkers : Registry!Overtaken(w) => agentRequests'[w] = agentRequests[w]
  PROVE  Registry!Lifecycle!Next \/ UNCHANGED [a \in Agents |-> agents[a].status]
<1>1. CASE RegistryFacts!Next
  <2>1. \A w \in AdminWorkers :
          RegistryFacts!Overtaken(w) => agentRequests'[w] = agentRequests[w]
    BY DEF Registry!Overtaken, RegistryFacts!Overtaken
  <2>2. RegistryFacts!Lifecycle!Next \/ UNCHANGED RegistryFacts!Statuses
    BY <1>1, <2>1, RegistryFacts!FreshStep, AgentConstants, Zenon DEF RegistryInv
  <2> QED
    BY <2>2
    DEF RegistryFacts!Statuses,
        Registry!Lifecycle!Next, RegistryFacts!Lifecycle!Next,
        Registry!Lifecycle!Register, RegistryFacts!Lifecycle!Register,
        Registry!Lifecycle!Activate, RegistryFacts!Lifecycle!Activate,
        Registry!Lifecycle!Suspend, RegistryFacts!Lifecycle!Suspend,
        Registry!Lifecycle!Revoke, RegistryFacts!Lifecycle!Revoke,
        Registry!Lifecycle!Move, RegistryFacts!Lifecycle!Move,
        Registry!Lifecycle!AgentStatus, RegistryFacts!Lifecycle!AgentStatus
<1>2. CASE agents' = agents
  BY <1>2
<1> QED BY <1>1, <1>2, ApiIsRegistryStep

\* However requests, restarts and the other endpoints interleave, an agent leaves
\* its lifecycle only by the commit of a request that was overtaken.
THEOREM OnlyStaleCommitsDepartInApi == ApiSpec => Registry!FreshCommitsFollowLifecycle
<1>1. RegistryInv /\ [ApiNext]_apiVars =>
        [(\A w \in AdminWorkers :
            Registry!Overtaken(w) => agentRequests'[w] = agentRequests[w]) =>
           Registry!Lifecycle!Next \/ UNCHANGED [a \in Agents |-> agents[a].status]]_(Registry!vars)
  BY FreshApiStep
<1> QED
  BY <1>1, RegistryStart, ApiRegistry, PTL DEF ApiSpec, Registry!FreshCommitsFollowLifecycle

\* A blueprint's name stays its own in the process: sessions, tokens and the
\* policy input say a slug and mean one blueprint.
THEOREM ApiSlugsStayUnique == ApiSpec => []BlueprintApi!SlugUnique
<1>1. ApiTypes => BlueprintApi!SlugUnique
  BY DEF ApiTypes, BlueprintTypes, BlueprintFacts!BlueprintInv, BlueprintApi!SlugUnique,
         BlueprintFacts!SlugUnique, BlueprintApi!BlueprintExists, BlueprintFacts!BlueprintExists
<1> QED BY <1>1, ApiTypesStart, ApiTypesStep, PTL DEF ApiSpec

LEMMA ApiIsBlueprintStep ==
  [ApiNext]_apiVars => [BlueprintFacts!Next]_(BlueprintFacts!blueprintVars) \/ UNCHANGED blueprints
BY SameBlueprintRegistry
DEF ApiNext, Administer, ManageBlueprints, ManageDelegations, ServeSessions, Tick, Restart,
    apiVars, tableVars, requestVars, BlueprintFacts!blueprintVars

\* An activation or deactivation is not lost to a PUT that loaded the row before it.
THEOREM ApiPutsKeepStatus == ApiSpec => BlueprintApi!PutKeepsStatus
<1>1. ASSUME ApiTypes, [ApiNext]_apiVars, NEW b \in Blueprints,
             blueprints'[b].status # blueprints[b].status
      PROVE  \E w \in BlueprintWorkers : /\ blueprintRequests[w].kind = "status"
                                         /\ blueprintRequests[w].blueprint = b
                                         /\ blueprintRequests'[w] = BlueprintApi!NoRequest
  <2>1. BlueprintFacts!BlueprintInv /\ BlueprintFacts!BlueprintExists(b)
    BY <1>1 DEF ApiTypes, BlueprintTypes
  <2>2. [BlueprintFacts!Next]_(BlueprintFacts!blueprintVars)
    BY <1>1, ApiIsBlueprintStep
  <2>3. \E w \in BlueprintWorkers : /\ blueprintRequests[w].kind = "status"
                                    /\ blueprintRequests[w].blueprint = b
                                    /\ blueprintRequests'[w] = BlueprintFacts!NoRequest
    BY <1>1, <2>1, <2>2, BlueprintFacts!StatusChanges, BlueprintConstants, Zenon
  <2> QED BY <2>3 DEF BlueprintApi!NoRequest, BlueprintFacts!NoRequest
<1>2. ApiTypes /\ [ApiNext]_apiVars =>
        [\A b \in Blueprints :
           BlueprintApi!BlueprintExists(b) /\ blueprints'[b].status # blueprints[b].status =>
             \E w \in BlueprintWorkers :
               /\ blueprintRequests[w].kind = "status"
               /\ blueprintRequests[w].blueprint = b
               /\ blueprintRequests'[w] = BlueprintApi!NoRequest]_(BlueprintApi!blueprintVars)
  BY <1>1
<1> QED
  BY <1>2, ApiTypesStart, ApiTypesStep, PTL DEF ApiSpec, BlueprintApi!PutKeepsStatus

\* Versions and contents of blueprints are written by PUTs alone in the process,
\* and one that no other PUT overtook adds exactly one.
THEOREM ApiVersionsAreCounts == ApiSpec => BlueprintApi!VersionsCountPuts
<1> DEFINE Counted(b) ==
      \E w \in BlueprintWorkers :
        /\ blueprintRequests[w].kind = "put"
        /\ blueprintRequests[w].blueprint = b
        /\ blueprintRequests'[w] = BlueprintApi!NoRequest
        /\ blueprintRequests[w].loaded.version = blueprints[b].version =>
             blueprints'[b].version = blueprints[b].version + 1
<1>1. ASSUME ApiTypes, [ApiNext]_apiVars, NEW b \in Blueprints,
             \/ blueprints'[b].version # blueprints[b].version
             \/ blueprints'[b].ttl # blueprints[b].ttl
      PROVE  Counted(b)
  <2>1. BlueprintFacts!BlueprintInv /\ BlueprintFacts!BlueprintExists(b)
    BY <1>1 DEF ApiTypes, BlueprintTypes
  <2>2. [BlueprintFacts!Next]_(BlueprintFacts!blueprintVars)
    BY <1>1, ApiIsBlueprintStep
  <2>3. BlueprintFacts!CountedPut(b)
    BY <1>1, <2>1, <2>2, BlueprintFacts!ContentChanges, BlueprintConstants, Zenon
  <2> QED
    BY <2>3 DEF BlueprintFacts!CountedPut, BlueprintApi!NoRequest, BlueprintFacts!NoRequest
<1>2. ApiTypes /\ [ApiNext]_apiVars =>
        [\A b \in Blueprints :
           /\ BlueprintApi!BlueprintExists(b)
           /\ \/ blueprints'[b].version # blueprints[b].version
              \/ blueprints'[b].ttl # blueprints[b].ttl
           => Counted(b)]_(BlueprintApi!blueprintVars)
  BY <1>1
<1> QED
  BY <1>2, ApiTypesStart, ApiTypesStep, PTL DEF ApiSpec, BlueprintApi!VersionsCountPuts

-----------------------------------------------------------------------------
(* The ledger.  An id is one token and at most one session, and the token    *)
(* comes first.                                                              *)

\* A session id is one row, and the response that hands out its token comes once.
TokenInv ==
  /\ \A s, u \in sessions : s.id = u.id => s = u
  /\ \A w \in SessionWorkers : sessionRequests[w].kind = "respond" =>
       \A t \in tokens : t.id # sessionRequests[w].row.id

LEMMA TokenStart == SessionInit => TokenInv
BY DEF SessionInit, TokenInv, NoSessionRequest

\* A request that is not about to respond, and no change of rows or tokens.
LEMMA TokenOneRequest ==
  ASSUME SessionInv, TokenInv, NEW w \in SessionWorkers, NEW r,
         Proceed(w, r), UNCHANGED <<sessions, tokens>>,
         r.kind = "respond" => \A t \in tokens : t.id # r.row.id
  PROVE  TokenInv'
BY DEF SessionInv, TokenInv, Proceed

LEMMA TokenSessionStep == SessionInv /\ TokenInv /\ SessionNext => TokenInv'
<1> SUFFICES ASSUME SessionInv, TokenInv, SessionNext
             PROVE  TokenInv'
  OBVIOUS
<1>1. PICK w \in SessionWorkers :
        \/ \E a \in Agents, e \in Evidence, d \in Delegations \cup {NoDelegation}, t \in RequestTtls :
             BeginSession(w, a, [evidence |-> e, delegation |-> d, ttl |-> t])
        \/ \E s \in sessions : BeginRevoke(w, s)
        \/ AdvanceSession(w)
        \/ FailSession(w)
  BY DEF SessionNext
<1> DEFINE r == sessionRequests[w]
<1>2. RequestOK(r)
  BY DEF SessionInv
<1>3. NoSessionRequest.kind # "respond"
  BY DEF NoSessionRequest
<1>4. ASSUME NEW a, NEW ask, BeginSession(w, a, ask)
      PROVE  TokenInv'
  BY <1>4, TokenOneRequest DEF BeginSession
<1>5. ASSUME NEW s, BeginRevoke(w, s)
      PROVE  TokenInv'
  BY <1>5, TokenOneRequest DEF BeginRevoke
<1>6. ASSUME FailSession(w)
      PROVE  TokenInv'
  BY <1>3, <1>6, TokenOneRequest DEF FailSession
<1>7. ASSUME VerifyAttestation(w)
      PROVE  TokenInv'
  BY <1>3, <1>7, TokenOneRequest DEF VerifyAttestation
<1>8. ASSUME FlushAttestation(w)
      PROVE  TokenInv'
  <2>1. [r EXCEPT !.kind = "delegation"].kind # "respond"
    BY <1>2, <1>8 DEF RequestOK, IsRequest, FlushAttestation
  <2> QED BY <1>3, <1>8, <2>1, TokenOneRequest DEF FlushAttestation
<1>9. ASSUME FlushSession(w)
      PROVE  TokenInv'
  <2>1. \A t \in tokens : t.id # nextId
    BY DEF SessionInv
  <2> QED BY <1>3, <1>9, <2>1, TokenOneRequest DEF FlushSession
<1>10. ASSUME Respond(w)
       PROVE  TokenInv'
  <2>1. r.kind = "respond" /\ [r EXCEPT !.kind = "commit"].kind = "commit"
    BY <1>2, <1>10 DEF Respond, RequestOK, IsRequest, Built
  <2>2. ASSUME NEW v \in SessionWorkers \ {w}, sessionRequests[v].kind = "respond"
        PROVE  sessionRequests[v].row.id # r.row.id
    BY <2>1, <2>2 DEF SessionInv, Apart, Built
  <2> QED BY <1>10, <2>1, <2>2 DEF Respond, TokenOf, Proceed, SessionInv, TokenInv
<1>11. ASSUME CommitSession(w)
       PROVE  TokenInv'
  <2>1. \A s \in sessions : s.id # r.row.id
    BY <1>2, <1>11 DEF CommitSession, RequestOK, Built
  <2>2. \A s, u \in sessions' : s.id = u.id => s = u
    BY <1>11, <2>1 DEF CommitSession, TokenInv
  <2> QED BY <1>3, <1>11, <2>2 DEF CommitSession, Proceed, SessionInv, TokenInv
<1>12. ASSUME CommitRevoke(w)
       PROVE  TokenInv'
  <2>1. \A s \in sessions : Revoked(s).id = s.id
    BY RevokedSameRow DEF SessionInv, StoredOK, RowOK, SameRow
  <2>2. \A s, u \in sessions' : s.id = u.id => s = u
    BY <1>12, <2>1 DEF CommitRevoke, TokenInv
  <2> QED BY <1>3, <1>12, <2>2 DEF CommitRevoke, Proceed, SessionInv, TokenInv
<1> QED
  BY <1>1, <1>4, <1>5, <1>6, <1>7, <1>8, <1>9, <1>10, <1>11, <1>12 DEF AdvanceSession

LEMMA ApiTokens == SessionInv /\ TokenInv /\ [ApiNext]_apiVars => TokenInv'
<1>1. UNCHANGED <<sessions, tokens, sessionRequests>> /\ TokenInv => TokenInv'
  BY DEF TokenInv
<1>2. Restart /\ TokenInv => TokenInv'
  BY DEF Restart, tableVars, TokenInv, NoSessionRequest
<1> QED
  BY <1>1, <1>2, TokenSessionStep
  DEF ApiNext, Administer, ManageBlueprints, ManageDelegations, ServeSessions, Tick,
      apiVars, tableVars, requestVars, sessionVars

\* The rows that have been built, or stored, are the rows whose tokens are out,
\* except those about to respond; none is revoked before it is stored.
HandedOut ==
  /\ \A s \in sessions : TokenOf(s) \in tokens
  /\ \A w \in SessionWorkers :
       /\ sessionRequests[w].kind \in Built => ~sessionRequests[w].row.revoked
       /\ sessionRequests[w].kind = "commit" => TokenOf(sessionRequests[w].row) \in tokens

LEMMA LedgerStart == SessionInit => Ledger!Init /\ HandedOut
BY DEF SessionInit, Ledger!Init, HandedOut, NoSessionRequest, Built

LEMMA HandedOutOne ==
  ASSUME SessionInv, HandedOut, NEW w \in SessionWorkers, NEW r,
         Proceed(w, r), sessions' = sessions, tokens \subseteq tokens',
         r.kind \in Built => ~r.row.revoked,
         r.kind = "commit" => TokenOf(r.row) \in tokens'
  PROVE  HandedOut'
<1>1. /\ sessionRequests'[w] = r
      /\ \A v \in SessionWorkers \ {w} : sessionRequests'[v] = sessionRequests[v]
  BY DEF Proceed, SessionInv
<1> QED BY <1>1 DEF HandedOut

\* Revocation is all that a token does not see of its session's row.
LEMMA RevokedSameToken ==
  ASSUME NEW s, IsRow(s)
  PROVE  TokenOf(Revoked(s)) = TokenOf(s)
BY RevokedSameRow DEF SameRow, TokenOf

LEMMA HandedOutStep == SessionInv /\ HandedOut /\ SessionNext => HandedOut'
<1> SUFFICES ASSUME SessionInv, HandedOut, SessionNext
             PROVE  HandedOut'
  OBVIOUS
<1>1. PICK w \in SessionWorkers :
        \/ \E a \in Agents, e \in Evidence, d \in Delegations \cup {NoDelegation}, t \in RequestTtls :
             BeginSession(w, a, [evidence |-> e, delegation |-> d, ttl |-> t])
        \/ \E s \in sessions : BeginRevoke(w, s)
        \/ AdvanceSession(w)
        \/ FailSession(w)
  BY DEF SessionNext
<1> DEFINE r == sessionRequests[w]
<1>2. RequestOK(r)
  BY DEF SessionInv
<1>3. NoSessionRequest.kind \notin Built
  BY DEF NoSessionRequest, Built
<1>4. \A q : q.kind \notin Built => q.kind # "commit"
  BY DEF Built
<1>5. ASSUME NEW a, NEW ask, BeginSession(w, a, ask)
      PROVE  HandedOut'
  <2> DEFINE q == [kind |-> "load", agent |-> a, key |-> agents[a].key, ask |-> ask]
  <2>1. q.kind \notin Built
    BY DEF Built
  <2> QED BY <1>4, <1>5, <2>1, HandedOutOne DEF BeginSession
<1>6. ASSUME NEW s, BeginRevoke(w, s)
      PROVE  HandedOut'
  <2> DEFINE q == [kind |-> "revoke", id |-> s.id]
  <2>1. q.kind \notin Built
    BY DEF Built
  <2> QED BY <1>4, <1>6, <2>1, HandedOutOne DEF BeginRevoke
<1>7. ASSUME FailSession(w)
      PROVE  HandedOut'
  BY <1>3, <1>4, <1>7, HandedOutOne DEF FailSession
<1>8. ASSUME VerifyAttestation(w)
      PROVE  HandedOut'
  <2>1. PICK q : Proceed(w, q) /\ q.kind \notin Built
    BY <1>3, <1>8 DEF VerifyAttestation, Built
  <2> QED BY <1>4, <1>8, <2>1, HandedOutOne DEF VerifyAttestation
<1>9. ASSUME FlushAttestation(w)
      PROVE  HandedOut'
  <2>1. [r EXCEPT !.kind = "delegation"].kind \notin Built
    BY <1>2, <1>9 DEF RequestOK, IsRequest, FlushAttestation, Built
  <2>2. PICK q : Proceed(w, q) /\ q.kind \notin Built
    BY <1>3, <1>9, <2>1 DEF FlushAttestation
  <2> QED BY <1>4, <1>9, <2>2, HandedOutOne DEF FlushAttestation
<1>10. ASSUME FlushSession(w)
       PROVE  HandedOut'
  <2>1. PICK q : /\ Proceed(w, q)
                 /\ q.kind # "commit"
                 /\ q.kind \in Built => ~q.row.revoked
    BY <1>3, <1>4, <1>10 DEF FlushSession
  <2> QED BY <1>10, <2>1, HandedOutOne DEF FlushSession
<1>11. ASSUME Respond(w)
       PROVE  HandedOut'
  <2> DEFINE q == [r EXCEPT !.kind = "commit"]
  <2>1. r.kind \in Built /\ q.kind = "commit" /\ q.row = r.row
    BY <1>2, <1>11 DEF Respond, RequestOK, IsRequest, Built
  <2>2. ~q.row.revoked
    BY <2>1 DEF HandedOut
  <2>3. TokenOf(q.row) \in tokens'
    BY <1>11, <2>1 DEF Respond, TokenOf
  <2>4. Proceed(w, q) /\ sessions' = sessions /\ tokens \subseteq tokens'
    BY <1>11 DEF Respond
  <2> HIDE DEF q
  <2> QED BY <2>2, <2>3, <2>4, HandedOutOne
<1>12. ASSUME CommitSession(w)
       PROVE  HandedOut'
  BY <1>3, <1>4, <1>12 DEF CommitSession, Proceed, SessionInv, HandedOut
<1>13. ASSUME CommitRevoke(w)
       PROVE  HandedOut'
  <2>1. \A s \in sessions : TokenOf(Revoked(s)) = TokenOf(s)
    BY RevokedSameToken DEF SessionInv, StoredOK, RowOK
  <2>2. \A s \in sessions' : TokenOf(s) \in tokens'
    BY <1>13, <2>1 DEF CommitRevoke, HandedOut
  <2> QED BY <1>3, <1>4, <1>13, <2>2 DEF CommitRevoke, Proceed, SessionInv, HandedOut
<1> QED
  BY <1>1, <1>5, <1>6, <1>7, <1>8, <1>9, <1>10, <1>11, <1>12, <1>13 DEF AdvanceSession

LEMMA ApiHandedOut == SessionInv /\ HandedOut /\ [ApiNext]_apiVars => HandedOut'
<1>1. UNCHANGED <<sessions, tokens, sessionRequests>> /\ HandedOut => HandedOut'
  BY DEF HandedOut
<1>2. Restart /\ HandedOut => HandedOut'
  BY DEF Restart, tableVars, HandedOut, NoSessionRequest, Built
<1> QED
  BY <1>1, <1>2, HandedOutStep
  DEF ApiNext, Administer, ManageBlueprints, ManageDelegations, ServeSessions, Tick,
      apiVars, tableVars, requestVars, sessionVars

\* Every step of the session service is one of the ledger's, or none.
LEMMA SessionLedgerStep ==
  ASSUME SessionInv, SessionTypeOK, TokenInv, HandedOut, SessionNext
  PROVE  [Ledger!Next]_<<sessions, tokens>>
<1>1. PICK w \in SessionWorkers :
        \/ \E a \in Agents, e \in Evidence, d \in Delegations \cup {NoDelegation}, t \in RequestTtls :
             BeginSession(w, a, [evidence |-> e, delegation |-> d, ttl |-> t])
        \/ \E s \in sessions : BeginRevoke(w, s)
        \/ AdvanceSession(w)
        \/ FailSession(w)
  BY DEF SessionNext
<1> DEFINE r == sessionRequests[w]
<1>2. RequestOK(r)
  BY DEF SessionInv
<1>3. ASSUME Respond(w)
      PROVE  Ledger!Next
  <2>1. r.kind = "respond" /\ r.kind \in Built
    BY <1>3 DEF Respond, Built
  <2>2. \A s \in tokens \cup sessions : s.id # r.row.id
    BY <1>2, <2>1 DEF TokenInv, RequestOK
  <2>3. Ledger!Issue(TokenOf(r.row)) /\ TokenOf(r.row) \in tokens'
    BY <1>3, <2>2 DEF Respond, Ledger!Issue, TokenOf
  <2> QED BY <2>3 DEF Ledger!Next
<1>4. ASSUME CommitSession(w)
      PROVE  Ledger!Next
  <2>1. r.kind = "commit" /\ r.kind \in Built /\ r.kind \in Flushed
    BY <1>4 DEF CommitSession, Built, Flushed
  <2>2. \A s \in sessions : s.id # r.row.id
    BY <1>2, <2>1 DEF RequestOK
  <2>3. \A s \in sessions : s.nonce # r.row.nonce
    BY <1>2, <2>1 DEF RequestOK, RowOK, SessionInv, StoredOK
  <2>4. ~r.row.revoked /\ TokenOf(r.row) \in tokens
    BY <2>1 DEF HandedOut
  <2>5. r.row.expires \in Int
    BY <2>1 DEF SessionTypeOK, SessionRequest, NoSessionRequest, SessionRow
  <2>6. /\ TokenOf(r.row).id = r.row.id /\ TokenOf(r.row).agent = r.row.agent
        /\ TokenOf(r.row).expires <= r.row.expires
    BY <2>5, WholeBounds DEF TokenOf
  <2>7. Ledger!Open(r.row) /\ r.row \in sessions'
    BY <1>4, <2>2, <2>3, <2>4, <2>6 DEF CommitSession, Ledger!Open
  <2> QED BY <2>7 DEF Ledger!Next
<1>5. ASSUME CommitRevoke(w)
      PROVE  Ledger!Next \/ UNCHANGED <<sessions, tokens>>
  <2>1. sessions' = { IF s.id = r.id THEN Revoked(s) ELSE s : s \in sessions } /\ tokens' = tokens
    BY <1>5 DEF CommitRevoke
  <2>2. CASE \A s \in sessions : s.id = r.id => s.revoked
    <3>1. ASSUME NEW s \in sessions, s.revoked
          PROVE  Revoked(s) = s
      BY <3>1 DEF Revoked, SessionInv, StoredOK, RowOK, IsRow
    <3> QED BY <2>1, <2>2, <3>1
  <2>3. CASE \E s \in sessions : s.id = r.id /\ ~s.revoked
    <3>1. PICK s \in sessions : s.id = r.id /\ ~s.revoked
      BY <2>3
    <3>2. \A u \in sessions : u.id = r.id <=> u = s
      BY <3>1 DEF TokenInv
    <3>3. sessions' = (sessions \ {s}) \cup {Revoked(s)}
      BY <2>1, <3>2
    <3>4. Ledger!Revoke(s)
      BY <2>1, <3>1, <3>3 DEF Ledger!Revoke, Revoked
    <3> QED BY <3>1, <3>4 DEF Ledger!Next
  <2> QED BY <2>2, <2>3
<1> QED
  BY <1>1, <1>3, <1>4, <1>5
  DEF AdvanceSession, BeginSession, BeginRevoke, FailSession, VerifyAttestation,
      FlushAttestation, FlushSession

\* The identity API implements the ledger of tokens and sessions: nothing that
\* overlaps, fails or restarts makes two sessions of a token or of a document, brings
\* a session before its token, changes or loses a session, or takes a revocation back.
THEOREM ApiKeepsLedger == ApiSpec => KeepsLedger
<1>1. ApiInit => Ledger!Init /\ SessionInv /\ TokenInv /\ HandedOut
  BY ApiStart, LedgerStart, TokenStart, Zenon DEF ApiInit
<1>2. SessionInv /\ ApiTypes /\ TokenInv /\ HandedOut /\ [ApiNext]_apiVars =>
        [Ledger!Next]_<<sessions, tokens>>
  BY SessionLedgerStep
  DEF ApiTypes, ApiNext, Administer, ManageBlueprints, ManageDelegations, ServeSessions, Tick, Restart,
      apiVars, tableVars, requestVars, sessionVars
<1> QED
  BY <1>1, <1>2, ApiSessions, ApiTypesStart, ApiTypesStep, ApiTokens, ApiHandedOut, PTL
  DEF ApiSpec, KeepsLedger, Ledger!Spec
=============================================================================
