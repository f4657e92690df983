----------------------------- MODULE IdentityApi ------------------------------
(***************************************************************************)
(* The identity API as one process over one database: administrators'      *)
(* requests of the three registries and runtimes' session requests         *)
(* interleave at their awaits, the clock moves, the process restarts.      *)
(* Committed rows survive a restart; requests in flight (and with them     *)
(* their transactions) and the verifier's NONCE_SEEN do not.               *)
(***************************************************************************)
EXTENDS SessionService

CONSTANTS
  AdminWorkers, BlueprintWorkers, DelegationWorkers,
  Slugs, CreateTtls, UpdateTtls, NullTtl, MaxVersion,   \* see BlueprintRegistry
  DelegationTtls, MaxTime,                              \* see DelegationRegistry
  MaxRestarts     \* bound of the exploration on restarts of the process

ASSUME ApiAssumption ==
  /\ CreateTtls \subseteq UpdateTtls /\ UpdateTtls \subseteq Int
  /\ NullTtl \notin UpdateTtls
  /\ MaxVersion \in Nat \ {0}
  /\ DelegationTtls \subseteq Nat

VARIABLES agentRequests, blueprintRequests, delegationRequests, restarts

requestVars == <<agentRequests, blueprintRequests, delegationRequests, sessionRequests>>
tableVars == <<agents, blueprints, delegations, sessions, attestations>>
apiVars == <<tableVars, requestVars, nonceSeen, nextId, tokens, now, restarts>>

Registry ==
  INSTANCE AgentRegistry WITH
    Workers <- AdminWorkers, requests <- agentRequests,
    activeBlueprints <- {b \in Blueprints : blueprints[b].status = "active"}

BlueprintApi == INSTANCE BlueprintRegistry

DelegationApi == INSTANCE DelegationRegistry

-----------------------------------------------------------------------------
\* A deployment that has been provisioned: every blueprint is active under a slug of
\* its own, every agent was registered under some blueprint, with a key or
\* without, and activated.
ApiInit ==
  /\ \E slug \in [Blueprints -> Slugs], ttl \in [Blueprints -> CreateTtls] :
       /\ \A b, c \in Blueprints : slug[b] = slug[c] => b = c
       /\ blueprints = [b \in Blueprints |->
            [status |-> "active", slug |-> slug[b], version |-> 1, ttl |-> ttl[b]]]
  /\ \E blueprint \in [Agents -> Blueprints], key \in [Agents -> Keys \cup {NoKey}] :
       agents = [a \in Agents |->
         [Registry!NewAgent(blueprint[a], key[a]) EXCEPT !.status = "active", !.activated = TRUE]]
  /\ agentRequests = [w \in AdminWorkers |-> Registry!Idle]
  /\ blueprintRequests = [w \in BlueprintWorkers |-> BlueprintApi!NoRequest]
  /\ DelegationApi!DelegationInit
  /\ SessionInit
  /\ now = 0
  /\ restarts = 0

Administer(w) ==
  /\ UNCHANGED <<blueprints, blueprintRequests, delegations, delegationRequests>>
  /\ UNCHANGED <<sessionVars, now, restarts>>
  /\ Registry!Handle(w)

ManageBlueprints ==
  /\ BlueprintApi!Next
  /\ UNCHANGED <<agents, agentRequests, delegations, delegationRequests>>
  /\ UNCHANGED <<sessionVars, now, restarts>>

ManageDelegations ==
  /\ \/ \E d \in Delegations, a \in Agents, t \in DelegationTtls :
          /\ Registry!Exists(a)     \* foreign key
          /\ DelegationApi!CreateDelegation(d, a, t)
     \/ \E w \in DelegationWorkers :
          \/ \E d \in Delegations : DelegationApi!RevokeDelegation(w, d)
          \/ DelegationApi!CommitRevocation(w)
          \/ DelegationApi!FailRevocation(w)
  /\ UNCHANGED <<agents, agentRequests, blueprints, blueprintRequests>>
  /\ UNCHANGED <<sessionVars, restarts>>

ServeSessions ==
  /\ SessionNext
  /\ UNCHANGED <<agents, agentRequests, blueprints, blueprintRequests>>
  /\ UNCHANGED <<delegations, delegationRequests, now, restarts>>

Tick ==
  /\ now < MaxTime
  /\ now' = now + 1
  /\ UNCHANGED <<tableVars, requestVars, nonceSeen, nextId, tokens, restarts>>

\* The process dies and comes back; PostgreSQL aborts its open transactions.
Restart ==
  /\ restarts < MaxRestarts
  /\ restarts' = restarts + 1
  /\ nonceSeen' = {}
  /\ agentRequests' = [w \in AdminWorkers |-> Registry!Idle]
  /\ blueprintRequests' = [w \in BlueprintWorkers |-> BlueprintApi!NoRequest]
  /\ delegationRequests' = [w \in DelegationWorkers |-> DelegationApi!NoRevocation]
  /\ sessionRequests' = [w \in SessionWorkers |-> NoSessionRequest]
  /\ UNCHANGED <<tableVars, nextId, tokens, now>>

ApiNext ==
  \/ \E w \in AdminWorkers : Administer(w)
  \/ ManageBlueprints
  \/ ManageDelegations
  \/ ServeSessions
  \/ Tick
  \/ Restart

ApiSpec == ApiInit /\ [][ApiNext]_apiVars

-----------------------------------------------------------------------------
(* Properties. *)

\* The rows of every table and of every request in flight are well formed.
ApiTypeOK ==
  /\ Registry!TypeOK
  /\ BlueprintApi!BlueprintTypeOK
  /\ DelegationApi!DelegationTypeOK
  /\ SessionTypeOK

\* One attestation backs at most one session, across restarts that forget
\* NONCE_SEEN and requests that present the same document at once.
NonceBacksOneSession ==
  \A s, t \in sessions : s.nonce = t.nonce => s.id = t.id

\* Every session rests on a committed attestation that was fresh, on either
\* side, when it was verified, no later than the session began; and some document
\* with that nonce makes every required claim about the session's own agent.
EverySessionAttested ==
  \A s \in sessions :
    /\ \E t \in attestations : /\ t.nonce = s.nonce
                               /\ Distance(t.verifiedAt, t.issuedAt) <= MaxSkew
                               /\ t.verifiedAt <= s.issued
    /\ \E e \in Evidence : e.nonce = s.nonce /\ e.agent = s.agent /\ e.complete

\* A create_session that is refused, fails or is cut off by a restart leaves no
\* attestation behind, which would use up the runtime's nonce for nothing.
AttestationHasSession ==
  \A t \in attestations : \E s \in sessions : s.nonce = t.nonce /\ s.agent = t.agent

\* A create_session for agent a that has passed the checks on the agent's row.
InFlightFor(w, a) ==
  \/ sessionRequests[w].kind = "load" /\ sessionRequests[w].agent = a
  \/ /\ sessionRequests[w].kind \in {"attestation", "delegation", "respond", "commit"}
     /\ sessionRequests[w].att.agent = a

AgentShut(a) ==
  /\ Registry!Settled(a)
  /\ \A w \in SessionWorkers : ~InFlightFor(w, a)

SessionsOf(a) == {s.id : s \in {t \in sessions : t.agent = a}}
TokensOf(a) == {t \in tokens : t.agent = a}

\* When the requests that overlapped the revocation of an agent have drained,
\* the agent never again gets a session or a token: not by replay, not by key
\* rotation, not by activation, not after a restart.
ShutAgentGetsNothing ==
  [][\A a \in Agents : AgentShut(a) =>
       AgentShut(a)' /\ SessionsOf(a)' = SessionsOf(a) /\ TokensOf(a)' = TokensOf(a)]_apiVars

\* A create_session that has passed the checks on delegation d.
PastCheckOf(w, d) ==
  /\ sessionRequests[w].kind \in {"respond", "commit"}
  /\ sessionRequests[w].row.delegation = d

\* Session row s is committed by this step.
Opened(s) == s.id \notin {t.id : t \in sessions}

\* A revoked or expired grant never backs another session once the requests
\* that had already checked it have drained.
ShutGrantBacksNothing ==
  [][\A d \in Delegations :
       /\ DelegationApi!Granted(d)
       /\ delegations[d].revoked \/ delegations[d].expires < now
       /\ \A w \in SessionWorkers : ~PastCheckOf(w, d)
       => /\ \A w \in SessionWorkers : ~PastCheckOf(w, d)'
          /\ \A s \in sessions' : Opened(s) => s.delegation # d]_apiVars

\* Blueprint b is not active, no request is about to activate it, and no
\* create_session of its agents has passed the check of the blueprint.
BlueprintShut(b) ==
  /\ blueprints[b].status # "active"
  /\ \A w \in BlueprintWorkers :
       blueprintRequests[w].kind = "status" /\ blueprintRequests[w].blueprint = b =>
         blueprintRequests[w].edited.status # "active"
  /\ \A w \in SessionWorkers, a \in Agents :
       agents[a].blueprint = b /\ InFlightFor(w, a) => sessionRequests[w].kind = "load"

\* Once a deactivation has drained, no agent of the blueprint opens a session
\* until a request that loads the blueprint later activates it.
ShutBlueprintOpensNothing ==
  [][\A b \in Blueprints : BlueprintShut(b) =>
       /\ \A w \in SessionWorkers, a \in Agents :
            agents[a].blueprint = b /\ InFlightFor(w, a)' => sessionRequests'[w].kind = "load"
       /\ \A s \in sessions' : Opened(s) => agents[s.agent].blueprint # b]_apiVars

\* A stored TTL of b that is not positive, which no PUT in flight would raise.
TtlShut(b) ==
  /\ blueprints[b].ttl # NullTtl /\ blueprints[b].ttl <= 0
  /\ \A w \in BlueprintWorkers :
       blueprintRequests[w].kind = "put" /\ blueprintRequests[w].blueprint = b =>
         LET r == blueprintRequests[w]
         IN  r.edited.ttl # r.loaded.ttl /\ r.edited.ttl # NullTtl => r.edited.ttl <= 0

\* The create_session r carries a positive lifetime past the blueprint's read.
Lives(r) ==
  \/ r.kind \in {"attestation", "delegation"} /\ r.ttl > 0
  \/ r.kind \in {"respond", "commit"} /\ r.row.expires > r.row.issued

\* BlueprintUpdate stores a TTL of zero or less as readily as any other.  Once the
\* requests that read an older one have drained, none of the blueprint's agents
\* gets a token that is still valid when it is handed out, until a PUT raises the TTL.
ZeroTtlOpensNoLife ==
  [][\A b \in Blueprints :
       /\ TtlShut(b)
       /\ \A w \in SessionWorkers, a \in Agents :
            agents[a].blueprint = b /\ InFlightFor(w, a) => ~Lives(sessionRequests[w])
       => /\ blueprints'[b].ttl <= 0
          /\ \A w \in SessionWorkers, a \in Agents :
               agents[a].blueprint = b /\ InFlightFor(w, a)' => ~Lives(sessionRequests'[w])
          /\ \A t \in tokens' \ tokens :
               agents[t.agent].blueprint = b => t.expires <= now]_apiVars

\* A create_session of agent a that loaded key k and has yet to verify, or has
\* accepted a document signed with it.
VerifiedUnder(w, a, k) ==
  /\ InFlightFor(w, a)
  /\ LET r == sessionRequests[w]
     IN  IF r.kind = "load" THEN r.key = k
         ELSE \E e \in Evidence : e.nonce = r.att.nonce /\ e.signer = k

\* Key k is not the key of agent a, and no request works with it any more.
KeyOut(a, k) ==
  /\ agents[a].key # k
  /\ \A w \in SessionWorkers : ~VerifiedUnder(w, a, k)

\* A rotation under way gives agent a the key k.
BringsBack(w, a, k) ==
  /\ agentRequests[w].kind = "update"
  /\ agentRequests[w].agent = a
  /\ agentRequests[w].edited.key = k /\ agentRequests[w].loaded.key # k

\* A key that was rotated out opens no session once the requests that had loaded
\* it have drained, until another rotation brings it back.
RotatedKeyOpensNothing ==
  [][\A a \in Agents, k \in Keys :
       KeyOut(a, k) /\ (\A w \in AdminWorkers : ~BringsBack(w, a, k)) =>
         /\ KeyOut(a, k)'
         /\ \A s \in sessions' : Opened(s) /\ s.agent = a =>
              \E e \in Evidence : e.nonce = s.nonce /\ e.agent = a /\ e.signer # k]_apiVars

\* For as long as both exist, revocation and restarts included, a token names the
\* agent of its session and ends with it: never later, and less than a second
\* earlier (exp holds no fraction of a second).
TokenMatchesSession ==
  \A t \in tokens, s \in sessions :
    t.id = s.id => /\ t.agent = s.agent
                   /\ t.expires <= s.expires /\ s.expires < t.expires + Second

Ledger == INSTANCE SessionLedger WITH book <- sessions, issued <- tokens

\* Sessions and tokens are the ledger's: whatever overlaps, fails or restarts, each
\* step issues one token of a new id, enters one session whose token is out and whose
\* nonce is new, revokes one session, or leaves both as they are.
KeepsLedger == Ledger!Spec

\* A session that is being committed belongs to an agent that is not revoked.
RevokedNeverReceives ==
  [][\A s \in sessions' : Opened(s) =>
       agents[s.agent].status # "revoked"]_apiVars

\* A token handed out stands for a session that is committed or still may be.
TokenHasSession ==
  \A t \in tokens :
    \/ \E s \in sessions : s.id = t.id
    \/ \E w \in SessionWorkers : /\ sessionRequests[w].kind = "commit"
                                 /\ sessionRequests[w].row.id = t.id
=============================================================================
