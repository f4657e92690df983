---------------------------- MODULE SessionService ----------------------------
(***************************************************************************)
(* Session creation and revocation: api/sessions.py over                   *)
(* services/session_service.py, attestation/verifier.py and                *)
(* token_library/issuer.py.  The module reads the tables of the three      *)
(* registries and owns sessions, attestations and the verifier's memory.   *)
(*                                                                         *)
(* create_session is one database transaction spread over five awaits:     *)
(*   "load"         agent row read and checked                             *)
(*   "attestation"  blueprint row read, attestation verified; INSERT sent  *)
(*   "delegation"   attestation row flushed, not committed                 *)
(*   "respond"      delegation checked, session row flushed, token signed  *)
(*   "commit"       201 sent with the token; get_db has yet to commit      *)
(* FastAPI (>= 0.118; uv.lock has 0.139) runs the exit of a dependency with*)
(* yield, here the COMMIT of get_db, after the response has been sent.     *)
(***************************************************************************)
EXTENDS UnitOfWork, Integers

CONSTANTS
  Agents, Blueprints, Keys, NoKey, Delegations,
  NoDelegation,      \* delegation_grant_id = None
  Nonces,
  Evidence,          \* attestation documents a runtime may present (or replay)
  Second,            \* how many steps of the clock make a second
  RequestTtls,       \* requested_ttl_seconds
  SettingsMaxTtl,    \* settings.session_max_ttl_seconds
  MaxSkew,           \* AttestationVerifier.MAX_CLOCK_SKEW_SECONDS, in steps of the clock
  SessionWorkers,
  MaxSessions        \* bound of the exploration: no request begins after this many ids

ASSUME SessionAssumption ==
  /\ NoKey \notin Keys
  /\ NoDelegation \notin Delegations
  /\ Evidence \subseteq [ agent : Agents, signer : Keys, nonce : Nonces,
                          issuedAt : Int, complete : BOOLEAN ]
  /\ Second \in Nat \ {0}
  /\ RequestTtls \subseteq Nat \ {0}
  /\ SettingsMaxTtl \in Nat \ {0}
  /\ MaxSkew \in Nat
  /\ MaxSessions \in Nat

VARIABLES
  agents, blueprints, delegations, now,   \* the registries' tables and the clock
  sessions,          \* table agent_sessions (committed rows)
  attestations,      \* table runtime_attestations (committed rows)
  nonceSeen,         \* AttestationVerifier.NONCE_SEEN, process memory
  nextId,            \* the next fresh session uuid
  tokens,            \* the session tokens handed to clients
  sessionRequests    \* each worker's request

sessionVars == <<sessions, attestations, nonceSeen, nextId, tokens, sessionRequests>>

Ask == [evidence : Evidence, delegation : Delegations \cup {NoDelegation}, ttl : RequestTtls]

Attestation == [nonce : Nonces, agent : Agents, issuedAt : Int, verifiedAt : Int]

SessionRow ==
  [ id : Nat, agent : Agents, delegation : Delegations \cup {NoDelegation},
    nonce : Nonces,      \* runtime_attestation_id, by its unique nonce
    issued : Int, expires : Int, revoked : BOOLEAN ]

Token == [id : Nat, agent : Agents, expires : Int]

NoSessionRequest == [kind |-> "idle"]

SessionRequest ==
  {NoSessionRequest}
    \cup [kind : {"load"}, agent : Agents, key : Keys, ask : Ask]
    \cup [kind : {"attestation", "delegation"}, att : Attestation, ttl : Int,
          delegation : Delegations \cup {NoDelegation}]
    \cup [kind : {"respond", "commit"}, att : Attestation, row : SessionRow]
    \cup [kind : {"revoke"}, id : Nat]

SessionTypeOK ==
  /\ sessions \subseteq SessionRow
  /\ attestations \subseteq Attestation
  /\ nonceSeen \subseteq Nonces
  /\ nextId \in Nat
  /\ tokens \subseteq Token
  /\ sessionRequests \in [SessionWorkers -> SessionRequest]

SessionInit ==
  /\ sessions = {}
  /\ attestations = {}
  /\ nonceSeen = {}
  /\ nextId = 1
  /\ tokens = {}
  /\ sessionRequests = [w \in SessionWorkers |-> NoSessionRequest]

Proceed(w, request) == sessionRequests' = [sessionRequests EXCEPT ![w] = request]

-----------------------------------------------------------------------------
(* create_session *)

MayOpenSessionKeyless(row) == row.status = "active"
MayOpenSessionUnlessDraft(row) == row.status \notin {"absent", "draft"} /\ row.key # NoKey
\* session_service.py 42-47
MayOpenSession(row) == row.status = "active" /\ row.key # NoKey

\* The agent row is loaded and checked; its key is the one verified against.
BeginSession(w, a, ask) ==
  /\ sessionRequests[w] = NoSessionRequest
  /\ nextId <= MaxSessions
  /\ MayOpenSession(agents[a])
  /\ Proceed(w, [kind |-> "load", agent |-> a, key |-> agents[a].key, ask |-> ask])
  /\ UNCHANGED <<sessions, attestations, nonceSeen, nextId, tokens>>

Distance(s, t) == IF s < t THEN t - s ELSE s - t

FreshIfPast(e) == now - e.issuedAt <= MaxSkew
Fresh(e) == Distance(now, e.issuedAt) <= MaxSkew

AuthenticAnySigner(e, key) == Fresh(e)
\* verifier.py 29-55: signature under the loaded key, then timestamp skew.
Authentic(e, key) == e.signer = key /\ Fresh(e)

AcceptForAnyAgent(e, a) == e.nonce \notin nonceSeen /\ e.complete
\* verifier.py 57-85
Accepted(e, a) == e.nonce \notin nonceSeen /\ e.agent = a /\ e.complete

Minimum(s, t) == IF s < t THEN s ELSE t

SessionTtlUnlessZero(asked, blueprintTtl) ==
  Minimum(Minimum(asked, SettingsMaxTtl),
          IF blueprintTtl = 0 THEN SettingsMaxTtl ELSE blueprintTtl)
\* In seconds; not positive if the blueprint's is not (BlueprintUpdate bounds nothing).
SessionTtl(asked, blueprintTtl) == Minimum(Minimum(asked, SettingsMaxTtl), blueprintTtl)

MayOpenUnderAny(bp) == bp.status # "draft"
\* session_service.py 48-49
MayOpenUnder(bp) == bp.status = "active"

\* The blueprint row arrives (a second SELECT); then, without an await, its
\* status is checked and the attestation verified.  verify puts the nonce of
\* every authentic document in NONCE_SEEN, even one it goes on to reject.
VerifyAttestation(w) ==
  /\ sessionRequests[w].kind = "load"
  /\ LET r  == sessionRequests[w]
         e  == r.ask.evidence
         bp == blueprints[agents[r.agent].blueprint]
         reached == MayOpenUnder(bp) /\ Authentic(e, r.key)
     IN  /\ nonceSeen' = IF reached THEN nonceSeen \cup {e.nonce} ELSE nonceSeen
         /\ Proceed(w,
              IF reached /\ Accepted(e, r.agent)
              THEN [ kind |-> "attestation",
                     att |-> [nonce |-> e.nonce, agent |-> r.agent,
                              issuedAt |-> e.issuedAt, verifiedAt |-> now],
                     ttl |-> SessionTtl(r.ask.ttl, bp.ttl),
                     delegation |-> r.ask.delegation ]
              ELSE NoSessionRequest)
  /\ UNCHANGED <<sessions, attestations, nextId, tokens>>

FlushUnconstrained(w) ==
  /\ sessionRequests[w].kind = "attestation"
  /\ Proceed(w, [sessionRequests[w] EXCEPT !.kind = "delegation"])
  /\ UNCHANGED <<sessions, attestations, nonceSeen, nextId, tokens>>

FlushCommits(w) ==
  /\ sessionRequests[w].kind = "attestation"
  /\ \A t \in attestations : t.nonce # sessionRequests[w].att.nonce
  /\ attestations' = attestations \cup {sessionRequests[w].att}
  /\ Proceed(w, [sessionRequests[w] EXCEPT !.kind = "delegation"])
  /\ UNCHANGED <<sessions, nonceSeen, nextId, tokens>>

\* INSERT INTO runtime_attestations.  The unique index refuses a committed nonce
\* (IntegrityError, 500, rolled back).  No other request in flight holds it: within
\* one life of the process NONCE_SEEN has kept them out.
FlushAttestation(w) ==
  /\ sessionRequests[w].kind = "attestation"
  /\ Proceed(w, IF \E t \in attestations : t.nonce = sessionRequests[w].att.nonce
                  THEN NoSessionRequest
                  ELSE [sessionRequests[w] EXCEPT !.kind = "delegation"])
  /\ UNCHANGED <<sessions, attestations, nonceSeen, nextId, tokens>>

UsableOnceGranted(d, a) == d = NoDelegation \/ delegations[d].agent = a
\* session_service.py 79-88
Usable(d, a) ==
  \/ d = NoDelegation
  \/ /\ delegations[d].agent = a
     /\ ~delegations[d].revoked
     /\ now <= delegations[d].expires

\* The delegation row is loaded and checked (else 400: the transaction, the
\* attestation row with it, is rolled back).  Then the session row is built and
\* flushed and its token signed.
FlushSession(w) ==
  /\ sessionRequests[w].kind = "delegation"
  /\ LET r == sessionRequests[w]
     IN  IF Usable(r.delegation, r.att.agent)
           THEN /\ Proceed(w,
                     [ kind |-> "respond", att |-> r.att,
                       row |-> [ id |-> nextId, agent |-> r.att.agent,
                                 delegation |-> r.delegation, nonce |-> r.att.nonce,
                                 issued |-> now, expires |-> now + r.ttl * Second,
                                 revoked |-> FALSE ] ])
                /\ nextId' = nextId + 1
           ELSE /\ Proceed(w, NoSessionRequest)
                /\ UNCHANGED nextId
  /\ UNCHANGED <<sessions, attestations, nonceSeen, tokens>>

\* The time t without its fraction of a second.
Whole(t) == t - (t % Second)

\* issue_session_token: jti = session.id, exp = int(session.expires_at.timestamp()).
TokenOf(row) == [id |-> row.id, agent |-> row.agent, expires |-> Whole(row.expires)]

\* 201 with the token.
Respond(w) ==
  /\ sessionRequests[w].kind = "respond"
  /\ tokens' = tokens \cup {TokenOf(sessionRequests[w].row)}
  /\ Proceed(w, [sessionRequests[w] EXCEPT !.kind = "commit"])
  /\ UNCHANGED <<sessions, attestations, nonceSeen, nextId>>

\* get_db commits the attestation and the session together.
CommitSession(w) ==
  /\ sessionRequests[w].kind = "commit"
  /\ sessions' = sessions \cup {sessionRequests[w].row}
  /\ attestations' = attestations \cup {sessionRequests[w].att}
  /\ Proceed(w, NoSessionRequest)
  /\ UNCHANGED <<nonceSeen, nextId, tokens>>

-----------------------------------------------------------------------------
(* revoke_session *)

BeginRevoke(w, s) ==
  /\ sessionRequests[w] = NoSessionRequest
  /\ ~s.revoked
  /\ Proceed(w, [kind |-> "revoke", id |-> s.id])
  /\ UNCHANGED <<sessions, attestations, nonceSeen, nextId, tokens>>

RevokedByExpiry(s) == [s EXCEPT !.revoked = TRUE, !.expires = now]
Revoked(s) == [s EXCEPT !.revoked = TRUE]

CommitRevokeDeletes(w) ==
  /\ sessionRequests[w].kind = "revoke"
  /\ sessions' = { s \in sessions : s.id # sessionRequests[w].id }
  /\ Proceed(w, NoSessionRequest)
  /\ UNCHANGED <<attestations, nonceSeen, nextId, tokens>>

CommitRevoke(w) ==
  /\ sessionRequests[w].kind = "revoke"
  /\ sessions' = { IF s.id = sessionRequests[w].id THEN Revoked(s) ELSE s : s \in sessions }
  /\ Proceed(w, NoSessionRequest)
  /\ UNCHANGED <<attestations, nonceSeen, nextId, tokens>>

-----------------------------------------------------------------------------
\* A database error or the client's departure: get_db rolls back.  At "commit"
\* the client already holds the token.
FailSession(w) ==
  /\ sessionRequests[w] # NoSessionRequest
  /\ Proceed(w, NoSessionRequest)
  /\ UNCHANGED <<sessions, attestations, nonceSeen, nextId, tokens>>

\* The next await of worker w's request returns.
AdvanceSession(w) ==
  \/ VerifyAttestation(w)
  \/ FlushAttestation(w)
  \/ FlushSession(w)
  \/ Respond(w)
  \/ CommitSession(w)
  \/ CommitRevoke(w)

SessionNext ==
  \E w \in SessionWorkers :
    \/ \E a \in Agents, e \in Evidence, d \in Delegations \cup {NoDelegation}, t \in RequestTtls :
         BeginSession(w, a, [evidence |-> e, delegation |-> d, ttl |-> t])
    \/ \E s \in sessions : BeginRevoke(w, s)
    \/ AdvanceSession(w)
    \/ FailSession(w)
=============================================================================
