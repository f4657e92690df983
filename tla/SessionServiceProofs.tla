------------------------- MODULE SessionServiceProofs --------------------------
(***************************************************************************)
(* The invariant of SessionService that the theorems about the identity API*)
(* and about the whole system rest on, for any number of requests, agents, *)
(* documents and grants, whatever the registries and the clock do.         *)
(***************************************************************************)
EXTENDS SessionService, TLAPS

\* Requests whose attestation is verified, is in the table (not committed), and whose
\* session row is built.
Verified == {"attestation", "delegation", "respond", "commit"}
Flushed  == {"delegation", "respond", "commit"}
Built    == {"respond", "commit"}

IsRow(s) ==
  s = [ id |-> s.id, agent |-> s.agent, delegation |-> s.delegation, nonce |-> s.nonce,
        issued |-> s.issued, expires |-> s.expires, revoked |-> s.revoked ]

IsRequest(r) ==
  /\ r.kind \in {"attestation", "delegation"} =>
       r = [kind |-> r.kind, att |-> r.att, ttl |-> r.ttl, delegation |-> r.delegation]
  /\ r.kind \in Built => r = [kind |-> r.kind, att |-> r.att, row |-> r.row]

\* A complete document of agent a carried nonce n.
Documented(n, a) == \E e \in Evidence : e.nonce = n /\ e.agent = a /\ e.complete

\* The attestation was fresh when it was verified, by time t.
VerifiedBy(att, t) ==
  /\ Distance(att.verifiedAt, att.issuedAt) <= MaxSkew
  /\ att.verifiedAt \in Int /\ att.verifiedAt <= t

\* Token t says what row s says, in whole seconds.
Agree(t, s) == t.id = s.id => t.agent = s.agent /\ t.expires = Whole(s.expires)

\* Row s was built from attestation att, under an id that is used up.
RowOK(s, att) ==
  /\ IsRow(s)
  /\ s.id \in Nat /\ s.id < nextId
  /\ s.nonce = att.nonce /\ s.agent = att.agent
  /\ s.issued \in Int /\ s.issued <= now
  /\ VerifiedBy(att, s.issued)

\* What holds of one request in flight: what it holds is nobody else's yet.
RequestOK(r) ==
  /\ IsRequest(r)
  /\ r.kind = "load" => r.ask.evidence \in Evidence
  /\ r.kind \in Verified => /\ VerifiedBy(r.att, now) /\ Documented(r.att.nonce, r.att.agent)
                            /\ r.att.nonce \in nonceSeen
  /\ r.kind \in Flushed => \A t \in attestations : t.nonce # r.att.nonce
  /\ r.kind \in Built =>
       /\ RowOK(r.row, r.att)
       /\ \A s \in sessions : s.id # r.row.id
       /\ \A t \in tokens : Agree(t, r.row)

\* Two requests share neither a verified nonce nor a session id.
Apart(q, r) ==
  /\ q.kind \in Verified /\ r.kind \in Verified => q.att.nonce # r.att.nonce
  /\ q.kind \in Built /\ r.kind \in Built => q.row.id # r.row.id

\* What holds of one stored session.
StoredOK(s) ==
  /\ \E t \in attestations : RowOK(s, t)
  /\ Documented(s.nonce, s.agent)
  /\ \A t \in tokens : Agree(t, s)

\* A session was opened with attestation t.
HasSession(t) == \E s \in sessions : s.nonce = t.nonce /\ s.agent = t.agent

SessionInv ==
  /\ nextId \in Nat /\ now \in Int
  /\ DOMAIN sessionRequests = SessionWorkers
  /\ \A t \in tokens : t.id \in Nat /\ t.id < nextId
  /\ \A s \in sessions : StoredOK(s)
  /\ \A s, t \in sessions : s.id = t.id \/ s.nonce # t.nonce
  /\ \A t \in attestations : HasSession(t)
  /\ \A w \in SessionWorkers : RequestOK(sessionRequests[w])
  /\ \A v, w \in SessionWorkers : v # w => Apart(sessionRequests[v], sessionRequests[w])

-----------------------------------------------------------------------------
\* A step that gives worker w the request r and touches no table; NONCE_SEEN may grow.
LEMMA OneRequest ==
  ASSUME SessionInv, NEW w \in SessionWorkers, NEW r,
         sessionRequests' = [sessionRequests EXCEPT ![w] = r],
         UNCHANGED <<sessions, attestations, nextId, tokens, now>>,
         nonceSeen \subseteq nonceSeen', RequestOK(r)', \A v \in SessionWorkers \ {w} : Apart(sessionRequests[v], r)
  PROVE  SessionInv'
<1>2. ASSUME NEW v \in SessionWorkers \ {w}
      PROVE  RequestOK(sessionRequests[v])'
  <2> PICK x : x = sessionRequests[v]
    OBVIOUS
  <2>1. RequestOK(x) /\ sessionRequests'[v] = x
    BY DEF SessionInv
  <2>2. RequestOK(x)'
    BY <2>1 DEF RequestOK, RowOK
  <2> QED BY <2>1, <2>2
<1>3. \A v \in SessionWorkers : RequestOK(sessionRequests[v])'
  BY <1>2 DEF SessionInv
<1>4. \A v \in SessionWorkers \ {w} : Apart(r, sessionRequests[v])
  BY DEF Apart
<1>5. \A u, v \in SessionWorkers : u # v => Apart(sessionRequests'[u], sessionRequests'[v])
  BY <1>4 DEF SessionInv
<1>6. \A s \in sessions' : StoredOK(s)'
  BY DEF SessionInv, StoredOK, RowOK
<1> QED BY <1>3, <1>5, <1>6 DEF SessionInv, HasSession

\* A request that holds nothing yet is apart from every other.
LEMMA NothingHeld ==
  ASSUME NEW q, NEW r, r.kind \notin Verified
  PROVE  Apart(q, r)
BY DEF Apart, Verified, Built

LEMMA IdleOK ==
  RequestOK(NoSessionRequest)' /\ NoSessionRequest.kind \notin Verified
BY DEF NoSessionRequest, RequestOK, IsRequest, Verified, Flushed, Built

\* Rolling back, and the beginnings of requests.
LEMMA LightStep ==
  ASSUME SessionInv, now' = now, NEW w \in SessionWorkers,
         \/ \E e \in Evidence : \E a, d, t :
              BeginSession(w, a, [evidence |-> e, delegation |-> d, ttl |-> t])
         \/ \E s : BeginRevoke(w, s)
         \/ FailSession(w)
  PROVE  SessionInv'
<1>1. ASSUME NEW a, NEW e \in Evidence, NEW d, NEW t,
             BeginSession(w, a, [evidence |-> e, delegation |-> d, ttl |-> t])
      PROVE  SessionInv'
  <2>1. PICK r : /\ r.kind = "load" /\ r.ask.evidence \in Evidence
                 /\ sessionRequests' = [sessionRequests EXCEPT ![w] = r]
    <3> DEFINE r == [kind |-> "load", agent |-> a, key |-> agents[a].key,
                     ask |-> [evidence |-> e, delegation |-> d, ttl |-> t]]
    <3>1. r.kind = "load" /\ r.ask.evidence \in Evidence
      OBVIOUS
    <3>2. sessionRequests' = [sessionRequests EXCEPT ![w] = r]
      BY <1>1 DEF BeginSession, Proceed
    <3> QED BY <3>1, <3>2
  <2>2. RequestOK(r)' /\ r.kind \notin Verified
    BY <2>1 DEF RequestOK, IsRequest, Verified, Flushed, Built
  <2> QED BY <1>1, <2>1, <2>2, OneRequest, NothingHeld DEF BeginSession
<1>2. ASSUME NEW s, BeginRevoke(w, s)
      PROVE  SessionInv'
  <2> PICK r : r = [kind |-> "revoke", id |-> s.id]
    OBVIOUS
  <2>1. RequestOK(r)' /\ r.kind \notin Verified
    BY DEF RequestOK, IsRequest, Verified, Flushed, Built
  <2>2. sessionRequests' = [sessionRequests EXCEPT ![w] = r]
    BY <1>2 DEF BeginRevoke, Proceed
  <2> QED BY <1>2, <2>1, <2>2, OneRequest, NothingHeld DEF BeginRevoke
<1>3. ASSUME FailSession(w)
      PROVE  SessionInv'
  BY <1>3, OneRequest, NothingHeld, IdleOK DEF FailSession, Proceed
<1> QED BY <1>1, <1>2, <1>3

\* A verified document was complete, of this agent, and fresh, and its nonce is no
\* other request's, since NONCE_SEEN holds all of theirs.
LEMMA VerifyStep ==
  ASSUME SessionInv, now' = now, NEW w \in SessionWorkers, VerifyAttestation(w)
  PROVE  SessionInv'
<1> DEFINE r  == sessionRequests[w]
           e  == r.ask.evidence
           bp == blueprints[agents[r.agent].blueprint]
<1> PICK q : q = [ kind |-> "attestation",
                   att |-> [nonce |-> e.nonce, agent |-> r.agent,
                            issuedAt |-> e.issuedAt, verifiedAt |-> now],
                   ttl |-> SessionTtl(r.ask.ttl, bp.ttl), delegation |-> r.ask.delegation ]
  OBVIOUS
<1>1. e \in Evidence /\ now \in Int
  BY DEF VerifyAttestation, SessionInv, RequestOK
<1>2. CASE /\ MayOpenUnder(bp) /\ Authentic(e, r.key) /\ Accepted(e, r.agent)
           /\ sessionRequests' = [sessionRequests EXCEPT ![w] = q]
  <2>1. /\ VerifiedBy(q.att, now) /\ Documented(q.att.nonce, q.att.agent)
        /\ nonceSeen' = nonceSeen \cup {q.att.nonce} /\ q.att.nonce \notin nonceSeen
    <3>1. /\ q.att.nonce = e.nonce /\ q.att.agent = r.agent
          /\ q.att.issuedAt = e.issuedAt /\ q.att.verifiedAt = now
      OBVIOUS
    <3>2. VerifiedBy(q.att, now)
      BY <1>1, <1>2, <3>1 DEF Authentic, Fresh, VerifiedBy
    <3>3. Documented(q.att.nonce, q.att.agent) /\ q.att.nonce \notin nonceSeen
      BY <1>1, <1>2, <3>1 DEF Accepted, Documented
    <3>4. nonceSeen' = nonceSeen \cup {q.att.nonce}
      BY <1>2, <3>1 DEF VerifyAttestation
    <3> QED BY <3>2, <3>3, <3>4
  <2>2. RequestOK(q)'
    BY <2>1 DEF RequestOK, IsRequest, Verified, Flushed, Built
  <2>3. \A v \in SessionWorkers \ {w} : Apart(sessionRequests[v], q)
    BY <2>1 DEF SessionInv, RequestOK, Apart, Verified, Built
  <2> QED BY <1>2, <2>1, <2>2, <2>3, OneRequest DEF VerifyAttestation
<1>3. CASE sessionRequests' = [sessionRequests EXCEPT ![w] = NoSessionRequest]
  <2>1. nonceSeen \subseteq nonceSeen'
    BY DEF VerifyAttestation
  <2> QED BY <1>3, <2>1, IdleOK, OneRequest, NothingHeld DEF VerifyAttestation
<1> QED BY <1>2, <1>3 DEF VerifyAttestation, Proceed

\* The unique index lets a nonce in that is not stored.
LEMMA FlushAttestationStep ==
  ASSUME SessionInv, now' = now, NEW w \in SessionWorkers, FlushAttestation(w)
  PROVE  SessionInv'
<1> PICK r : r = sessionRequests[w]
  OBVIOUS
<1> PICK q : q = [r EXCEPT !.kind = "delegation"]
  OBVIOUS
<1>1. RequestOK(r) /\ r.kind = "attestation"
  BY DEF FlushAttestation, SessionInv
<1>2. q = [kind |-> "delegation", att |-> r.att, ttl |-> r.ttl, delegation |-> r.delegation]
  BY <1>1 DEF RequestOK, IsRequest
<1>3. CASE /\ \A t \in attestations : t.nonce # r.att.nonce
           /\ sessionRequests' = [sessionRequests EXCEPT ![w] = q]
  <2>1. RequestOK(q)'
    BY <1>1, <1>2, <1>3 DEF FlushAttestation, RequestOK, IsRequest, Verified, Flushed, Built
  <2>2. \A v \in SessionWorkers \ {w} : Apart(sessionRequests[v], q)
    <3> TAKE v \in SessionWorkers \ {w}
    <3>1. Apart(sessionRequests[v], r)
      BY DEF SessionInv
    <3> QED BY <1>1, <1>2, <3>1 DEF Apart, Verified, Built
  <2> QED BY <1>3, <2>1, <2>2, OneRequest DEF FlushAttestation
<1>4. CASE sessionRequests' = [sessionRequests EXCEPT ![w] = NoSessionRequest]
  BY <1>4, IdleOK, OneRequest, NothingHeld DEF FlushAttestation
<1> QED BY <1>3, <1>4 DEF FlushAttestation, Proceed

-----------------------------------------------------------------------------
(* The steps that use up an id, hand out a token, or write a table. *)

\* nextId grows: what was below it stays below it.
LEMMA FlushSessionStep ==
  ASSUME SessionInv, now' = now, NEW w \in SessionWorkers, FlushSession(w)
  PROVE  SessionInv'
<1> PICK r : r = sessionRequests[w]
  OBVIOUS
<1> PICK row : row = [ id |-> nextId, agent |-> r.att.agent, delegation |-> r.delegation,
                       nonce |-> r.att.nonce, issued |-> now, expires |-> now + r.ttl * Second,
                       revoked |-> FALSE ]
  OBVIOUS
<1> PICK q : q = [kind |-> "respond", att |-> r.att, row |-> row]
  OBVIOUS
<1>1. RequestOK(r) /\ r.kind = "delegation" /\ nextId \in Nat /\ now \in Int
  BY DEF FlushSession, SessionInv
<1>2. CASE /\ sessionRequests' = [sessionRequests EXCEPT ![w] = q]
           /\ nextId' = nextId + 1
  <2>1. /\ UNCHANGED <<sessions, attestations, nonceSeen, tokens, now>>
        /\ sessionRequests'[w] = q
        /\ \A v \in SessionWorkers \ {w} : sessionRequests'[v] = sessionRequests[v]
        /\ DOMAIN sessionRequests' = SessionWorkers
    BY <1>2 DEF FlushSession, SessionInv
  <2>2. \A s \in sessions : s.id \in Nat /\ s.id < nextId
    BY DEF SessionInv, StoredOK, RowOK
  <2>3. \A s \in sessions : StoredOK(s)'
    <3> TAKE s \in sessions
    <3>1. StoredOK(s)
      BY DEF SessionInv
    <3> QED BY <1>1, <1>2, <2>1, <3>1 DEF StoredOK, RowOK
  <2>4. ASSUME NEW v \in SessionWorkers \ {w}
        PROVE  RequestOK(sessionRequests[v])'
    <3>1. RequestOK(sessionRequests[v])
      BY DEF SessionInv
    <3> QED BY <1>1, <1>2, <2>1, <3>1 DEF RequestOK, RowOK
  <2>5. RowOK(row, r.att)'
    BY <1>1, <1>2, <2>1 DEF RequestOK, Verified, RowOK, IsRow, VerifiedBy
  <2>6. \A t \in tokens : Agree(t, row)
    BY <1>1 DEF SessionInv, Agree
  <2>7. \A s \in sessions : s.id # row.id
    BY <1>1, <2>2
  <2>8. RequestOK(q)'
    <3>1. q.kind = "respond" /\ q.att = r.att /\ q.row = row
      OBVIOUS
    <3>2. /\ VerifiedBy(q.att, now) /\ Documented(q.att.nonce, q.att.agent)
          /\ q.att.nonce \in nonceSeen
          /\ \A t \in attestations : t.nonce # q.att.nonce
      BY <1>1, <3>1 DEF RequestOK, Verified, Flushed
    <3>3. IsRequest(q)
      BY <3>1 DEF IsRequest, Built
    <3>4. q.kind # "load"
      BY <3>1
    <3> QED BY <2>1, <2>5, <2>6, <2>7, <3>1, <3>2, <3>3, <3>4 DEF RequestOK
  <2>9. \A v \in SessionWorkers \ {w} :
          Apart(sessionRequests[v], q) /\ Apart(q, sessionRequests[v])
    <3> TAKE v \in SessionWorkers \ {w}
    <3>1. Apart(sessionRequests[v], r) /\ RequestOK(sessionRequests[v])
      BY DEF SessionInv
    <3>2. sessionRequests[v].kind \in Built =>
            sessionRequests[v].row.id \in Nat /\ sessionRequests[v].row.id < nextId
      BY <3>1 DEF RequestOK, RowOK
    <3> QED BY <1>1, <3>1, <3>2 DEF Apart, Verified, Built
  <2>10. \A t \in tokens : t.id \in Nat /\ t.id < nextId'
    BY <1>1, <1>2 DEF SessionInv
  <2>11. \A v \in SessionWorkers : RequestOK(sessionRequests[v])'
    BY <2>1, <2>4, <2>8
  <2>12. \A u, v \in SessionWorkers : u # v => Apart(sessionRequests'[u], sessionRequests'[v])
    BY <2>1, <2>9 DEF SessionInv
  <2>13. nextId' \in Nat /\ now' \in Int
    BY <1>1, <1>2, <2>1
  <2>14. \A s, t \in sessions' : s.id = t.id \/ s.nonce # t.nonce
    BY <2>1 DEF SessionInv
  <2>15. \A s \in sessions' : StoredOK(s)'
    BY <2>1, <2>3
  <2>16. \A t \in tokens' : t.id \in Nat /\ t.id < nextId'
    BY <2>1, <2>10
  <2> QED BY <2>1, <2>11, <2>12, <2>13, <2>14, <2>15, <2>16 DEF SessionInv, HasSession
<1>3. CASE /\ sessionRequests' = [sessionRequests EXCEPT ![w] = NoSessionRequest]
           /\ nextId' = nextId
  BY <1>3, IdleOK, OneRequest, NothingHeld DEF FlushSession
<1> QED BY <1>2, <1>3 DEF FlushSession, Proceed
\* The token is out: its session row says the same, and no other row has its id.
LEMMA RespondStep ==
  ASSUME SessionInv, now' = now, NEW w \in SessionWorkers, Respond(w)
  PROVE  SessionInv'
<1> PICK r : r = sessionRequests[w]
  OBVIOUS
<1> PICK q : q = [r EXCEPT !.kind = "commit"]
  OBVIOUS
<1> PICK t : t = TokenOf(r.row)
  OBVIOUS
<1>1. RequestOK(r) /\ r.kind = "respond"
  BY DEF Respond, SessionInv
<1>2. /\ UNCHANGED <<sessions, attestations, nonceSeen, nextId, now>>
      /\ tokens' = tokens \cup {t}
      /\ sessionRequests' = [sessionRequests EXCEPT ![w] = q]
  BY DEF Respond, Proceed
<1>3. q.kind = "commit" /\ q.att = r.att /\ q.row = r.row /\ IsRequest(q)
  BY <1>1 DEF RequestOK, IsRequest, Built
<1>4. /\ sessionRequests'[w] = q
      /\ \A v \in SessionWorkers \ {w} : sessionRequests'[v] = sessionRequests[v]
      /\ DOMAIN sessionRequests' = SessionWorkers
  BY <1>2 DEF SessionInv
<1>5. /\ RowOK(r.row, r.att)
      /\ \A s \in sessions : s.id # r.row.id
      /\ \A u \in tokens : Agree(u, r.row)
  BY <1>1 DEF RequestOK, Built
<1>6. ASSUME NEW v \in SessionWorkers \ {w}
      PROVE  RequestOK(sessionRequests[v])'
  <2> PICK x : x = sessionRequests[v]
    OBVIOUS
  <2>1. RequestOK(x) /\ Apart(r, x) /\ sessionRequests'[v] = x
    BY <1>4 DEF SessionInv
  <2>2. x.kind \in Built => Agree(t, x.row)
    BY <1>1, <2>1 DEF Apart, Agree, Built, TokenOf
  <2>3. x.kind \in Built => RowOK(x.row, x.att)'
    BY <1>2, <2>1 DEF RequestOK, RowOK
  <2>4. RequestOK(x)'
    BY <1>2, <2>1, <2>2, <2>3 DEF RequestOK
  <2> QED BY <2>1, <2>4
<1>7. RequestOK(q)'
  <2>1. Agree(t, q.row)
    BY <1>3 DEF Agree, TokenOf
  <2>2. RowOK(q.row, q.att)'
    BY <1>2, <1>3, <1>5 DEF RowOK
  <2>3. /\ VerifiedBy(q.att, now) /\ Documented(q.att.nonce, q.att.agent)
        /\ q.att.nonce \in nonceSeen
        /\ \A u \in attestations : u.nonce # q.att.nonce
    BY <1>1, <1>3 DEF RequestOK, Verified, Flushed
  <2>4. q.kind # "load"
    BY <1>3
  <2> QED BY <1>2, <1>3, <1>5, <2>1, <2>2, <2>3, <2>4 DEF RequestOK
<1>8. \A v \in SessionWorkers : RequestOK(sessionRequests[v])'
  BY <1>4, <1>6, <1>7
<1>9. \A u, v \in SessionWorkers : u # v => Apart(sessionRequests'[u], sessionRequests'[v])
  <2>1. \A v \in SessionWorkers \ {w} : Apart(r, sessionRequests[v]) /\ Apart(sessionRequests[v], r)
    BY DEF SessionInv
  <2>2. \A v \in SessionWorkers \ {w} : Apart(q, sessionRequests[v]) /\ Apart(sessionRequests[v], q)
    BY <1>1, <1>3, <2>1 DEF Apart, Verified, Built
  <2> QED BY <1>4, <2>2 DEF SessionInv
<1>10. ASSUME NEW s \in sessions PROVE StoredOK(s)'
  <2>1. StoredOK(s) /\ Agree(t, s)
    BY <1>5 DEF SessionInv, Agree, TokenOf
  <2> QED BY <1>2, <2>1 DEF StoredOK, RowOK
<1>11. \A u \in tokens' : u.id \in Nat /\ u.id < nextId'
  BY <1>2, <1>5 DEF SessionInv, RowOK, TokenOf
<1> QED BY <1>2, <1>4, <1>8, <1>9, <1>10, <1>11 DEF SessionInv, HasSession

\* Attestation and session are stored together; the nonce was nobody else's.
LEMMA CommitSessionStep ==
  ASSUME SessionInv, now' = now, NEW w \in SessionWorkers, CommitSession(w)
  PROVE  SessionInv'
<1> PICK r : r = sessionRequests[w]
  OBVIOUS
<1>1. RequestOK(r) /\ r.kind = "commit"
  BY DEF CommitSession, SessionInv
<1>2. /\ UNCHANGED <<tokens, nonceSeen, nextId, now>>
      /\ sessions' = sessions \cup {r.row} /\ attestations' = attestations \cup {r.att}
      /\ sessionRequests' = [sessionRequests EXCEPT ![w] = NoSessionRequest]
  BY DEF CommitSession, Proceed
<1>3. /\ sessionRequests'[w] = NoSessionRequest
      /\ \A v \in SessionWorkers \ {w} : sessionRequests'[v] = sessionRequests[v]
      /\ DOMAIN sessionRequests' = SessionWorkers
  BY <1>2 DEF SessionInv
<1>4. /\ RowOK(r.row, r.att) /\ Documented(r.att.nonce, r.att.agent)
      /\ \A s \in sessions : s.id # r.row.id
      /\ \A t \in tokens : Agree(t, r.row)
      /\ \A t \in attestations : t.nonce # r.att.nonce
  BY <1>1 DEF RequestOK, Built, Verified, Flushed
<1>5. ASSUME NEW v \in SessionWorkers \ {w}
      PROVE  RequestOK(sessionRequests[v])'
  <2> PICK x : x = sessionRequests[v]
    OBVIOUS
  <2>1. RequestOK(x) /\ Apart(r, x) /\ sessionRequests'[v] = x
    BY <1>3 DEF SessionInv
  <2>2. /\ x.kind \in Flushed => x.att.nonce # r.att.nonce
        /\ x.kind \in Built => x.row.id # r.row.id
    BY <1>1, <2>1 DEF Apart, Verified, Flushed, Built
  <2>3. x.kind \in Built => RowOK(x.row, x.att)'
    BY <1>2, <2>1 DEF RequestOK, RowOK
  <2>4. RequestOK(x)'
    BY <1>2, <2>1, <2>2, <2>3 DEF RequestOK
  <2> QED BY <2>1, <2>4
<1>6. RequestOK(NoSessionRequest)'
  BY DEF NoSessionRequest, RequestOK, IsRequest, Verified, Flushed, Built
<1>7. \A v \in SessionWorkers : RequestOK(sessionRequests[v])'
  BY <1>3, <1>5, <1>6
<1>8. \A u, v \in SessionWorkers : u # v => Apart(sessionRequests'[u], sessionRequests'[v])
  BY <1>3 DEF SessionInv, Apart, NoSessionRequest, Verified, Built
<1>9. ASSUME NEW s \in sessions PROVE StoredOK(s)'
  <2>1. StoredOK(s)
    BY DEF SessionInv
  <2> QED BY <1>2, <2>1 DEF StoredOK, RowOK
<1>10. StoredOK(r.row)'
  <2>1. RowOK(r.row, r.att)'
    BY <1>2, <1>4 DEF RowOK
  <2>2. Documented(r.row.nonce, r.row.agent)
    BY <1>4 DEF RowOK
  <2> QED BY <1>2, <1>4, <2>1, <2>2 DEF StoredOK
<1>11. \A s \in sessions : s.nonce # r.row.nonce
  BY <1>4 DEF SessionInv, StoredOK, RowOK
<1>12. \A s, t \in sessions' : s.id = t.id \/ s.nonce # t.nonce
  BY <1>2, <1>11 DEF SessionInv
<1>13. \A s \in sessions' : StoredOK(s)'
  BY <1>2, <1>9, <1>10
<1>14. /\ nextId' \in Nat /\ now' \in Int
       /\ \A t \in tokens' : t.id \in Nat /\ t.id < nextId'
  BY <1>2 DEF SessionInv
<1>15. \A t \in attestations' : HasSession(t)'
  BY <1>2, <1>4 DEF SessionInv, HasSession, RowOK
<1> QED BY <1>3, <1>7, <1>8, <1>12, <1>13, <1>14, <1>15 DEF SessionInv

\* A row that differs at most by its revocation.
SameRow(s, t) ==
  /\ s.id = t.id /\ s.agent = t.agent /\ s.nonce = t.nonce
  /\ s.issued = t.issued /\ s.expires = t.expires
  /\ IsRow(s)

LEMMA RevokedSameRow ==
  ASSUME NEW s, IsRow(s)
  PROVE  SameRow(Revoked(s), s) /\ SameRow(s, s)
<1>1. Revoked(s) = [ id |-> s.id, agent |-> s.agent, delegation |-> s.delegation,
                     nonce |-> s.nonce, issued |-> s.issued, expires |-> s.expires,
                     revoked |-> TRUE ]
  <2>1. s \in [ id : {s.id}, agent : {s.agent}, delegation : {s.delegation}, nonce : {s.nonce},
                 issued : {s.issued}, expires : {s.expires}, revoked : {s.revoked} ]
    BY DEF IsRow
  <2>2. Revoked(s) \in [ id : {s.id}, agent : {s.agent}, delegation : {s.delegation},
                         nonce : {s.nonce}, issued : {s.issued}, expires : {s.expires},
                         revoked : {TRUE} ]
    BY <2>1 DEF Revoked
  <2> QED BY <2>2
<1>2. IsRow(Revoked(s))
  BY <1>1 DEF IsRow
<1> QED BY <1>1, <1>2 DEF SameRow

\* Revocation changes no column but revoked_at.
LEMMA RevokeKeepsRows ==
  ASSUME SessionInv, NEW w \in SessionWorkers, CommitRevoke(w)
  PROVE  /\ \A s \in sessions' : \E t \in sessions : SameRow(s, t)
         /\ \A t \in sessions : \E s \in sessions' : SameRow(s, t)
<1>1. sessions' = { IF s.id = sessionRequests[w].id THEN Revoked(s) ELSE s : s \in sessions }
  BY DEF CommitRevoke
<1>2. \A s \in sessions : IsRow(s)
  BY DEF SessionInv, StoredOK, RowOK
<1> QED BY <1>1, <1>2, RevokedSameRow

LEMMA CommitRevokeStep ==
  ASSUME SessionInv, now' = now, NEW w \in SessionWorkers, CommitRevoke(w)
  PROVE  SessionInv'
<1>1. /\ UNCHANGED <<attestations, nonceSeen, tokens, nextId, now>>
      /\ sessionRequests' = [sessionRequests EXCEPT ![w] = NoSessionRequest]
  BY DEF CommitRevoke, Proceed
<1>2. /\ sessionRequests'[w] = NoSessionRequest
      /\ \A v \in SessionWorkers \ {w} : sessionRequests'[v] = sessionRequests[v]
      /\ DOMAIN sessionRequests' = SessionWorkers
  BY <1>1 DEF SessionInv
<1>3. \A s \in sessions' : \E t \in sessions : SameRow(s, t)
  BY RevokeKeepsRows
<1>4. ASSUME NEW s \in sessions' PROVE StoredOK(s)'
  <2>1. PICK t \in sessions : SameRow(s, t) /\ StoredOK(t)
    BY <1>3 DEF SessionInv
  <2>2. \A u \in tokens : Agree(u, s)
    BY <2>1 DEF StoredOK, Agree, SameRow
  <2>3. Documented(s.nonce, s.agent)
    BY <2>1 DEF StoredOK, SameRow
  <2>4. PICK u \in attestations : RowOK(t, u)
    BY <2>1 DEF StoredOK
  <2>5. RowOK(s, u)'
    BY <1>1, <2>1, <2>4 DEF RowOK, SameRow
  <2> QED BY <1>1, <2>2, <2>3, <2>5 DEF StoredOK
<1>5. \A s, t \in sessions' : s.id = t.id \/ s.nonce # t.nonce
  <2> TAKE s, t \in sessions'
  <2>1. PICK x \in sessions, y \in sessions : SameRow(s, x) /\ SameRow(t, y)
    BY <1>3
  <2> QED BY <2>1 DEF SameRow, SessionInv
<1>6. ASSUME NEW v \in SessionWorkers \ {w}
      PROVE  RequestOK(sessionRequests[v])'
  <2> PICK x : x = sessionRequests[v]
    OBVIOUS
  <2>1. RequestOK(x) /\ sessionRequests'[v] = x
    BY <1>2 DEF SessionInv
  <2>2. x.kind \in Built => RowOK(x.row, x.att)' /\ \A s \in sessions' : s.id # x.row.id
    BY <1>1, <1>3, <2>1 DEF RequestOK, RowOK, SameRow
  <2>3. RequestOK(x)'
    BY <1>1, <2>1, <2>2 DEF RequestOK
  <2> QED BY <2>1, <2>3
<1>7. RequestOK(NoSessionRequest)'
  BY DEF NoSessionRequest, RequestOK, IsRequest, Verified, Flushed, Built
<1>8. \A v \in SessionWorkers : RequestOK(sessionRequests[v])'
  BY <1>2, <1>6, <1>7
<1>9. \A u, v \in SessionWorkers : u # v => Apart(sessionRequests'[u], sessionRequests'[v])
  BY <1>2 DEF SessionInv, Apart, NoSessionRequest, Verified, Built
<1>10. /\ nextId' \in Nat /\ now' \in Int
       /\ \A t \in tokens' : t.id \in Nat /\ t.id < nextId'
  BY <1>1 DEF SessionInv
<1>11. \A t \in attestations' : HasSession(t)'
  <2>1. \A t \in sessions : \E s \in sessions' : SameRow(s, t)
    BY RevokeKeepsRows
  <2> QED BY <1>1, <2>1 DEF SessionInv, HasSession, SameRow
<1> QED BY <1>2, <1>4, <1>5, <1>8, <1>9, <1>10, <1>11 DEF SessionInv

-----------------------------------------------------------------------------
\* Every step of the session service keeps the invariant.
LEMMA SessionStep == SessionInv /\ SessionNext /\ now' = now => SessionInv'
<1> SUFFICES ASSUME SessionInv, SessionNext, now' = now
             PROVE  SessionInv'
  OBVIOUS
<1>1. ASSUME NEW w \in SessionWorkers, NEW a, NEW e \in Evidence, NEW d, NEW t,
             BeginSession(w, a, [evidence |-> e, delegation |-> d, ttl |-> t])
      PROVE  SessionInv'
  BY <1>1, LightStep
<1>2. ASSUME NEW w \in SessionWorkers, NEW s, BeginRevoke(w, s)
      PROVE  SessionInv'
  BY <1>2, LightStep
<1>3. ASSUME NEW w \in SessionWorkers, AdvanceSession(w) \/ FailSession(w)
      PROVE  SessionInv'
  BY <1>3, LightStep, VerifyStep, FlushAttestationStep, FlushSessionStep, RespondStep,
     CommitSessionStep, CommitRevokeStep
  DEF AdvanceSession
<1> QED BY <1>1, <1>2, <1>3 DEF SessionNext

\* Time passes; nothing else does.
LEMMA SessionWait ==
  ASSUME SessionInv, now' \in Int, now <= now',
         UNCHANGED <<sessions, attestations, nonceSeen, nextId, tokens, sessionRequests>>
  PROVE  SessionInv'
<1>1. ASSUME NEW w \in SessionWorkers PROVE RequestOK(sessionRequests[w])'
  <2> PICK x : x = sessionRequests[w]
    OBVIOUS
  <2>1. RequestOK(x) /\ sessionRequests'[w] = x
    BY DEF SessionInv
  <2>2. x.kind \in Verified => VerifiedBy(x.att, now')
    BY <2>1 DEF RequestOK, VerifiedBy, SessionInv
  <2>3. x.kind \in Built => RowOK(x.row, x.att)'
    <3>1. now \in Int /\ (x.kind \in Built => RowOK(x.row, x.att))
      BY <2>1 DEF SessionInv, RequestOK
    <3> QED BY <3>1 DEF RowOK
  <2>4. RequestOK(x)'
    BY <2>1, <2>2, <2>3 DEF RequestOK
  <2> QED BY <2>1, <2>4
<1>2. ASSUME NEW s \in sessions PROVE StoredOK(s)'
  <2>1. StoredOK(s) /\ now \in Int
    BY DEF SessionInv
  <2>2. PICK t \in attestations : RowOK(s, t)
    BY <2>1 DEF StoredOK
  <2>3. RowOK(s, t)'
    BY <2>1, <2>2 DEF RowOK
  <2> QED BY <2>1, <2>3 DEF StoredOK
<1> QED BY <1>1, <1>2 DEF SessionInv, HasSession

LEMMA SessionStart == SessionInit /\ now = 0 => SessionInv
BY DEF SessionInit, SessionInv, NoSessionRequest, RequestOK, IsRequest, Verified, Flushed,
       Built, Apart, HasSession
=============================================================================
