------------------------------ MODULE TokenBroker ------------------------------
(***************************************************************************)
(* The token broker (apps/token_broker): POST /v1/token-exchange gives a   *)
(* downstream credential to whoever names a session.  ExchangeService gets *)
(* the credential from a provider first, then flushes a row of             *)
(* credential_leases; get_db commits it after the response has been sent.  *)
(* Both providers answer without an await; which one it is (the tool_id    *)
(* decides) changes what the secret looks like, and is left out.           *)
(***************************************************************************)
EXTENDS SessionService

CONSTANTS
  Exchangers,       \* requests in flight at once
  SessionIds,       \* session ids that clients name, known to the database or not
  LeaseTtl          \* 30 minutes

ASSUME BrokerAssumption ==
  SessionIds \subseteq Nat /\ LeaseTtl \in Nat \ {0}

VARIABLES
  leases,         \* table credential_leases (committed rows)
  credentials,    \* the credentials handed out
  exchanges       \* each request

brokerVars == <<leases, credentials, exchanges>>

Lease == [session : Nat, issued : Int, expires : Int]

NoExchange == [kind |-> "idle"]

\* "flush": the credential is issued, the INSERT of its lease sent.
\* "commit": the credential has been sent to the client.
Exchange == {NoExchange} \cup [kind : {"flush", "commit"}, lease : Lease]

BrokerTypeOK ==
  /\ leases \subseteq Lease
  /\ credentials \subseteq Lease
  /\ exchanges \in [Exchangers -> Exchange]

BrokerInit ==
  /\ leases = {}
  /\ credentials = {}
  /\ exchanges = [x \in Exchangers |-> NoExchange]

Stored(id) == \E s \in sessions : s.id = id

HandOut(x, lease) ==
  /\ credentials' = credentials \cup {lease}
  /\ exchanges' = [exchanges EXCEPT ![x] = [kind |-> "commit", lease |-> lease]]
  /\ UNCHANGED leases

Close(x) == exchanges' = [exchanges EXCEPT ![x] = NoExchange]

-----------------------------------------------------------------------------
\* exchange, up to the await of its flush.  (An id that is no uuid is a 400 and
\* changes nothing.)
BeginExchange(x, id) ==
  /\ exchanges[x] = NoExchange
  /\ exchanges' = [exchanges EXCEPT ![x] =
       [kind |-> "flush",
        lease |-> [session |-> id, issued |-> now, expires |-> now + LeaseTtl]]]
  /\ UNCHANGED <<leases, credentials>>

FlushUnreferenced(x) ==
  /\ exchanges[x].kind = "flush"
  /\ HandOut(x, exchanges[x].lease)

\* INSERT INTO credential_leases: the foreign key wants a committed session
\* (else IntegrityError, 500).  Then the response, with the credential, is sent.
FlushLease(x) ==
  /\ exchanges[x].kind = "flush"
  /\ IF Stored(exchanges[x].lease.session)
       THEN HandOut(x, exchanges[x].lease)
       ELSE Close(x) /\ UNCHANGED <<leases, credentials>>

\* get_db commits.
CommitLease(x) ==
  /\ exchanges[x].kind = "commit"
  /\ leases' = leases \cup {exchanges[x].lease}
  /\ Close(x)
  /\ UNCHANGED credentials

\* get_db rolls back, or the process died; at "commit" the credential is out.
FailExchange(x) ==
  /\ exchanges[x] # NoExchange
  /\ Close(x)
  /\ UNCHANGED <<leases, credentials>>

BrokerNext ==
  \E x \in Exchangers :
    \/ \E id \in SessionIds : BeginExchange(x, id)
    \/ FlushLease(x)
    \/ CommitLease(x)
    \/ FailExchange(x)

-----------------------------------------------------------------------------
(* Properties. *)

\* Every credential handed out, and every lease, names a session that was
\* committed: not a token's whose session was rolled back, not an invented one.
CredentialNeedsSession == \A l \in leases \cup credentials : Stored(l.session)
=============================================================================
