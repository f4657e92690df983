-------------------------- MODULE DelegationRegistry --------------------------
(***************************************************************************)
(* The delegation endpoints of the identity API (api/delegations.py):      *)
(* grant an agent a user's authority for a while, and withdraw it.         *)
(***************************************************************************)
EXTENDS UnitOfWork, Naturals

CONSTANTS
  Agents,
  Delegations,        \* grant ids the database can allocate
  DelegationTtls,     \* ttl_seconds of the grants
  DelegationWorkers,
  MaxTime             \* bound of the exploration on the clock

VARIABLES
  delegations,          \* table delegation_grants
  delegationRequests,   \* each worker's revocation, between its load and its commit
  now                   \* datetime.now(UTC), shared by every handler

Grant ==
  [ agent : Agents \cup {"none"}, expires : Nat, revoked : BOOLEAN ]

NoGrant == [agent |-> "none", expires |-> 0, revoked |-> FALSE]

Granted(d) == delegations[d] # NoGrant

NoRevocation == [kind |-> "idle"]

Revocation == {NoRevocation} \cup [kind : {"revoke"}, grant : Delegations, loaded : Grant]

DelegationTypeOK ==
  /\ delegations \in [Delegations -> Grant]
  /\ delegationRequests \in [DelegationWorkers -> Revocation]

DelegationInit ==
  /\ delegations = [d \in Delegations |-> NoGrant]
  /\ delegationRequests = [w \in DelegationWorkers |-> NoRevocation]

\* create_delegation: one INSERT and COMMIT.  The foreign key wants the agent.
CreateDelegation(d, a, ttl) ==
  /\ ~Granted(d)
  /\ delegations' = [delegations EXCEPT ![d] =
       [agent |-> a, expires |-> now + ttl, revoked |-> FALSE]]
  /\ UNCHANGED <<delegationRequests, now>>

\* revoke_delegation up to its commit: 404 unless it exists, 400 if revoked.
RevokeDelegation(w, d) ==
  /\ delegationRequests[w] = NoRevocation
  /\ Granted(d)
  /\ ~delegations[d].revoked
  /\ delegationRequests' = [delegationRequests EXCEPT ![w] =
       [kind |-> "revoke", grant |-> d, loaded |-> delegations[d]]]
  /\ UNCHANGED <<delegations, now>>

CommitRevocation(w) ==
  /\ delegationRequests[w].kind = "revoke"
  /\ LET r == delegationRequests[w]
     IN  delegations' = [delegations EXCEPT
           ![r.grant].revoked = Written(@, r.loaded.revoked, TRUE)]
  /\ delegationRequests' = [delegationRequests EXCEPT ![w] = NoRevocation]
  /\ UNCHANGED now

\* get_db rolls back.
FailRevocation(w) ==
  /\ delegationRequests[w] # NoRevocation
  /\ delegationRequests' = [delegationRequests EXCEPT ![w] = NoRevocation]
  /\ UNCHANGED <<delegations, now>>
=============================================================================
