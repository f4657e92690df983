---------------------------- MODULE AgentRegistry -----------------------------
(***************************************************************************)
(* The agent endpoints of the identity API (apps/identity_api/api/agents.py*)
(* over repositories/agent_repo.py): register, activate, suspend, revoke   *)
(* and rotate-key, run by concurrent administrators' requests.             *)
(*                                                                         *)
(* A handler is cut at its awaits: it loads a row and decides (first       *)
(* action), then flushes and commits (InsertAgent, UpdateAgent).  Whatever *)
(* runs in between is another request's action.  An error answer (404,     *)
(* 400) changes nothing and is not a step.                                 *)
(***************************************************************************)
EXTENDS UnitOfWork

CONSTANTS
  Agents,       \* agent ids the database can allocate
  Blueprints,   \* blueprint ids
  Keys,         \* public keys a caller may register
  NoKey,        \* agent_identities.public_key IS NULL
  Workers       \* requests that can be in flight at once

ASSUME NoKeyAssumption == NoKey \notin Keys

VARIABLES
  agents,            \* table agent_identities
  activeBlueprints,  \* blueprints whose row has status ACTIVE; BlueprintRegistry owns them
  requests           \* each worker's request, between its load and its commit

vars == <<agents, activeBlueprints, requests>>

\* Lifecycle states that AgentStatus declares; "absent" is an id with no row.
AgentStatus ==
  {"draft", "pending_approval", "active", "suspended", "revoked", "decommissioned"}

\* The *_at columns are kept as "is not NULL".
AgentRow ==
  [ status    : AgentStatus \cup {"absent"},
    blueprint : Blueprints \cup {"none"},
    key       : Keys \cup {NoKey},
    activated : BOOLEAN,
    suspended : BOOLEAN,
    revoked   : BOOLEAN ]

NoAgent ==
  [ status |-> "absent", blueprint |-> "none", key |-> NoKey,
    activated |-> FALSE, suspended |-> FALSE, revoked |-> FALSE ]

Exists(a) == agents[a].status # "absent"

Idle == [kind |-> "idle"]

Request ==
  {Idle} \cup [kind : {"insert"}, row : AgentRow]
         \cup [kind : {"update"}, agent : Agents, loaded : AgentRow, edited : AgentRow]

TypeOK ==
  /\ agents \in [Agents -> AgentRow]
  /\ activeBlueprints \subseteq Blueprints
  /\ requests \in [Workers -> Request]

Init ==
  /\ agents = [a \in Agents |-> NoAgent]
  /\ activeBlueprints = {}
  /\ requests = [w \in Workers |-> Idle]

-----------------------------------------------------------------------------
(* The handlers, each up to the await of its commit. *)

NewAgentUnset(b, k) == [NoAgent EXCEPT !.status = "unset", !.blueprint = b, !.key = k]

\* The row AgentIdentity(...) builds; status has the column default DRAFT.
NewAgent(b, k) == [NoAgent EXCEPT !.status = "draft", !.blueprint = b, !.key = k]

\* create_agent: the blueprint is loaded and must be active.  (That an id is
\* left bounds the exploration.)
CreateAgent(w, b, k) ==
  /\ requests[w] = Idle
  /\ \E a \in Agents : ~Exists(a)
  /\ b \in activeBlueprints
  /\ requests' = [requests EXCEPT ![w] = [kind |-> "insert", row |-> NewAgent(b, k)]]
  /\ UNCHANGED <<agents, activeBlueprints>>

\* Load row a, edit it in memory, reach the commit of repo.update.
LoadAndEdit(w, a, edited) ==
  /\ requests[w] = Idle
  /\ Exists(a)
  /\ requests' = [requests EXCEPT ![w] =
       [kind |-> "update", agent |-> a, loaded |-> agents[a], edited |-> edited]]
  /\ UNCHANGED <<agents, activeBlueprints>>

MayActivateAny(status) == TRUE
MayActivate(status) == status \in {"draft", "pending_approval", "suspended"}

MaySuspendLive(status) == status # "suspended"
MaySuspend(status) == status = "active"

ActivateAgent(w, a) ==
  /\ MayActivate(agents[a].status)
  /\ LoadAndEdit(w, a, [agents[a] EXCEPT !.status = "active", !.activated = TRUE])

SuspendAgent(w, a) ==
  /\ MaySuspend(agents[a].status)
  /\ LoadAndEdit(w, a, [agents[a] EXCEPT !.status = "suspended", !.suspended = TRUE])

\* revoke and rotate-key have no guard on the status.
RevokeAgent(w, a) ==
  LoadAndEdit(w, a, [agents[a] EXCEPT !.status = "revoked", !.revoked = TRUE])

RotateKey(w, a, k) == LoadAndEdit(w, a, [agents[a] EXCEPT !.key = k])

-----------------------------------------------------------------------------
(* The commits. *)

\* AgentRepository.create: INSERT and COMMIT under a fresh uuid.
InsertAgent(w) ==
  /\ requests[w].kind = "insert"
  /\ \E a \in Agents :
       /\ ~Exists(a)
       /\ agents' = [agents EXCEPT ![a] = requests[w].row]
  /\ requests' = [requests EXCEPT ![w] = Idle]
  /\ UNCHANGED activeBlueprints

MergeWholeRow(stored, loaded, edited) == edited

\* The stored row after the UPDATE of one request.
Merge(stored, loaded, edited) ==
  [ status    |-> Written(stored.status, loaded.status, edited.status),
    blueprint |-> Written(stored.blueprint, loaded.blueprint, edited.blueprint),
    key       |-> Written(stored.key, loaded.key, edited.key),
    activated |-> Written(stored.activated, loaded.activated, edited.activated),
    suspended |-> Written(stored.suspended, loaded.suspended, edited.suspended),
    revoked   |-> Written(stored.revoked, loaded.revoked, edited.revoked) ]

UpdateAgentIfUnchanged(w) ==
  /\ requests[w].kind = "update"
  /\ agents[requests[w].agent] = requests[w].loaded
  /\ agents' = [agents EXCEPT ![requests[w].agent] = requests[w].edited]
  /\ requests' = [requests EXCEPT ![w] = Idle]
  /\ UNCHANGED activeBlueprints

\* AgentRepository.update: UPDATE and COMMIT.
UpdateAgent(w) ==
  /\ requests[w].kind = "update"
  /\ LET r == requests[w]
     IN  agents' = [agents EXCEPT ![r.agent] = Merge(@, r.loaded, r.edited)]
  /\ requests' = [requests EXCEPT ![w] = Idle]
  /\ UNCHANGED activeBlueprints

\* get_db rolls back: the database failed, the client left, the process died.
FailRequest(w) ==
  /\ requests[w] # Idle
  /\ requests' = [requests EXCEPT ![w] = Idle]
  /\ UNCHANGED <<agents, activeBlueprints>>

\* The blueprint endpoints (BlueprintRegistry) change one blueprint's status.
BlueprintChanges(b) ==
  /\ activeBlueprints' \in {activeBlueprints \cup {b}, activeBlueprints \ {b}}
  /\ UNCHANGED <<agents, requests>>

Commit(w) == InsertAgent(w) \/ UpdateAgent(w)

Handle(w) ==
  \/ \E b \in Blueprints, k \in Keys \cup {NoKey} : CreateAgent(w, b, k)
  \/ \E a \in Agents : \/ ActivateAgent(w, a)
                       \/ SuspendAgent(w, a)
                       \/ RevokeAgent(w, a)
                       \/ \E k \in Keys : RotateKey(w, a, k)
  \/ Commit(w)
  \/ FailRequest(w)

Next ==
  \/ \E w \in Workers : Handle(w)
  \/ \E b \in Blueprints : BlueprintChanges(b)

Spec == Init /\ [][Next]_vars

\* A commit that has been sent is answered: the event loop resumes every task
\* whose database call returned.  Nothing obliges an administrator to send one.
FairSpec == Spec /\ \A w \in Workers : WF_vars(UpdateAgent(w))

-----------------------------------------------------------------------------
(* Properties. *)

\* The stamps a status entails.
StampsOf(row) ==
  /\ row.status \in {"absent", "draft"} => ~row.activated /\ ~row.suspended /\ ~row.revoked
  /\ row.status = "active" => row.activated
  /\ row.status = "suspended" => row.activated /\ row.suspended
  /\ row.status = "revoked" => row.revoked

\* However the writes of concurrent handlers interleave, a row never shows a
\* status without the *_at columns that status was reached through: the two are
\* written by one UPDATE, but merged with other requests' columns.
StampedStatus == \A a \in Agents : StampsOf(agents[a])

\* A transition timestamp, once set, is never lost to another request's stale
\* copy of the row (an UPDATE names only the columns it changed).
StampsPermanent ==
  [][\A a \in Agents : /\ agents[a].activated => agents'[a].activated
                       /\ agents[a].suspended => agents'[a].suspended
                       /\ agents[a].revoked   => agents'[a].revoked]_vars

\* Worker w is about to overwrite the status of a with a live one.
Overwrites(w, a) ==
  /\ requests[w].kind = "update"
  /\ requests[w].agent = a
  /\ requests[w].edited.status \notin {requests[w].loaded.status, "revoked"}

\* The revocation of a has committed and no request that loaded the row before
\* it is still to commit a status.
Settled(a) ==
  /\ agents[a].status = "revoked"
  /\ \A w \in Workers : ~Overwrites(w, a)

\* Once settled, a revocation is final: no sequence of activations, suspensions,
\* key rotations and failures, however interleaved, brings the agent back.
SettledRevocationIsFinal == [][\A a \in Agents : Settled(a) => Settled(a)']_vars

\* A committed revocation settles, unless a request that was in flight undoes
\* it: the window of the race closes by itself.
RevocationSettles ==
  \A a \in Agents :
    agents[a].status = "revoked" ~> (Settled(a) \/ agents[a].status # "revoked")

\* The claim of the tests and of the activation guard: revoked is terminal.
RevokedIsTerminal ==
  [][\A a \in Agents : agents[a].status = "revoked" => agents'[a].status = "revoked"]_vars

Lifecycle == INSTANCE AgentLifecycle WITH status <- [a \in Agents |-> agents[a].status]

\* With requests served one at a time, the handlers implement the lifecycle
\* their guards state.
FollowsLifecycle == Lifecycle!Spec

\* Worker w's request decided on a status that is no longer the stored one.
Overtaken(w) ==
  /\ requests[w].kind = "update"
  /\ requests[w].loaded.status # agents[requests[w].agent].status

\* However many requests overlap, overtaken ones are the only departure from the
\* lifecycle: a commit whose status was not changed since its load is one of the
\* lifecycle's transitions, whatever other columns were rewritten meanwhile.
FreshCommitsFollowLifecycle ==
  [][(\A w \in Workers : Overtaken(w) => requests'[w] = requests[w]) =>
       Lifecycle!Next \/ UNCHANGED [a \in Agents |-> agents[a].status]]_vars
=============================================================================
