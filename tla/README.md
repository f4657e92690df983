# Verification of Agent Identity Lab

TLA+ models of the identity plane of this repository, the TLC runs that check them and the
TLAPS proofs of the results that hold for every size of the system. Paths below are relative
to the repository (`src/` in `PROJECT.json`).

## The system

Agent Identity Lab gives AI agents identities of their own. Administrators define *blueprints*
and register *agents* under them; a running agent presents a signed *attestation* of its runtime
and gets a *session* with a JWT; the MCP gateway takes the JWT, asks the identity API for a
*decision* on each tool call and forwards what is allowed.

| Component | State it keeps | Operations | Hard part |
|---|---|---|---|
| agent registry (`api/agents.py`, `agent_repo.py`) | table `agent_identities` | create, activate, suspend, revoke, rotate-key | handlers decide on a row loaded an await earlier; no row lock, no version column |
| blueprint registry (`api/blueprints.py`, `blueprint_repo.py`) | table `agent_blueprints` | create, update, activate, deactivate | check-then-insert of the slug, read-modify-write of the version |
| delegation registry (`api/delegations.py`) | table `delegation_grants` | create, revoke | expiry against the clock, revocation while a session is being created |
| session service (`api/sessions.py`, `session_service.py`) | table `agent_sessions` | create_session, revoke_session | one transaction over five awaits that reads the three registries; committed after the response |
| attestation verifier (`packages/attestation`) | `NONCE_SEEN` (process memory), table `runtime_attestations` | verify | replay, restart, clock skew |
| token issuer, validator (`packages/token_library`) | none (keys on disk) | sign, validate | a token cannot be taken back; its expiry is the row's in whole seconds |
| authorization (`api/authorization.py`, `policy_service.py`) | none | authorize | reads session, agent and blueprint one by one, then calls a policy engine |
| policy engine (`packages/policy_client`, `policies/`) | none | evaluate in Python or in OPA | two policies that differ both ways; OPA may fail between probe and evaluation |
| MCP gateway (`apps/mcp_gateway`) | a tool registry (constant) | authenticate, authorize, forward | timeouts: a 502 for a tool that ran; a body that arrives as slowly as the client likes, after the decision |
| token broker (`apps/token_broker`) | table `credential_leases` | exchange | the credential exists before its lease |
| audit log (`packages/audit`, `api/audit.py`) | table `audit_events` | write, verify_chain | overlapping writers link to one predecessor and fork the chain; the hash covers the data column only; no endpoint writes to it yet |
| client SDK, mock MCP server, docs site, scripts | none | | |

Components meet in the database and in one asyncio process. Every request of the identity API
has its own `AsyncSession` (`dependencies.get_db`), so its own PostgreSQL transaction at READ
COMMITTED; two requests interleave at every `await`. The gateway and the broker are processes of
their own that call the identity API over HTTP or share its database.

What makes each component correct: a status carries its timestamps and a revocation holds
(agents); slugs are unique and a version names one content (blueprints); a dead grant backs no
session (delegations); a session belongs to an agent that was entitled to it, rests on one fresh
attestation, and its token names its row's agent and does not outlive it (sessions, verifier, issuer);
a decision grants no more than session, agent and blueprint hold, whichever adapter makes it
(policy); a tool handles only
what the session behind the token is entitled to, and the gateway's answer says what the tool did
(gateway, authorization); no credential belongs to a session that never was (broker); the log is a
forest that only grows and that a change of the hashed data breaks (audit).

## Modules

```
UnitOfWork ── AgentRegistry ──────┐
          ├── BlueprintRegistry ──┼── IdentityApi ── MCIdentityApi
          ├── DelegationRegistry ─┤        │
          └── SessionService ─────┘        │
                 │   └── TokenBroker ──────┤
PolicyAdapters ── Authorization ── McpGateway ── ToolAccess ── MCToolAccess
          └── PolicyEvaluation

AgentLifecycle  (abstract: AgentRegistry implements it)
SessionLedger   (abstract: IdentityApi implements it)
AuditTrail      (abstract: AuditLog implements it)     AuditLog ── MCAuditLog
```

**`UnitOfWork`**: `Written`, what a commit leaves in one column. SQLAlchemy's UPDATE
names only the columns whose value differs from the loaded one, so a stale copy overwrites what
its handler changed and nothing else.

**`AgentRegistry`**: `agents` is the table, `requests[w]` the request of worker `w` between its
load and its commit. `CreateAgent`, `ActivateAgent`, `SuspendAgent`, `RevokeAgent`, `RotateKey`
are the handlers up to their commit (load, guard, edit); `InsertAgent` and `UpdateAgent` are the
commits; `FailRequest` is the rollback of `get_db`. A timestamp column is kept as "is not NULL".
`BlueprintChanges` is the environment: another endpoint activates or deactivates a blueprint.

**`AgentLifecycle`**: the state machine the guards of `agents.py` describe, each transition
atomic. Overlapping requests leave it; `FreshCommitsFollowLifecycle` says exactly when they do
not: a commit to a row whose status is still the one its request loaded is a transition of the
lifecycle.

**`BlueprintRegistry`**: the same cut for blueprints. The TTL stands for the fields a PUT may
change; it is the one that later code computes with, and may be null, zero or negative in a body
(`BlueprintUpdate` bounds nothing). `InsertBlueprint` and `CommitBlueprint` end
in the UNIQUE and NOT NULL constraints of the table. Names, descriptions and requirements
are left out.

**`DelegationRegistry`**: create and revoke a grant; expiry is a time. The grant's scopes,
constraints and user decide nothing anywhere in the code (`get_delegation` only shows them), and
are left out.

**`SessionService`**: create_session as the sequence `load`, `attestation`, `delegation`,
`respond`, `commit` (the state is named after what the request does next or has just sent; see
the head of the module). The order matters and is the code's: the nonce is recorded before the
agent id and the claims are checked, the attestation is flushed before the delegation is
loaded, the response leaves before the commit. The unique index on the nonce refuses a nonce that a
session before a restart has used; within one life of the process `NONCE_SEEN` has kept a second
request out before its INSERT, so no INSERT ever waits for another. The clock moves by steps of which
`Second` make a second, because the row keeps `expires_at` with its fraction and the token's `exp`
is `int()` of it (`Whole`, `TokenOf`). A signature is modelled by the key that made it; requested scopes and
model metadata are copied from the request to row and token and left out here.

**`IdentityApi`**: the composition of the four. All registries and the session service share the
tables and one clock. `Restart` aborts every request in flight and empties `NONCE_SEEN`. `ApiInit`
is a provisioned deployment (what `tests/integration/test_session_success.py` sets up over HTTP):
active blueprints, each under a slug of its own, and activated agents, each under some blueprint, with
or without a key. Registration itself is explored in the registries' own runs.

**`SessionLedger`**: what the API promises to those who hold, check or revoke tokens, as three atomic
steps over `issued` (the tokens) and `book` (the sessions): a token is issued under an id of its own; a
session is entered once, under the id and agent of a token that is already out and does not outlive it,
on a nonce no other session used; a session is revoked, which changes nothing else. A token need not get its session, because the
commit comes after the response. `KeepsLedger` is the refinement, with the identity as its mapping:
each step of the five-await transaction, each failure and each restart is one of these steps or none.

**`PolicyAdapters`**: the two policies as functions of the input, `PythonDecision` and
`OpaDecision`, each with its own table of required scopes. **`PolicyEvaluation`** asks them one
request at a time over every input: probe, choice of adapter, evaluation, failure of OPA in
between.

**`Authorization`**: `POST /v1/authorize` for the token of one call, cut at its awaits: `probe`,
`session`, `agent`, `blueprint`, `evaluate`, `answered`. Each read sees what is committed
when it runs, so a decision may rest on rows of four different moments. What only the policies
read (scopes of the session, maximum scopes and slug of the blueprint, its environments, the attested
environment) is the constant `profile` of a deployment, any of `Profiles`.

**`McpGateway`**: `calls[c]` is what the gateway knows of a call, `inTransit[c]` the forwarded
requests the tool server has not handled, `runs[c]` how often it handled one. `ReceiveCall`
validates the token and looks up the gateway's own table of operations (which is not the
policies'); `AuthorizationFails` is the error or the timeout of the request to authorize;
`ActOnDecision` refuses, or goes on to await the client's body (`forwarder.py:29`, state
`reading`), which no timer bounds; `Forward` sends the request when the body is complete,
`ClientLeaves` ends a call whose client goes before that; `RunTool` is the tool server handling a
request, before or after the gateway has given up; `Relay` passes the response on, or answers 500 if it
calls itself JSON and does not parse (`forwarder.py:66`); `ForwardingFails` is the error or the timeout of
forwarding. The gateway sends a request once and never retries.

**`TokenBroker`**: `exchange` in the order of the code: credential first, then the lease is
flushed (the foreign key refuses an unknown session), then the response and the commit, which
may fail. `credentials` are those handed out, `leases` the table.

**`ToolAccess`**: everything together. Gateway and broker are processes of their own and meet the
identity API in its tables, its tokens and the clock. Two parts of `IdentityApi` stay in its own
runs: delegations, which neither the gateway nor authorize nor the broker reads, and `Restart`, whose
effect on tables and tokens is that of failures of the requests in flight, and those are here.

**`AuditLog`**: `AuditWriter.write` as SELECT of the last hash, timestamp and hash, commit
(`SelectLast`, `StampEvent`, `InsertEvent`), and `verify_chain` over every listing that ORDER BY
timestamp may return. An event holds what the hash covers, the payload of its data column, and what it does
not: `columns` stands for agent, user, session, trace, tool, operation, decision, reason and the type column
(the timestamp column is outside the hash too). `ReadBack` is what the JSONB column gives back of data
stored in it, which need not be what was hashed: `1e+20` comes back as digits. A hash is represented by the
sequence of payloads it commits to, which is what SHA-256 without collisions provides. The clock is
taken not to step back. No endpoint of the repository calls `AuditWriter` yet;
the model is of the class as its callers will find it. **`AuditTrail`** is its promise: entries
are added one at a time, each under an id of its own and linked to nothing or to an earlier entry
that is no younger. It is a forest and not a chain, because writers that overlap link to one
predecessor.

**`MCIdentityApi`, `MCToolAccess`, `MCAuditLog`**: attestation documents, deployments and data for the runs.
**`AgentRegistryProofs`, `BlueprintRegistryProofs`, `SessionServiceProofs`, `IdentityApiProofs`,
`PolicyEvaluationProofs`, `McpGatewayProofs`, `ToolAccessProofs`, `AuditLogProofs`**: the
theorems.

## Runs

| Run | Shows | Bounds |
|---|---|---|
| `agent_registry` | statuses carry their stamps; no stamp is lost; a settled revocation is final; a revocation settles or is undone by a request already in flight; only overtaken requests depart from `AgentLifecycle` | 1 agent, 2 keys, 1 blueprint, 2 requests at once |
| `agent_revoked_terminal` (violation) | two requests: a revoked agent becomes active again | 1 agent, 2 requests |
| `blueprint_registry` | unique slugs, a stale PUT keeps a new status, versions count the PUTs no other PUT overtook (two that overlap may write the same version) | 2 ids, 2 slugs, 2 requests, versions to 3 |
| `identity_revocation` | after the overlap has drained, a revoked agent gets neither session nor token and a dead grant backs nothing; token and row agree to the second; a committed attestation has its session | 1 agent, 1 grant, 1 request each of administrator, delegation and runtime, 2 session ids, clock to 2 (1 s), 1 restart |
| `identity_replay` | one attestation backs one session across restarts and simultaneous replays; every session is attested for its own agent; tokens and sessions are a `SessionLedger`; a deactivated blueprint opens nothing, one with a TTL of zero no session with a life | 2 agents, 2 nonces, 3 documents, 2 runtimes at once (symmetric), 1 blueprint manager, TTLs 0 and 60, 2 session ids, clock to 2 (1 s), 1 restart |
| `revoked_never_receives` (violation) | a revocation during create_session does not stop it | 1 agent |
| `token_has_session` (violation) | a token whose session was rolled back | 1 agent |
| `policy_evaluation` | grants within what was requested and what agent and blueprint hold, inactive agents and research writes denied, where the two adapters differ, exactly | every input over 2 scopes and 2 environments |
| `audit_log` | the table is an `AuditTrail`; links lead to stored, no younger events; forks, equal timestamps and data that the column re-encodes are the only reasons for a false alarm of `verify_chain`; changes of the data column and gaps are noticed | 2 writers, 3 events, 2 kinds of data (one re-encoded), 2 values of the other columns, clock to 2; writers and columns symmetric |
| `audit_modified` (violation) | an event whose decision, agent or tool was rewritten still verifies | 1 writer, 1 event |
| `tool_access` | tools handle only what the session is entitled to; answers are true; no credential without a session; dead tokens, revoked agents, inactive blueprints and rotated keys yield nothing once the overlap has drained, however slowly bodies arrive | 1 agent, 2 keys, 1 blueprint, 1 request each of administrator, blueprint manager and runtime, 1 session, 1 call or 1 exchange, 3 operations, 2 deployments, clock to 2 (1 s) |
| `exchange_within_session` (violation) | an exchange after the session expired hands out a credential | 1 agent |

Why the bounds are enough. Every race here is between a load and a commit, or a load and an
effect, on one row, so one row and two requests reach it; a second agent or slug is present where a property relates two of
them. The skew bound is 1 and the clock reaches 2, so a document is fresh, stale, or
not yet fresh, and crosses both boundaries; a grant of one unit expires within the run. Two steps make a
second (`Second = 2`), so a session of one second that is opened at a half second has a token that ends
half a second before its row. Two session ids and one restart let the same document be presented before and
after the memory of nonces is lost. `MaxVersion` 3 leaves room for two overlapping PUTs and one
more. The two scopes are one that reads and one that writes. Three
events make a chain with a middle, and a fork with a common root.

In `tool_access` the three operations are one that needs the read scope, one that needs the write scope, and
one that only the gateway's table knows. A session lives one second and the clock reaches it, so a
token expires while a call is under way. `MaxAccesses = 1` lets a behaviour hold one call or one
exchange: calls share no state with each other or with exchanges, they only read what the API
writes, so two of them show nothing that one does not. The theorems below hold for any number.

Deadlock is checked wherever the model may run on; in `PolicyEvaluation` one request ends, so it
is not.

**"Settled" and "shut".** A row is read one or more awaits before the effect that relies on it, so
"revoked agents never get sessions" is false of this code (`revoked_never_receives`), and so
would be "revoked agents run no tools". What the
code does provide is stated over the overlap. `Settled(a)` says the row is revoked and no request
in flight is about to overwrite it; `AgentShut(a)` adds that no create_session for it has
passed the check, `AgentCutOff(a)` that no tool call of it has passed the reading of its row or is
on its way to the tool. `BlueprintShut`, `PastBlueprintCheck`, the antecedent of `ShutGrantBacksNothing`,
`TokenShut` (expired, revoked, or never backed by a session) and `KeyOut` (rotated out; `BringsBack`
names the request that would store it again) are the same idea for blueprints, grants, tokens
and keys. The action properties over them say two things at once: nothing happens in
such a state, and no step leaves it but one that is named. `TtlShut` is a stored TTL that is not positive and
that no PUT in flight would raise. `RevocationSettles` says that a revocation of an agent settles. That the calls
which overlapped it drain, too, cannot be promised: a client may keep the gateway waiting for the body of an
allowed call as long as it likes, and httpx bounds each phase of an exchange (10 s, 30 s), not the whole.
`CutOffAgentRunsNothing` and its kin say what holds nevertheless: the allow serves that call only, and no
other gets past its reading of the row.

**Fairness.** Only `FairSpec` (agents) assumes any: weak fairness of the commit of a request already
begun. The asyncio loop resumes every task whose database call has returned, and PostgreSQL answers an
UPDATE that nothing blocks for ever. No request is assumed to be sent, and failures are never
assumed. Every other specification is one of safety alone.

**Sensitivity.** For each property of each passing run `PROJECT.json` names a variant of one
definition, as a plausible change of the code would make it (a guard dropped, a
whole-row UPDATE, a missing constraint), under which the property fails. The variants stand in
the modules directly before the definition they vary.

## Findings

1. `agents.py:95`: an activation or suspension that loaded its row before a revocation
   committed overwrites the revocation.
2. `session_service.py:44`: a session is committed for an agent revoked while the
   request was under way.
3. `dependencies.py:31`: a token is sent before its session is committed.
4. `exchange_service.py:23`: an exchange does not look at the session, so one that begins after
   the session expired still hands out a credential.
5. `writer.py:40`: agent, tool, decision and the other columns of an audit event are outside its hash, so
   rewriting them goes unnoticed.

The quoted lines and the runs that show them are in `PROJECT.json`. Not a finding, since no document
promises otherwise: overlapping PUTs write one version number (`blueprints.py:76`). What versions
do say is `VersionsCountPuts`. That the Rego policy allows what the agent, the blueprint or the user does
not hold, an empty intersection included, although `docs/policy-model.md:3` has it denied, is part of
`FallbackNarrowsExactly`, which says exactly which limits it leaves out; `FallbackWidensExactly` says which three
operations (`create_issue`, `list_repos`, `create_page`) pass in exchange when OPA does not answer its probe.

## Proofs

All for any sets of agents, keys, blueprints, scopes, writers, calls and exchanges, any number of
concurrent requests and any bounds. They assume the ASSUMEs of the modules: the marker of a missing key
is no key (`NoKeyAssumption`), TTLs are integers and null is none of them (`BlueprintAssumption`,
`ApiAssumption`), documents and lifetimes are well formed (`SessionAssumption`, `BrokerAssumption`),
deployments and operations too (`ProfileAssumption`, `OperationAssumption`). TLC evaluates
them on every run. Three theorems have a hypothesis of their own: `SerialImplementsLifecycle` and
`OneWriterKeepsChain` (at most one worker, at most one writer: both are about what is lost
only by overlapping) and `RotatedKeysOpenNothing` (`NonceHasOneSigner`: documents with one nonce have
one signer, because whoever signs draws a nonce; it holds in the checked instances).

An invariant is seldom inductive as it stands, because the damage is done by a request that is still in flight.
Each strengthening says what such a request knows.

**Agents** (`AgentRegistryProofs`).
- `TypeCorrect`: `TypeOK` is inductive; the work is that `Merge` of well-formed rows is well
  formed.
- `StampsFollowStatus`, `StampsNeverLost`: a commit mixes the stored row with a loaded and an
  edited one. `StampInv` adds that loaded and edited rows satisfy the entailments too and that the
  stored row has every stamp the loaded one had; then, whichever columns the UPDATE takes, the stamps
  of the new status are there.
- `SettledIsFinal`: a request that loads a revoked row can edit only the key or write "revoked" again.
- `OnlyStaleCommitsDepart`: `AllowedInv` keeps, of every request in flight, that its edit is a
  transition its loaded row allows. `SerialImplementsLifecycle`: with at most one worker
  (`SerialInv`: the stored row is still the loaded one) the registry implements `AgentLifecycle`.

**Blueprints** (`BlueprintRegistryProofs`): `BlueprintTypes`, `SlugsStayUnique`,
`PutsKeepStatus`, `VersionsAreCounts`. `BlueprintInv` adds to types and constraints that an edited row
differs from its loaded one only where its endpoint writes.

**Sessions and the API** (`SessionServiceProofs`, `IdentityApiProofs`).
- `SessionInv` has three parts. `RequestOK`: what a create_session has verified, at the stage it
  has reached; its nonce is in `NONCE_SEEN`, and once its INSERT has passed no stored attestation has it.
  `Apart`: two requests in flight hold different session ids and different verified nonces, which is what
  `NONCE_SEEN` enforces within one life of the process; a restart, which empties it, ends both. `StoredOK`: the
  same of the committed rows and of tokens; every attestation has its session. From it `OneSessionPerNonce`, which
  needs the unique index as well, across restarts, `TokensMatch`, `AttestedSessions` and
  `AttestationsHaveSessions`.
- `ShutAgentStaysOut`, `ShutGrantsBackNothing`, `ShutBlueprintsOpenNothing`: `RequestOrigin` says where
  a request of each stage can have come from, so that a request past the check was past it before or is
  reading the row now, and the row refuses it. `RotatedKeysOpenNothing` follows the key in the same way (`KeyOrigin`);
  `BoundInv` adds what `InactiveBlueprintsRunNothing` below needs: agents stay registered, under one
  blueprint.
- `ZeroTtlsOpenNoLife`: `LifeOrigin` says where a request with a positive lifetime can have come from,
  `TtlStaysShut` that no commit of a PUT raises the TTL, `TokenByRespond` which row a new token is of; that
  its `exp` is not past the present is arithmetic on whole seconds (`WholeBounds`).
- `ApiTypesHold`: the types of all tables and requests, one lemma per registry. Of blueprints it keeps
  the whole `BlueprintInv`, by the lemmas of `BlueprintRegistryProofs`.
- `ApiKeepsLedger`, the refinement of `SessionLedger`: beside `SessionInv` it needs `TokenInv` (an id is
  one row, and the token of a row about to respond is not out yet) and `HandedOut` (the tokens of rows stored or
  about to be stored are out, and no row is revoked before it is stored). With them `Respond` is `Issue`,
  `CommitSession` is `Open`, and `CommitRevoke` is `Revoke`, or nothing if another revocation overtook it.
- What the registries prove of themselves holds in the process: `ApiStampsFollowStatus`,
  `ApiStampsNeverLost`, `ApiSettledIsFinal`, `OnlyStaleCommitsDepartInApi`, `ApiSlugsStayUnique`,
  `ApiPutsKeepStatus`, `ApiVersionsAreCounts`. The proof modules of the registries are
  instantiated (`RegistryFacts`, `BlueprintFacts`) and their step lemmas reused. What is new is that a blueprint's
  status comes from the real table and not from an arbitrary environment, that a restart drops requests, and that the process starts provisioned.

**Policies** (`PolicyEvaluationProofs`): `PolicyTypes`, `GrantsAreBounded`, `InactiveAreDenied`,
`PythonAllowsUse`, `FallbackWidensOnlyUnlisted`, `OpaIgnoresLimits`. The six are inductive together
(`PolicyInv`); the work is the algebra of the two policies (`PythonThenRego`, `RegoThenPython`).

**Gateway** (`McpGatewayProofs`): `ToolRunsEntitled` and `GatewayAnswersTrue` are proved of
`GatewaySpec`, in which tables, tokens and clock change in any way at all. `GatewayInv` relates, call by
call, the progress of its authorization, what the gateway knows, and the requests in transit and handled
(`Consistent`): an authorization is about the operation of its call (`Sound`), a call whose body is awaited
holds an allow and has forwarded nothing, and at most one request is ever forwarded.

**The whole system** (`ToolAccessProofs`).
- `SystemImplementsApi`: with gateway and broker around it the API behaves as it does alone, so its
  theorems hold of the system (`SystemKeepsApiPromises` lists those about tables, tokens and sessions).
  `SystemImplementsGateway`: the system is one of the environments of
  `GatewaySpec`, whence `SystemRunsEntitled` and `SystemAnswersTrue`.
- `CredentialsNeedSessions`: `BrokerInv` adds that an exchange about to commit has handed its
  credential out, so the lease it stores has a session too.
- `CutOffAgentStaysOut`, `DeadTokensStayOut`, `InactiveBlueprintsRunNothing`: `AskInv` ties an
  authorization to the call it serves, `TokenInv` to the session it read, `BlueprintAsked` to the
  blueprint it will read; with them a call past a check was past it before or reads the row now.
- `AccessTypes`: the types of the gateway and the broker, resting on those of the tables.

**`AuditLog`** (`AuditLogProofs`).
- `LinksAlwaysResolve` by `LinkInv` (a selected hash resolves at the present time, a stamped event's at
  its own); `LogImplementsTrail`, the refinement, by `BuiltInv` (every event is hashed from its payload and its
  link, so equal hashes are of equal events); `AuditTypes`.
- `AlarmsAreExplained`: `verify_chain` is about sequences, and the library's induction over them is out of
  reach, so the argument takes the *least* position at which a listing fails (`Least`, from the
  well-foundedness of the naturals). Its event links to a stored event, which is listed earlier
  because it is older; that it is not the one just before makes a fork at or before that place.
  `FiniteInv` (the table stays finite) gives the listing its length.
- `HashedTamperingShows`: a hash is an injective function of payload and link (`MadeOf`, `AppendInjective`), so
  a changed data column no longer fits its hash, and the event after a gap no longer fits its link. What no check
  of links can see is the end of a log cut off, and the columns outside the hash; `LastHashPinsData` says how
  much the last hash settles: two verifying sequences with the same last hash have the same length (`HashLength`)
  and agree on data column, link and hash from the end down, again by a least counterexample.
- `OneWriterKeepsChain`: `OneWriterInv` says that, without equal timestamps, there is no fork and the hash the
  single call in flight has selected is still a last one, to which nothing is linked (`LastIsUnlinked`); it verifies
  if no data was re-encoded.

Only model-checked: liveness (`RevocationSettles`), which is out of the prover's reach. Every invariant and
every other action property or refinement that a passing run checks is the statement of a theorem.

## Not modelled

- The client SDK and the examples keep no state; whatever they may send is in the environment of
  the modules. The mock MCP server appears as the tool that handles a request, sometimes late or
  never; the echo it answers is left out. The docs site, schema setup and key
  generation are presentation and one-off setup.
- API-key checks, CORS, logging, configuration, formatting, and what headers, bodies and query strings say,
  decide nothing that the properties are about. What a provider's secret looks like is left out.
- The answers of the administrative endpoints: a second revoke that answers 200 while a stale
  activation is about to commit is covered at the stored row only.
- The pool of database connections: no safety property depends on it, and nothing is claimed of the requests'
  progress but `RevocationSettles`.
- Scopes inside `SessionService`: they are copied unchanged from request to row and token. Their
  effect is modelled where they are read, as the `profile` of `Authorization`.
- Parts named in the repository's plans that the code does not have: an endpoint that revokes a
  lease, an endpoint that writes audit events.

No part that keeps state is left without a module. What could still be added are larger instances of
`tool_access`.
