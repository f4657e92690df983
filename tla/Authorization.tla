----------------------------- MODULE Authorization -----------------------------
(***************************************************************************)
(* POST /v1/authorize (apps/identity_api/api/authorization.py): may the    *)
(* bearer of a session token perform an operation?  The handler writes     *)
(* nothing; it is cut at the awaits between its reads:                     *)
(*   "probe"      dependencies: the health probe of OPA is under way       *)
(*   "session"    token validated; SELECT of the session sent              *)
(*   "agent"      session checked; SELECT of its agent sent                *)
(*   "blueprint"  agent row read; SELECT of its blueprint sent, the second *)
(*                statement of that load (AgentIdentity.blueprint is       *)
(*                selectin-loaded; get_by_id then finds it in the session) *)
(*   "evaluate"   attestation read; the policy adapter is asked            *)
(*   "answered"   the response is on its way to the gateway                *)
(* At READ COMMITTED every read sees what is committed when it runs.       *)
(***************************************************************************)
EXTENDS SessionService, PolicyAdapters

CONSTANTS
  Calls,      \* requests to authorize, one for each call of the gateway
  Profiles    \* what only the policies read of a session, its blueprint and attestation

ProfileType ==
  [ scopes      : SUBSET Scopes,         \* effective_scopes of the session, in token and row
    maxScopes   : SUBSET Scopes,         \* of the blueprint
    research    : BOOLEAN,               \* its slug is "research-agent"
    approved    : SUBSET Environments,   \* its approved_environments
    environment : Environments ]         \* of the attestation

ASSUME ProfileAssumption == Profiles \subseteq ProfileType

VARIABLES
  profile,          \* the one profile of this deployment
  authorizations    \* each request's progress

NotAsked == [kind |-> "none"]

Adapters == {"opa", "python"}

Authorizing ==
  {NotAsked}
    \cup [kind : {"probe"}, token : Token, operation : STRING]
    \cup [kind : {"session"}, adapter : Adapters, id : Nat, operation : STRING]
    \cup [kind : {"agent"}, adapter : Adapters, agent : Agents, operation : STRING]
    \cup [kind : {"blueprint"}, adapter : Adapters, blueprint : Blueprints,
          agentActive : BOOLEAN, operation : STRING]
    \cup [kind : {"evaluate"}, adapter : Adapters, agentActive : BOOLEAN,
          blueprintActive : BOOLEAN, operation : STRING]
    \cup [kind : {"answered"}, decision : {"allow", "deny", "unauthorized"}]

AuthorizationTypeOK ==
  /\ profile \in Profiles
  /\ authorizations \in [Calls -> Authorizing]

AuthorizationInit ==
  /\ profile \in Profiles
  /\ authorizations = [c \in Calls |-> NotAsked]

Become(c, authorization) ==
  /\ authorizations' = [authorizations EXCEPT ![c] = authorization]
  /\ UNCHANGED profile

Answer(decision) == [kind |-> "answered", decision |-> decision]

-----------------------------------------------------------------------------
\* validate_session_token: PyJWT refuses a token from its exp on.  Signature,
\* issuer and claims are those of a token that this API issued.
Valid(t) == now < t.expires

\* The probe returns; the body starts and validates the token.
ChooseAdapter(c, adapter) ==
  /\ authorizations[c].kind = "probe"
  /\ LET r == authorizations[c]
     IN  Become(c, IF Valid(r.token)
                     THEN [kind |-> "session", adapter |-> adapter,
                           id |-> r.token.id, operation |-> r.operation]
                     ELSE Answer("unauthorized"))

StandingOnceStored(s) == TRUE
\* authorization.py 83: neither expires_at nor the delegation is looked at.
Standing(s) == ~s.revoked

\* SELECT of the session by the token's jti: 401 if there is none or it is revoked.
ReadSession(c) ==
  /\ authorizations[c].kind = "session"
  /\ LET r == authorizations[c]
         found == {s \in sessions : s.id = r.id /\ Standing(s)}
     IN  Become(c, IF found = {}
                     THEN Answer("unauthorized")
                     ELSE [kind |-> "agent", adapter |-> r.adapter,
                           agent |-> (CHOOSE s \in found : TRUE).agent,
                           operation |-> r.operation])

\* The agent row; 401 for a missing one cannot happen (foreign key, no deletion).
ReadAgent(c) ==
  /\ authorizations[c].kind = "agent"
  /\ LET r == authorizations[c]
     IN  Become(c, [kind |-> "blueprint", adapter |-> r.adapter,
                    blueprint |-> agents[r.agent].blueprint,
                    agentActive |-> agents[r.agent].status = "active",
                    operation |-> r.operation])

\* The blueprint row; then the attestation's, which never changes.
ReadBlueprint(c) ==
  /\ authorizations[c].kind = "blueprint"
  /\ LET r == authorizations[c]
     IN  Become(c, [kind |-> "evaluate", adapter |-> r.adapter,
                    agentActive |-> r.agentActive,
                    blueprintActive |-> blueprints[r.blueprint].status = "active",
                    operation |-> r.operation])

\* The PolicyInput: the session's scopes stand for the requested and the
\* agent's, and no user limits them.
InputOf(r) ==
  [ agentActive     |-> r.agentActive,
    blueprintActive |-> r.blueprintActive,
    research        |-> profile.research,
    operation       |-> r.operation,
    environment     |-> profile.environment,
    approved        |-> profile.approved,
    requested       |-> profile.scopes,
    agentScopes     |-> profile.scopes,
    maxScopes       |-> profile.maxScopes,
    userScopes      |-> {} ]

DecisionOf(adapter, i) == IF adapter = "opa" THEN OpaDecision(i) ELSE PythonDecision(i)

OnOpaFailureError == "error"
\* httpx.HTTPError after a probe that had succeeded.
OnOpaFailure == "deny"

\* The adapter answers, or OPA fails.  Of the decision the gateway reads "allow".
Evaluate(c) ==
  /\ authorizations[c].kind = "evaluate"
  /\ LET r == authorizations[c]
     IN  \/ Become(c, Answer(IF DecisionOf(r.adapter, InputOf(r)).allow
                               THEN "allow" ELSE "deny"))
         \/ r.adapter = "opa" /\ Become(c, Answer(OnOpaFailure))

\* The next await of the handler returns.
Authorize(c) ==
  \/ \E adapter \in Adapters : ChooseAdapter(c, adapter)
  \/ ReadSession(c)
  \/ ReadAgent(c)
  \/ ReadBlueprint(c)
  \/ Evaluate(c)
=============================================================================
