---------------------------- MODULE PolicyAdapters ----------------------------
(***************************************************************************)
(* The two policies as functions of their input:                           *)
(* packages/policy_client/python_adapter.py, and policies/agent_access.rego*)
(* behind opa_adapter.py.                                                  *)
(***************************************************************************)
CONSTANTS
  Scopes,          \* scope strings that tokens, blueprints and users may hold
  Environments

Operations ==
  { "github.search_code", "github.create_issue", "github.list_repos", "github.list_issues",
    "confluence.search", "confluence.create_page" }

UnknownOperations == { "github.read_file", "confluence.update_page" }

\* TOOL_SCOPE_MAP
RequiredScopes(op) ==
  CASE op \in {"github.search_code", "github.list_repos"} -> {"repo:read"}
    [] op = "github.create_issue"                         -> {"issues:write"}
    [] op = "github.list_issues"                          -> {"issues:read"}
    [] op = "confluence.search"                           -> {"pages:read"}
    [] op = "confluence.create_page"                      -> {"pages:write"}

WriteScopes == {"issues:write", "pages:write"}

\* PolicyInput, as far as the two policies read it.  Both adapters are specified
\* (and unit-tested) for any input; authorize itself passes the session's
\* effective scopes as both requested and agentScopes, and no userScopes.
Input ==
  [ agentActive     : BOOLEAN,
    blueprintActive : BOOLEAN,
    research        : BOOLEAN,               \* blueprint slug is "research-agent"
    operation       : Operations \cup UnknownOperations,
    environment     : Environments,
    approved        : SUBSET Environments,   \* {}: any environment
    requested       : SUBSET Scopes,
    agentScopes     : SUBSET Scopes,
    maxScopes       : SUBSET Scopes,         \* of the blueprint
    userScopes      : SUBSET Scopes ]        \* {}: not constrained by a user

Decision == [allow : BOOLEAN, scopes : SUBSET Scopes]

Deny == [allow |-> FALSE, scopes |-> {}]

-----------------------------------------------------------------------------
(* PythonPolicyAdapter.evaluate *)

EnvironmentOk(i) == i.approved # {} => i.environment \in i.approved

ResearchMayWrite(i) == TRUE
ResearchOk(i) == i.research => RequiredScopes(i.operation) \cap WriteScopes = {}

UserIgnored(i, s) == s
UserLimited(i, s) == IF i.userScopes = {} THEN s ELSE s \cap i.userScopes

PythonScopes(i) ==
  UserLimited(i, i.requested \cap i.agentScopes \cap i.maxScopes
                 \cap RequiredScopes(i.operation))

SurvivorsUnchecked(s) == TRUE
Survives(s) == s # {}

PythonDecision(i) ==
  IF /\ i.agentActive
     /\ i.blueprintActive
     /\ i.operation \in Operations
     /\ ResearchOk(i)
     /\ EnvironmentOk(i)
     /\ Survives(PythonScopes(i))
  THEN [allow |-> TRUE, scopes |-> PythonScopes(i)]
  ELSE Deny

-----------------------------------------------------------------------------
(* policies/agent_access.rego *)

RegoOperations == {"github.search_code", "github.list_issues", "confluence.search"}

RegoAllowAnyAgent(i) ==
  /\ i.blueprintActive
  /\ i.operation \in RegoOperations
  /\ RequiredScopes(i.operation) \subseteq i.requested

RegoAllowAnyBlueprint(i) ==
  /\ i.agentActive
  /\ i.operation \in RegoOperations
  /\ RequiredScopes(i.operation) \subseteq i.requested

RegoAllow(i) ==
  /\ i.agentActive
  /\ i.blueprintActive
  /\ i.operation \in RegoOperations
  /\ RequiredScopes(i.operation) \subseteq i.requested

RegoScopesOfToken(i) == i.requested \cap i.agentScopes
RegoScopes(i) == i.requested \cap i.agentScopes \cap i.maxScopes

OpaDecisionUndefined(i) ==
  IF RegoAllow(i) THEN [allow |-> TRUE, scopes |-> RegoScopes(i)] ELSE [allow |-> FALSE]

OpaDecision(i) == [allow |-> RegoAllow(i), scopes |-> RegoScopes(i)]
=============================================================================
