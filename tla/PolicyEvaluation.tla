--------------------------- MODULE PolicyEvaluation ---------------------------
(***************************************************************************)
(* One authorization decision on any input: the choice of a policy adapter *)
(* (api/authorization.py get_policy_adapter), then its evaluation.  OPA may*)
(* fail between the health probe and the evaluation.                       *)
(***************************************************************************)
EXTENDS PolicyAdapters

VARIABLES
  input,      \* the PolicyInput that authorize assembled
  adapter,    \* "none", then the one get_policy_adapter chose
  decision    \* Deny until the adapter answered

policyVars == <<input, adapter, decision>>

PolicyInit ==
  /\ input \in Input
  /\ adapter = "none"
  /\ decision = Deny

\* The health probe of OPA succeeded, or did not.
ChooseAdapter ==
  /\ adapter = "none"
  /\ adapter' \in {"opa", "python"}
  /\ UNCHANGED <<input, decision>>

EvaluatePython ==
  /\ adapter = "python"
  /\ adapter' = "python answered"
  /\ decision' = PythonDecision(input)
  /\ UNCHANGED input

EvaluateOpa ==
  /\ adapter = "opa"
  /\ adapter' = "opa answered"
  /\ decision' = OpaDecision(input)
  /\ UNCHANGED input

OpaUnavailableFallsOpen ==
  /\ adapter = "opa"
  /\ adapter' = "opa answered"
  /\ decision' = [allow |-> input.agentActive, scopes |-> input.requested]
  /\ UNCHANGED input

\* httpx.HTTPError: the probe had succeeded, the evaluation does not.
OpaUnavailable ==
  /\ adapter = "opa"
  /\ adapter' = "opa answered"
  /\ decision' = Deny
  /\ UNCHANGED input

PolicyNext == ChooseAdapter \/ EvaluatePython \/ EvaluateOpa \/ OpaUnavailable

PolicySpec == PolicyInit /\ [][PolicyNext]_policyVars

-----------------------------------------------------------------------------
(* Properties. *)

PolicyTypeOK ==
  /\ input \in Input
  /\ adapter \in {"none", "opa", "python", "opa answered", "python answered"}
  /\ decision \in Decision

\* SPEC 18.4: whichever adapter answers, and however it fails, what it grants is
\* within the requested, the agent's and the blueprint's scopes.  The limits of the
\* tool, the user and the environment are the Python adapter's alone.
WithinEveryGrant ==
  decision.scopes \subseteq input.requested \cap input.agentScopes \cap input.maxScopes

\* Neither adapter allows anything to an inactive agent or blueprint, nor a
\* write to a research agent, although only one of them checks the latter.
DeniedOutright ==
  decision.allow =>
    /\ input.agentActive /\ input.blueprintActive
    /\ ~(input.research /\ RequiredScopes(input.operation) \cap WriteScopes # {})

\* The three operations of the tool registries that the Rego policy has no rule for.
Unlisted == {"github.create_issue", "github.list_repos", "confluence.create_page"}

\* When the probe of OPA fails, its stand-in allows what OPA would have refused for
\* exactly three operations, two of them writes; it never grants a wider scope.
FallbackWidensExactly ==
  adapter = "python answered" =>
    /\ decision.allow => (OpaDecision(input).allow <=> input.operation \notin Unlisted)
    /\ decision.scopes \subseteq OpaDecision(input).scopes

\* Of what OPA allows, its stand-in would have refused exactly this: what the agent, the
\* blueprint or the user, if known, does not hold, and what runs elsewhere than the
\* blueprint's environments.  docs/policy-model.md has all of it denied.
FallbackNarrowsExactly ==
  adapter = "opa answered" /\ decision.allow =>
    (~PythonDecision(input).allow <=>
       \/ ~(RequiredScopes(input.operation) \subseteq input.agentScopes \cap input.maxScopes)
       \/ /\ input.userScopes # {}
          /\ ~(RequiredScopes(input.operation) \subseteq input.userScopes)
       \/ /\ input.approved # {}
          /\ input.environment \notin input.approved)

\* An allow of the Python adapter leaves some scope, which its user, if known,
\* holds, and which the operation requires.
PythonAllowsSomething ==
  adapter = "python answered" /\ decision.allow =>
    /\ decision.scopes # {}
    /\ decision.scopes \subseteq RequiredScopes(input.operation)
    /\ input.userScopes # {} => decision.scopes \subseteq input.userScopes
=============================================================================
