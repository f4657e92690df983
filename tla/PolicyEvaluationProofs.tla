------------------------ MODULE PolicyEvaluationProofs -------------------------
(***************************************************************************)
(* Theorems about PolicyEvaluation for every set of scopes and environments*)
(***************************************************************************)
EXTENDS PolicyEvaluation, TLAPS

\* What the Python adapter may grant is within every grant the input names.
LEMMA PythonScopesWithin ==
  ASSUME NEW i \in Input
  PROVE  PythonScopes(i) \subseteq i.requested \cap i.agentScopes \cap i.maxScopes
BY DEF PythonScopes, UserLimited

\* A decision of either adapter is a decision.
LEMMA DecisionType ==
  ASSUME NEW i \in Input
  PROVE  PythonDecision(i) \in Decision /\ OpaDecision(i) \in Decision /\ Deny \in Decision
<1>1. i.requested \subseteq Scopes
  BY DEF Input
<1>2. PythonScopes(i) \in SUBSET Scopes /\ RegoScopes(i) \in SUBSET Scopes
  BY <1>1, PythonScopesWithin DEF RegoScopes
<1>3. RegoAllow(i) \in BOOLEAN
  BY DEF RegoAllow
<1> QED
  BY <1>2, <1>3 DEF PythonDecision, OpaDecision, Deny, Decision

\* An operation that either policy knows requires one scope.
LEMMA OneScope ==
  ASSUME NEW op \in Operations
  PROVE  \E s : RequiredScopes(op) = {s}
BY DEF Operations, RequiredScopes

\* Rego has a rule for each operation that Python knows, but for three.
LEMMA RegoKnows ==
  /\ RegoOperations \subseteq Operations
  /\ Operations \ RegoOperations = Unlisted
  /\ \A op \in RegoOperations : RequiredScopes(op) \cap WriteScopes = {}
BY DEF RegoOperations, Operations, Unlisted, RequiredScopes, WriteScopes

\* What Python allows, Rego allows but for the operations it has no rule for.
LEMMA PythonThenRego ==
  ASSUME NEW i \in Input, PythonDecision(i).allow
  PROVE  RegoAllow(i) <=> i.operation \notin Unlisted
<1>1. /\ i.agentActive /\ i.blueprintActive /\ i.operation \in Operations
      /\ PythonScopes(i) # {}
  BY DEF PythonDecision, Deny, Survives
<1>2. PICK s : s \in i.requested /\ s \in RequiredScopes(i.operation)
  BY <1>1 DEF PythonScopes, UserLimited
<1>3. RequiredScopes(i.operation) \subseteq i.requested
  BY <1>1, <1>2, OneScope
<1>4. i.operation \in RegoOperations <=> i.operation \notin Unlisted
  BY <1>1, RegoKnows
<1> QED
  BY <1>1, <1>3, <1>4 DEF RegoAllow

\* What Rego allows, Python allows if the one scope required survives its further limits
\* and the environment is approved.
LEMMA RegoThenPython ==
  ASSUME NEW i \in Input, RegoAllow(i)
  PROVE  ~PythonDecision(i).allow <=>
           \/ ~(RequiredScopes(i.operation) \subseteq i.agentScopes \cap i.maxScopes)
           \/ /\ i.userScopes # {}
              /\ ~(RequiredScopes(i.operation) \subseteq i.userScopes)
           \/ /\ i.approved # {}
              /\ i.environment \notin i.approved
<1>1. /\ i.agentActive /\ i.blueprintActive /\ i.operation \in RegoOperations
      /\ RequiredScopes(i.operation) \subseteq i.requested
  BY DEF RegoAllow
<1>2. i.operation \in Operations /\ ResearchOk(i)
  BY <1>1, RegoKnows DEF ResearchOk
<1>3. PythonDecision(i).allow <=> EnvironmentOk(i) /\ PythonScopes(i) # {}
  BY <1>1, <1>2 DEF PythonDecision, Deny, Survives
<1>4. PICK s : RequiredScopes(i.operation) = {s}
  BY <1>2, OneScope
<1>5. PythonScopes(i) # {} <=>
        /\ s \in i.agentScopes \cap i.maxScopes
        /\ i.userScopes # {} => s \in i.userScopes
  BY <1>1, <1>4 DEF PythonScopes, UserLimited
<1>6. EnvironmentOk(i) <=> ~(i.approved # {} /\ i.environment \notin i.approved)
  BY DEF EnvironmentOk
<1> QED
  BY <1>3, <1>4, <1>5, <1>6

-----------------------------------------------------------------------------
\* Neither adapter allows anything to an inactive agent or blueprint, nor a write
\* to a research agent: Rego does not look at the slug, but knows no writes.
LEMMA AllowedOutright ==
  ASSUME NEW i \in Input, PythonDecision(i).allow \/ OpaDecision(i).allow
  PROVE  /\ i.agentActive /\ i.blueprintActive
         /\ ~(i.research /\ RequiredScopes(i.operation) \cap WriteScopes # {})
<1>1. CASE PythonDecision(i).allow
  BY <1>1 DEF PythonDecision, Deny, ResearchOk
<1>2. CASE OpaDecision(i).allow
  <2>1. RegoAllow(i)
    BY <1>2 DEF OpaDecision
  <2>2. RequiredScopes(i.operation) \cap WriteScopes = {}
    BY <2>1 DEF RegoAllow, RegoOperations, RequiredScopes, WriteScopes
  <2> QED BY <2>1, <2>2 DEF RegoAllow
<1> QED BY <1>1, <1>2

PolicyInv ==
  /\ PolicyTypeOK /\ WithinEveryGrant /\ DeniedOutright
  /\ FallbackWidensExactly /\ FallbackNarrowsExactly /\ PythonAllowsSomething

\* Every request's input stays well formed and the answer is within the grants.
LEMMA PolicyStep == PolicyInv /\ [PolicyNext]_policyVars => PolicyInv'
<1> SUFFICES ASSUME PolicyInv, [PolicyNext]_policyVars PROVE PolicyInv'
  OBVIOUS
<1>1. input \in Input
  BY DEF PolicyInv, PolicyTypeOK
<1>2. CASE ChooseAdapter
  BY <1>2
  DEF ChooseAdapter, PolicyInv, PolicyTypeOK, WithinEveryGrant, FallbackWidensExactly,
      FallbackNarrowsExactly, DeniedOutright, PythonAllowsSomething
<1>3. CASE EvaluatePython
  <2>1. /\ input' = input /\ decision' = PythonDecision(input)
        /\ adapter' = "python answered"
    BY <1>3 DEF EvaluatePython
  <2>2. PythonDecision(input).scopes \subseteq PythonScopes(input)
    BY DEF PythonDecision, Deny
  <2>3. WithinEveryGrant'
    BY <1>1, <2>1, <2>2, PythonScopesWithin DEF WithinEveryGrant
  <2>4. FallbackWidensExactly'
    <3>1. PythonDecision(input).scopes \subseteq RegoScopes(input)
      BY <1>1, <2>2, PythonScopesWithin DEF RegoScopes
    <3>2. PythonDecision(input).allow =>
            (OpaDecision(input).allow <=> input.operation \notin Unlisted)
      BY <1>1, PythonThenRego DEF OpaDecision
    <3> QED
      BY <2>1, <3>1, <3>2 DEF FallbackWidensExactly, OpaDecision
  <2>5. DeniedOutright'
    BY <1>1, <2>1, AllowedOutright DEF DeniedOutright
  <2>6. PythonAllowsSomething'
    BY <1>1, <2>1
    DEF PythonAllowsSomething, PythonDecision, Deny, Survives, PythonScopes, UserLimited
  <2>7. FallbackNarrowsExactly'
    BY <2>1 DEF FallbackNarrowsExactly
  <2> QED
    BY <1>1, <2>1, <2>3, <2>4, <2>5, <2>6, <2>7, DecisionType DEF PolicyInv, PolicyTypeOK
<1>4. CASE EvaluateOpa
  <2>1. /\ input' = input /\ decision' = OpaDecision(input)
        /\ adapter' = "opa answered"
    BY <1>4 DEF EvaluateOpa
  <2>2. DeniedOutright'
    BY <1>1, <2>1, AllowedOutright DEF DeniedOutright
  <2>3. FallbackNarrowsExactly'
    <3>1. OpaDecision(input).allow = RegoAllow(input)
      BY DEF OpaDecision
    <3> QED BY <1>1, <2>1, <3>1, RegoThenPython DEF FallbackNarrowsExactly
  <2> QED
    BY <1>1, <2>1, <2>2, <2>3, DecisionType
    DEF OpaDecision, RegoScopes, PolicyInv, PolicyTypeOK, WithinEveryGrant,
        FallbackWidensExactly, PythonAllowsSomething
<1>5. CASE OpaUnavailable
  BY <1>1, <1>5, DecisionType
  DEF OpaUnavailable, Deny, PolicyInv, PolicyTypeOK, WithinEveryGrant, FallbackWidensExactly,
      FallbackNarrowsExactly, DeniedOutright, PythonAllowsSomething
<1>6. CASE UNCHANGED policyVars
  BY <1>6
  DEF policyVars, PolicyInv, PolicyTypeOK, WithinEveryGrant, FallbackWidensExactly,
      FallbackNarrowsExactly, DeniedOutright, PythonAllowsSomething
<1> QED
  BY <1>2, <1>3, <1>4, <1>5, <1>6 DEF PolicyNext

\* The invariant holds before any adapter is chosen.
LEMMA PolicyStart == PolicyInit => PolicyInv
BY DEF PolicyInit, PolicyInv, PolicyTypeOK, WithinEveryGrant, FallbackWidensExactly,
       FallbackNarrowsExactly, DeniedOutright, PythonAllowsSomething, Deny, Decision

\* The input and the answer of every request stay well formed.
THEOREM PolicyTypes == PolicySpec => []PolicyTypeOK
<1>1. PolicyInv => PolicyTypeOK
  BY DEF PolicyInv
<1> QED BY <1>1, PolicyStart, PolicyStep, PTL DEF PolicySpec

\* Whichever adapter answers and however OPA fails, the granted scopes are within
\* the requested, the agent's and the blueprint's scopes.
THEOREM GrantsAreBounded == PolicySpec => []WithinEveryGrant
<1>1. PolicyInv => WithinEveryGrant
  BY DEF PolicyInv
<1> QED
  BY PolicyStart, PolicyStep, <1>1, PTL DEF PolicySpec

\* When OPA does not answer its probe, the Python adapter allows what OPA would have
\* refused for exactly the three operations without a Rego rule.
THEOREM FallbackWidensOnlyUnlisted == PolicySpec => []FallbackWidensExactly
<1>1. PolicyInv => FallbackWidensExactly
  BY DEF PolicyInv
<1> QED
  BY PolicyStart, PolicyStep, <1>1, PTL DEF PolicySpec

\* OPA allows, beyond the Python adapter, exactly what the agent's, the blueprint's or
\* the user's scopes or the environment should have kept back.
THEOREM OpaIgnoresLimits == PolicySpec => []FallbackNarrowsExactly
<1>1. PolicyInv => FallbackNarrowsExactly
  BY DEF PolicyInv
<1> QED
  BY PolicyStart, PolicyStep, <1>1, PTL DEF PolicySpec

\* An inactive agent or blueprint is allowed nothing, a research agent no write.
THEOREM InactiveAreDenied == PolicySpec => []DeniedOutright
<1>1. PolicyInv => DeniedOutright
  BY DEF PolicyInv
<1> QED
  BY PolicyStart, PolicyStep, <1>1, PTL DEF PolicySpec

\* An allow of the Python adapter leaves a scope that the operation requires and
\* the user, if known, holds.
THEOREM PythonAllowsUse == PolicySpec => []PythonAllowsSomething
<1>1. PolicyInv => PythonAllowsSomething
  BY DEF PolicyInv
<1> QED
  BY PolicyStart, PolicyStep, <1>1, PTL DEF PolicySpec
=============================================================================
