----------------------------- MODULE MCToolAccess ------------------------------
(* ToolAccess with one agent's document and two deployments. *)
EXTENDS ToolAccess

CONSTANTS a1, k1, n1

OneDocument == { [agent |-> a1, signer |-> k1, nonce |-> n1, issuedAt |-> 0, complete |-> TRUE] }

Deployment(scopes, maxScopes, research) ==
  [ scopes |-> scopes, maxScopes |-> maxScopes, research |-> research,
    approved |-> {}, environment |-> "dev" ]

\* A reader, and a research agent that was given a write scope.
ReaderOrResearcher ==
  { Deployment({"repo:read"}, {"repo:read", "issues:write"}, FALSE),
    Deployment({"repo:read", "issues:write"}, {"repo:read", "issues:write"}, TRUE) }
=============================================================================
