---------------------------- MODULE MCIdentityApi -----------------------------
(* IdentityApi with the attestation documents of two small instances. *)
EXTENDS IdentityApi, TLC

CONSTANTS a1, a2, k1, n1, n2

Document(a, n, t, complete) ==
  [agent |-> a, signer |-> k1, nonce |-> n, issuedAt |-> t, complete |-> complete]

\* One agent's documents: n1 is fresh from the start and goes stale, n2 is dated
\* in the future and becomes fresh.
TwoDocuments == { Document(a1, n1, 0, TRUE), Document(a1, n2, 2, TRUE) }

\* Two agents' documents, each of which may be presented for the other agent,
\* and one that lacks a required claim.
MixedDocuments ==
  { Document(a1, n1, 0, TRUE), Document(a2, n2, 2, TRUE), Document(a1, n1, 0, FALSE) }

\* Workers are interchangeable: nothing compares them or chooses one.
WorkerSymmetry == Permutations(SessionWorkers)
=============================================================================
