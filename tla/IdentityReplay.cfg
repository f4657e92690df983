\* Two agents' runtimes at once, replayed documents, a blueprint manager, one restart.
SPECIFICATION ApiSpec
CONSTANTS
  a1 = a1
  a2 = a2
  k1 = k1
  n1 = n1
  n2 = n2
  Agents = {a1, a2}
  Blueprints = {b1}
  Keys = {k1}
  NoKey = NoKey
  Delegations = {}
  NoDelegation = NoDelegation
  Nonces = {n1, n2}
  Evidence <- MixedDocuments
  Second = 2
  RequestTtls = {2}
  SettingsMaxTtl = 1
  MaxSkew = 1
  SessionWorkers = {w1, w2}
  MaxSessions = 2
  AdminWorkers = {}
  BlueprintWorkers = {bw}
  DelegationWorkers = {}
  Slugs = {s1}
  CreateTtls = {60}
  UpdateTtls = {0, 60}
  NullTtl = NullTtl
  MaxVersion = 2
  DelegationTtls = {1}
  MaxTime = 2
  MaxRestarts = 1
SYMMETRY WorkerSymmetry
INVARIANTS NonceBacksOneSession EverySessionAttested
PROPERTIES KeepsLedger ShutBlueprintOpensNothing ZeroTtlOpensNoLife
