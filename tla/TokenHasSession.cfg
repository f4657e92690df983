\* One agent, one runtime.
SPECIFICATION ApiSpec
CONSTANTS
  a1 = a1
  a2 = a2
  k1 = k1
  n1 = n1
  n2 = n2
  Agents = {a1}
  Blueprints = {b1}
  Keys = {k1}
  NoKey = NoKey
  Delegations = {}
  NoDelegation = NoDelegation
  Nonces = {n1, n2}
  Evidence <- TwoDocuments
  Second = 2
  RequestTtls = {2}
  SettingsMaxTtl = 1
  MaxSkew = 1
  SessionWorkers = {w1}
  MaxSessions = 2
  AdminWorkers = {adm}
  BlueprintWorkers = {}
  DelegationWorkers = {}
  Slugs = {s1}
  CreateTtls = {60}
  UpdateTtls = {60}
  NullTtl = NullTtl
  MaxVersion = 1
  DelegationTtls = {1}
  MaxTime = 2
  MaxRestarts = 1
INVARIANTS TokenHasSession
