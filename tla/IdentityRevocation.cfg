\* One agent, one administrator, one runtime, one grant, one restart.
SPECIFICATION ApiSpec
CONSTANTS
  a1 = a1
  a2 = a2
  k1 = k1
  n1 = n1
  n2 = n2
  Agents = {a1}
  Blueprints = {b1}
  Keys = {k1}
  NoKey = NoKey
  Delegations = {d1}
  NoDelegation = NoDelegation
  Nonces = {n1, n2}
  Evidence <- TwoDocuments
  Second = 2
  RequestTtls = {2}
  SettingsMaxTtl = 1
  MaxSkew = 1
  SessionWorkers = {w1}
  MaxSessions = 2
  AdminWorkers = {adm}
  BlueprintWorkers = {}
  DelegationWorkers = {dw}
  Slugs = {s1}
  CreateTtls = {60}
  UpdateTtls = {60}
  NullTtl = NullTtl
  MaxVersion = 1
  DelegationTtls = {1}
  MaxTime = 2
  MaxRestarts = 1
INVARIANTS ApiTypeOK TokenMatchesSession AttestationHasSession
PROPERTIES ShutAgentGetsNothing ShutGrantBacksNothing
