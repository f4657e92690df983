\* One agent, one runtime, one exchange.
SPECIFICATION AccessSpec
CONSTANTS
  a1 = a1
  k1 = k1
  n1 = n1
  Agents = {a1}
  Blueprints = {b1}
  Keys = {k1}
  NoKey = NoKey
  Delegations = {}
  NoDelegation = NoDelegation
  Nonces = {n1}
  Evidence <- OneDocument
  Second = 2
  RequestTtls = {1}
  SettingsMaxTtl = 1
  MaxSkew = 1
  SessionWorkers = {w1}
  MaxSessions = 1
  AdminWorkers = {}
  BlueprintWorkers = {}
  DelegationWorkers = {}
  Slugs = {s1}
  CreateTtls = {60}
  UpdateTtls = {60}
  NullTtl = NullTtl
  MaxVersion = 1
  DelegationTtls = {1}
  MaxTime = 2
  MaxRestarts = 0
  Scopes = {"repo:read", "issues:write"}
  Environments = {"dev"}
  Calls = {}
  Profiles <- ReaderOrResearcher
  CallOperations = {"github.search_code", "github.create_issue", "github.read_file"}
  Exchangers = {x1}
  SessionIds = {1, 2}
  LeaseTtl = 1
  MaxAccesses = 1
INVARIANTS ExchangeWithinSession
