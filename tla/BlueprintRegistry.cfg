\* Two requests in flight, two blueprint ids competing for two slugs.
SPECIFICATION Spec
CONSTANTS
  Blueprints = {b1, b2}
  Slugs = {s1, s2}
  CreateTtls = {60}
  UpdateTtls = {0, 60}
  NullTtl = NullTtl
  BlueprintWorkers = {w1, w2}
  MaxVersion = 3
INVARIANTS BlueprintTypeOK SlugUnique
PROPERTIES PutKeepsStatus VersionsCountPuts
