\* Two requests in flight on one agent, two keys.
SPECIFICATION FairSpec
CONSTANTS
  Agents = {a1}
  Blueprints = {b1}
  Keys = {k1, k2}
  NoKey = NoKey
  Workers = {w1, w2}
INVARIANTS TypeOK StampedStatus
PROPERTIES StampsPermanent SettledRevocationIsFinal RevocationSettles FreshCommitsFollowLifecycle
