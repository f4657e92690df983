\* Two requests in flight on one agent.
SPECIFICATION Spec
CONSTANTS
  Agents = {a1}
  Blueprints = {b1}
  Keys = {k1}
  NoKey = NoKey
  Workers = {w1, w2}
PROPERTIES RevokedIsTerminal
