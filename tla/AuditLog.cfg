\* Two writers in flight, two kinds of data, two of the other columns.
SPECIFICATION AuditSpec
CONSTANTS
  plain = plain
  large = large
  Data = {plain, large}
  ReadBack <- ReadBackLarge
  Columns = {c1, c2}
  Writers = {w1, w2}
  MaxEvents = 3
  MaxTime = 2
SYMMETRY Symmetry
INVARIANTS AuditTypeOK LinksResolve AlarmsExplained HashedTamperEvident
PROPERTIES ExtendsTrail
