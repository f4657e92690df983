\* One writer, one event.
SPECIFICATION AuditSpec
CONSTANTS
  plain = plain
  large = large
  Data = {plain, large}
  ReadBack <- ReadBackLarge
  Columns = {c1, c2}
  Writers = {w1}
  MaxEvents = 1
  MaxTime = 1
INVARIANTS ModificationDetected
