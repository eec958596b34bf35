SPECIFICATION Spec
CONSTANTS
  Requests = {r1, r2}
  Admins = {a1, a2}
  Names = {m1}
  Providers = {p1, p2}
  CacheMaxEntries = 1
  NoRow = NoRow
SYMMETRY Symmetry
INVARIANTS StaleModelOnlyThroughRace HiddenModelOnlyThroughRace StaleClientOnlyThroughRace
CHECK_DEADLOCK FALSE
