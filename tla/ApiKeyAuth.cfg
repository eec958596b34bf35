SPECIFICATION Spec
CONSTANTS
  Requests = {r1, r2}
  Admins = {a1, a2}
  Issuable = {k1}
  Bogus = {b1}
  MaxPermits = 1
  CacheMaxEntries = 1
  NoRow = NoRow
SYMMETRY Symmetry
INVARIANTS TypeOK StaleOnlyThroughRace PermitsConserved NegativeHidesNoKey
PROPERTIES AcceptedKeyIsLive
CHECK_DEADLOCK FALSE
