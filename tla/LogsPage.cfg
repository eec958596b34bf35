SPECIFICATION Spec
CONSTANTS
  Kinds = {a, b}
  Filters = {a}
  All = All
  PerPages = {1, 2}
  MaxPerPage = 2
  MaxOffset = 2
  MaxRows = 4
  Ties = 3
INVARIANTS BarTellsTheTruth EmptyPageExplained WalkSeesAll
CHECK_DEADLOCK FALSE
