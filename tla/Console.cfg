SPECIFICATION ConsoleSpec
CONSTANTS
  Ids = {i1}
  Pages = {"patched", "reloaded"}
  MaxOps = 1
  Ranges = {week, other}
  Week = week
  MaxCached = 1
  Visits = 2
INVARIANTS ListAgrees RefreshIsFresh SavedChangeIsSeen
CHECK_DEADLOCK FALSE
