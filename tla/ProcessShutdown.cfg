SPECIFICATION Spec
CONSTANTS
  Requests = {r1, r2}
  LogCap = 1
  LokiCap = 1
  LokiBatch = 2
  MaxSignals = 3
  Shutdown = Shutdown
INVARIANTS RecordsSurvive
PROPERTIES ProcessEnds
CHECK_DEADLOCK FALSE
