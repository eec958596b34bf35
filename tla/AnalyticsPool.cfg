SPECIFICATION Spec
CONSTANTS
  Requests = {stats, logs, tokens}
  Heavy = {logs}
  MaxWorkers = 2
  Shutdown = Shutdown
INVARIANTS EachWorkerOneShutdown NobodyLeftBehind
PROPERTIES HeavyBlocksNoOther ShutdownReturns
CHECK_DEADLOCK FALSE
