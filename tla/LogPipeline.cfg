SPECIFICATION FairSpec
CONSTANTS
  Access = {e1}
  Proxy = {e2}
  Audit = {e3}
  OldRows = {o1}
  ChannelCap = 2
  FlushBatch = 2
  RetentionEvery = 2
  Shutdown = Shutdown
INVARIANTS EachEventOnce ShutdownFlushes
PROPERTIES WholeBatches BufferedIsResolved ImplementsEventLog
CHECK_DEADLOCK FALSE
