SPECIFICATION WatchdogSpec
CONSTANTS
  MaxOps = 3
  MaxStmts = 2
PROPERTIES NoFalseAlarm OverrunIsEnded
CHECK_DEADLOCK FALSE
