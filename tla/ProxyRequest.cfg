SPECIFICATION Spec
CONSTANTS
  Chunks <- MCChunks
  MaxBuffer = 4
  MaxBytes = 7
  MaxInput = 8
INVARIANTS ExactlyOneRecord RecordMatchesAnswer NothingHeldBack NoByteLost ReportedUsageIsRecorded
PROPERTIES ParkedIsWoken
CHECK_DEADLOCK FALSE
