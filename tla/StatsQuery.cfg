SPECIFICATION StatsSpec
CONSTANTS
  Hour = 2
  Day = 4
  Now = 10
  Clocks = {5, 10, 12}
  Zones = {0, 1, 2}
  RetentionDays = 1
  MaxFilled = 2
  DefaultDays = 3
  Absent = Absent
  Asked = {0, 1, 3, 4, 6, 9, 13}
  Times = {1, 3, 4, 7, 10}
  MaxRows = 3
INVARIANTS ServedRange LaterScansSeeMore ChartShowsAll
CHECK_DEADLOCK FALSE
