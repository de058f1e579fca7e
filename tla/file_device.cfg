SPECIFICATION Spec
CONSTANTS
  Configs <- AllConfigs
  DayStart <- Calendar
  Day = 4
  Hour = 2
  Retry = 1
  Disorder = 1
  MaxRecords = 4
  MaxFailures = 1
  MaxRestarts = 1
INVARIANTS RollingKeepsNewest SizeLimit FileOfTheDay SkippedWithCause
PROPERTIES NoEarlyRoll
CHECK_DEADLOCK FALSE
