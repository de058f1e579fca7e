SPECIFICATION Spec
CONSTANTS
  Producers = {p1, p2}
  BUFFER_LEN = 3
  MaxRecords = 3
  MaxCrashes = 0
  MaxStops = 1
  InFlightStop = TRUE
INVARIANTS UntaggedIsWhole
CHECK_DEADLOCK FALSE
