SPECIFICATION FairSpec
CONSTANTS
  Producers = {p1, p2}
  BUFFER_LEN = 3
  MaxRecords = 3
  MaxCrashes = 2
  MaxStops = 1
  InFlightStop = FALSE
INVARIANTS UntaggedIsWhole RepeatsBounded
PROPERTIES CommittedIsDelivered Restarts
CHECK_DEADLOCK FALSE
