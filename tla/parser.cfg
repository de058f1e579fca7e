SPECIFICATION FairSpec
CONSTANTS
  Words <- AllWords
  Indents = {0, 1, 2}
  MaxLines = 6
  MAX_CHANNEL_SIZE = 2
  MAX_DEVICE_SIZE = 2
  PastZero = FALSE
INVARIANTS KeysReachTheirOwner ErrorLine VirtualDevice
PROPERTIES Terminates
CHECK_DEADLOCK FALSE
