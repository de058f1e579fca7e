SPECIFICATION Spec
CONSTANTS
  Producers = {p1, p2}
  Consumer = consumer
  BUFFER_LEN = 3
  ChannelType = "CHANNEL_ASYNC"
  Data = {d1, d2}
  NoData = NoData
  Lapping = FALSE
SYMMETRY Symmetry
INVARIANTS ExclusiveSlot DispatchComplete ClaimFree NoStrandedRecord SoleDispatcher IndInv
PROPERTIES ImplementsQueue
CHECK_DEADLOCK FALSE
