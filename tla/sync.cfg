SPECIFICATION FairSpec
CONSTANTS
  Producers = {p1, p2}
  Consumer = consumer
  BUFFER_LEN = 3
  ChannelType = "CHANNEL_SYNC"
  Data = {d1}
  NoData = NoData
  Lapping = FALSE
INVARIANTS NoStrandedSlot NoStrandedPublished
PROPERTIES ImplementsQueue RecordDispatched RingDrains
CHECK_DEADLOCK FALSE
