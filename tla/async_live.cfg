SPECIFICATION FairSpec
CONSTANTS
  Producers = {p1, p2}
  Consumer = consumer
  BUFFER_LEN = 2
  ChannelType = "CHANNEL_ASYNC"
  Data = {d1}
  NoData = NoData
  Lapping = FALSE
PROPERTIES RecordDispatched StopJoins
CHECK_DEADLOCK FALSE
