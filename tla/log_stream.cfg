SPECIFICATION FairSpec
CONSTANTS
  Producers = {p1, p2}
  Channels <- MCChannels
  Target = "b"
  Capacity = 1
  Configs <- TwoConfigs
  Messages <- MCMessages
  LOG_SIZE = 3
  Prefix = 0
  Reserve = 2
  Blanks = 2
  MaxCalls = 2
  MaxUpdates = 1
INVARIANTS ContentFits FiltersAgree CopyComesFirst
PROPERTIES Drains
CHECK_DEADLOCK FALSE
