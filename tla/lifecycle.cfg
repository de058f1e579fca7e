SPECIFICATION FairSpec
CONSTANTS
  Callers = {t1, t2}
  ChannelSize = 3
  ChannelType <- MCChannelType
  NoThread = NoThread
INVARIANTS RunningIsStarted UninitIsQuiet UpdateAlone
PROPERTIES StateCycle StopReturns StartReturns
CHECK_DEADLOCK FALSE
