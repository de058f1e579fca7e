SPECIFICATION Spec
CONSTANTS
  Callers = {t1, t2}
  ChannelSize = 2
  ChannelType <- MCChannelType
  NoThread = NoThread
INVARIANT NoCircularWait
CHECK_DEADLOCK FALSE
