CONSTANTS
  Links <- MCLinks
  SThread = {1, 2}
  RThread = {1, 2}
  BufLen = 3
  MaxMsg = 3
  MaxFault = 2
SPECIFICATION FairSpec
INVARIANT WholeInOrder
PROPERTIES ChannelSpec SendReturns
CHECK_DEADLOCK FALSE
