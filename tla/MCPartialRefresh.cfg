SPECIFICATION Spec
CONSTANTS
  NStreams = 1
  Size <- LoneSize
  KindOf <- LoneKindOf
  ChannelOf <- LoneChannelOf
  MayRefuse = {}
  MayNotRead = {}
  MayBeUnknown = {}
  EnableRefresh = TRUE
  MaxSends = 2
INVARIANTS
  ReceivedMatchesSent
CHECK_DEADLOCK TRUE
