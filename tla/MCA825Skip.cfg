SPECIFICATION Spec
CONSTANTS
  NStreams = 3
  Size <- MixedSize
  KindOf <- MixedKindOf
  ChannelOf <- MixedChannelOf
  MayRefuse = {3}
  MayNotRead = {}
  MayBeUnknown = {}
  EnableRefresh = FALSE
  MaxSends = 2
INVARIANTS
  A825FailureIgnored
CHECK_DEADLOCK TRUE
