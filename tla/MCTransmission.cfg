SPECIFICATION FairSpec
CONSTANTS
  NStreams = 3
  Size <- MixedSize
  KindOf <- MixedKindOf
  ChannelOf <- MixedChannelOf
  MayRefuse = {1, 3}
  MayNotRead = {2}
  MayBeUnknown = {2}
  EnableRefresh = TRUE
  MaxSends = 2
INVARIANTS
  TypeOK
  WholeSendsMatch
PROPERTIES
  WholeSendsAreSteps
  NeverGoesBack
  LastSendArrives
CHECK_DEADLOCK TRUE
