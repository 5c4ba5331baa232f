SPECIFICATION Spec
CONSTANTS
  Files <- FourStreams
  MaxStreams = 3
  MaxSignals = 4
  LibraryMayFail = TRUE
INVARIANTS
  TypeOK
  ListsEnumerateSignals
  SignalsOfTheirStream
  CountedStreamsAreFilled
  OverflowIsReported
  LossIsReported
  RoomIsEnough
CHECK_DEADLOCK FALSE
