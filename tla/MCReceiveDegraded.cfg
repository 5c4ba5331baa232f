SPECIFICATION GenSpec
CONSTANTS
  NStreams = 3
  NSignals = 3
  StreamOf <- DegradedStreamOf
  KindOf <- DegradedKindOf
  Validity <- DegradedValidity
  SampleTime = 2
  MaxCounter = 3
  RefreshFactor = 1
  ReadMayFail = TRUE
INVARIANTS
  RefreshSound
  RefreshComplete
  GeneratedAgrees
PROPERTIES
  StaleOnlyAfterEarlyReturn
CHECK_DEADLOCK TRUE
