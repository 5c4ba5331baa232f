SPECIFICATION FairSpec
CONSTANTS
  NStreams = 3
  NSignals = 3
  StreamOf <- NominalStreamOf
  KindOf <- NominalKindOf
  Validity <- NominalValidity
  SampleTime = 2
  MaxCounter = 3
  RefreshFactor = 1
  ReadMayFail = FALSE
INVARIANTS
  TypeOK
  RefreshMeansReceived
PROPERTIES
  SilenceIsDetected
  KeepsPromise
CHECK_DEADLOCK TRUE
