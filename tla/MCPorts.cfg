SPECIFICATION Spec
CONSTANTS
  FileNames = {f1, f2}
  Contents <- Mixed
  NoFile = NoFile
  MaxEdits = 1
INVARIANTS
  TypeOK
  EveryPortOnce
  LabelsRightExactly
  BusRightExactly
CHECK_DEADLOCK TRUE
