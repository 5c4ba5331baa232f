SPECIFICATION Spec
CONSTANTS
  FileNames = {f1, f2}
  Contents <- WithoutA825
  NoFile = NoFile
  MaxEdits = 1
INVARIANTS
  BusConnectsAllSignals
CHECK_DEADLOCK TRUE
