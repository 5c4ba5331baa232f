SPECIFICATION Spec
CONSTANTS
  AllPaths <- FivePaths
  EcicPaths <- TwoEcics
  EcicContents <- Ecics
  IcdContents <- Icds
  NoFile = NoFile
  MaxEdits = 1
INVARIANTS
  TypeOK
  ExitsExactly
  RunningPortsAreRight
CHECK_DEADLOCK FALSE
