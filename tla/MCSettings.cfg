SPECIFICATION Spec
CONSTANTS
  Objects = {o1, o2}
  Platforms = {"Windows", "Linux"}
  Host = "Windows"
  Fields = {"ED247", "LibXML2"}
  Texts = {"", "d1", "d2"}
  Folders = {"d1", "d2"}
  Contents <- Files
  MaxChanges = 2
SYMMETRY ObjectsAreAlike
INVARIANTS
  TypeOK
PROPERTIES
  OtherGroupsKept
  UpdatesKept
  SetValuesReachFile
CHECK_DEADLOCK TRUE
