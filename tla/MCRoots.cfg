SPECIFICATION Spec
CONSTANTS
  A = A
  B = B
  x = x
  y = y
  None = None
  Folder = {A, B}
  File = {x, y}
  Refused = {y}
  Place <- MCPlace
  Originals <- MCOriginals
  Given <- MCGiven
  Configs <- MCConfigs
  MaxEdits = 2
  MaxConfigs = 2
INVARIANTS
  NumbersKeepFolders
  NewKeysDistinct
PROPERTY
  RetiredForCause
CHECK_DEADLOCK FALSE
