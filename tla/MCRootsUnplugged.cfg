SPECIFICATION Spec
CONSTANTS
  A = A
  B = B
  x = x
  y = y
  None = None
  Folder = {A, B}
  File = {x, y}
  Refused = {y}
  Place <- MCPlace
  Originals <- Fresh
  Given = {None}
  Configs <- MCConfigs
  MaxEdits = 2
  MaxConfigs = 0
PROPERTY
  InaccessibleRetiresNothing
CHECK_DEADLOCK FALSE
