SPECIFICATION Spec
CONSTANTS
  A = A
  B = B
  x = x
  y = y
  None = None
  Folder = {A, B}
  File = {x, y}
  Refused = {}
  Place <- MCPlace
  Originals <- Fresh
  Given = {None}
  Configs <- MCConfigs
  MaxEdits = 0
  MaxConfigs = 3
INVARIANT
  CountedOnce
CHECK_DEADLOCK FALSE
