SPECIFICATION Spec
CONSTANTS
  P = P
  Q = Q
  a = a
  b = b
  c = c
  Project = {P, Q}
  Unit = {a, b}
  NameOf <- MCNameOf
  Refused = {}
  Version <- OneRelease
  MaxEdits = 0
  MaxSyncs = 2
PROPERTY
  NeverNeitherGeneration
CHECK_DEADLOCK FALSE
