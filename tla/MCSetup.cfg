SPECIFICATION Spec
CONSTANTS
  P = P
  Q = Q
  a = a
  b = b
  m = m
  n = n
  None = None
  Absent = Absent
  Broken = Broken
  Runner = {P, Q}
  Flags <- MCFlags
  Stops = TRUE
  MaxRuns = 3
  MaxEdits = 2
SYMMETRY Runners
PROPERTIES
  NothingDropped
  CommitsItsChanges
CHECK_DEADLOCK FALSE
