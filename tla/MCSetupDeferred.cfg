SPECIFICATION Spec
CONSTANTS
  P = P
  Q = Q
  a = a
  b = b
  m = m
  n = n
  None = None
  Absent = Absent
  Broken = Broken
  Runner = {P}
  Flags <- FewFlags
  Stops = FALSE
  MaxRuns = 2
  MaxEdits = 2
PROPERTY
  DeferredCommitIsMade
CHECK_DEADLOCK FALSE
