SPECIFICATION AssignmentsSpec
CONSTANTS
  AllRows <- FewRows
  AllWindows <- NoWindows
  Limits = {3, 6}
  MaxEdits = 1
INVARIANT
  RevisionPartitions
CHECK_DEADLOCK FALSE
