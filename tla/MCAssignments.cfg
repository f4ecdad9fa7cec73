SPECIFICATION AssignmentsSpec
CONSTANTS
  AllRows <- MCRows
  AllWindows <- MCWindows
  Limits = {3, 4}
  MaxEdits = 1
INVARIANTS
  PlanPartitions
  ExecutedAsListed
CHECK_DEADLOCK FALSE
