SPECIFICATION FairSpec
CONSTANTS
  Selection <- MCSelection
  Published <- MCPublished
  Budgets = {6, 9}
  LargeHeader = 2
  Continued = 1
  MaxRevision = 1
INVARIANTS
  ReadExact
  CutsAreForced
PROPERTIES
  ReadEnds
CHECK_DEADLOCK FALSE
