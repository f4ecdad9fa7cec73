SPECIFICATION FairSpec
CONSTANTS
  Budget = 6
  Header = 1
  CursorCost = 1
  HitCap = 3
  ListCap = 2
  MaxRevision = 1
  Content <- MCContent
  Published <- MCChanging
  Null = Null
INVARIANTS
  FailsOnlyOverOneRow
  RowsOnceInOrder
PROPERTIES
  EndMeansAll
  EnumerationEnds
CHECK_DEADLOCK FALSE
