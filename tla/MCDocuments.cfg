SPECIFICATION DocumentsSpec
CONSTANTS
  Null = Null
  Units <- MCUnits
INVARIANTS
  SectionsReadBack
  EverySectionIndexed
  DatesAreHonest
CHECK_DEADLOCK FALSE
