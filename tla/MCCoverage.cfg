SPECIFICATION CoverageSpec
CONSTANTS
  Dates <- MCDates
  Specs <- MCSpecs
  Fronts <- MCFronts
  MaxToken = 1
  Absent = Absent
  Bad = Bad
INVARIANTS
  RangeIsOverlap
  SuppressedIsRead
  CoverageReportedForDays
CHECK_DEADLOCK FALSE
