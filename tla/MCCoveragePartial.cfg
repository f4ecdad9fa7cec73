SPECIFICATION CoverageSpec
CONSTANTS
  Dates <- OneDate
  Specs <- MCSpecs
  Fronts <- OneFront
  MaxToken = 1
  Absent = Absent
  Bad = Bad
INVARIANT
  CoverageReported
CHECK_DEADLOCK FALSE
