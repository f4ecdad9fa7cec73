SPECIFICATION DocumentsSpec
CONSTANTS
  Null = Null
  Units <- FindingUnits
INVARIANTS
  ReadsBack
  KeepsSections
  NoFileAborts
  PeriodsCoverReadings
CHECK_DEADLOCK FALSE
