SPECIFICATION Spec
CONSTANTS
  Arguments <- MCArgs
  CommandLines <- MCShortLines
  CodesOf <- MCCodesOf
  KnownCodes = {"E001", "E003", "E008"}
  UnknownFlags = {"-x"}
  PerViolation = 8
  SummaryBytes = 4
  MaxPreGrow = 64
  Half = 128
  MaxRunes = 5
  Counts <- MCCounts
INVARIANT EndsAsDocumented
CHECK_DEADLOCK FALSE
