SPECIFICATION Spec
CONSTANTS
  Arguments <- MCArgs
  CommandLines <- MCShortLines
  CodesOf <- MCCodesOf
  KnownCodes = {"E001", "E003", "E008"}
  UnknownFlags = {"-x"}
  PerViolation = 8
  SummaryBytes = 4
  MaxPreGrow = 64
  Half = 128
  MaxRunes = 0
  Counts <- MCCounts
INVARIANT FailedWritesReported
CHECK_DEADLOCK FALSE
