SPECIFICATION Spec
CONSTANTS
  Arguments <- MCArgs
  CommandLines <- MCCommandLines
  CodesOf <- MCCodesOf
  KnownCodes = {"E001", "E003", "E008"}
  UnknownFlags = {"-x"}
  PerViolation = 8
  SummaryBytes = 4
  MaxPreGrow = 64
  Half = 128
  MaxRunes = 6
  Counts <- MCCounts
INVARIANTS
  OrderIrrelevant
  TextsExact
  CapacityExact
  VerdictDelivered
CHECK_DEADLOCK FALSE
