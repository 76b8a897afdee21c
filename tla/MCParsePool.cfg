SPECIFICATION FairSpec
CONSTANTS
  MaxEntries = 6
  Threshold = 4
  Limit = 2
INVARIANTS
  NilMeansComplete
  PartialResultsKept
  PromptCancel
PROPERTIES
  NoWriteAfterReturn
  Returns
  LoadsDirectory
CHECK_DEADLOCK FALSE
