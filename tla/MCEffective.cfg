SPECIFICATION Spec
CONSTANT Modules <- MCModules
INVARIANTS
  ParsedIntact
  LastOverrideWins
  VerdictsAsWritten
  NestedTogether
  TerraformSelections
PROPERTY StickySettings
CHECK_DEADLOCK FALSE
