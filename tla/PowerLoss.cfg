SPECIFICATION PowerSpec
CONSTANTS
  Procs = {p1}
  Names = {t1}
  Modes = {"0640", "0644"}
  MaxEdits = 2
INVARIANTS
  WholeAfterPowerLoss
CHECK_DEADLOCK FALSE
