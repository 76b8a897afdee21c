SPECIFICATION Spec
CONSTANTS
  Procs = {p1, p2}
  Names = {t1, t2}
  Modes = {"0640", "0644"}
  MaxEdits = 2
INVARIANTS
  WholeFile
  TempReaped
PROPERTIES
  ModeKept
  SeenSwapRefused
  OnlyRacedEditsLost
  ReplacesAtomically
CHECK_DEADLOCK FALSE
