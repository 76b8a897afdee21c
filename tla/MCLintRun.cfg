SPECIFICATION FairSpec
CONSTANTS
  Files <- MCFiles
  Dirs <- MCDirs
  Root = 1
  DirOf <- MCDirOf
  PeerOf <- MCPeerOf
  Above <- MCAbove
  Hidden = {3}
  Codes = {"E001", "E003", "E008", "W001"}
  Warnings = {"W001"}
  Trees <- MCTrees
  Unreadables = {{}, {1}, {2}}
  Filters <- MCFilters
INVARIANTS
  NoFalseClean
  ToolTroubleIsLoud
  ReportExact
  FixedFilesExact
  OneLateWrite
  FixCancelSeen
PROPERTIES
  Terminates
CHECK_DEADLOCK FALSE
