SPECIFICATION Spec
CONSTANTS
  Files <- MCFiles
  Dirs <- MCDirs
  Root = 1
  DirOf <- MCDirOf
  PeerOf <- MCPeerOf
  Above <- MCAbove
  Hidden = {3}
  Codes = {"E001", "E003", "E008", "W001"}
  Warnings = {"W001"}
  Trees <- OrderTrees
  Unreadables = {{}}
  Filters = {{}}
INVARIANTS
  ReportOrdered
CHECK_DEADLOCK FALSE
