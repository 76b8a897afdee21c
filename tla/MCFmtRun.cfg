SPECIFICATION Spec
CONSTANTS
  Files <- MCFiles
  Dirs <- MCDirs
  Root = 1
  DirOf <- MCDirOf
  PeerOf <- MCPeerOf
  Above <- MCAbove
  Hidden = {3}
  Codes = {"E001", "E003", "E008", "W001"}
  Trees <- MCTrees
  Unreadables = {{}, {1}, {2}}
  Single = 3
INVARIANTS
  ZeroMeansFormatted
  ThreeMeansDirt
  RewritesArePrinted
PROPERTIES
  FailuresIsolated
CHECK_DEADLOCK FALSE
