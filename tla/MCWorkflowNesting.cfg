CONSTANTS
  WorkflowFiles <- MCFiles
  Paths <- MCPaths
  Dirs <- MCDirs
  DirOf <- MCDirOf
  Target <- MCTarget
  Leaf = "leaf"
  Docs <- MCDocs
  Disks <- MCDisks
  Written <- MCWritten
  Start = "main"
  Base = "root"
  MaxDepth = 2
  MaxEdits = 1
SPECIFICATION FairSpec
INVARIANTS
  TypeOK
  Reentry
  LookAhead
  VerdictSound
PROPERTIES
  Terminates
CHECK_DEADLOCK FALSE
