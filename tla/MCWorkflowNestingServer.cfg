CONSTANTS
  WorkflowFiles <- MCFiles
  Paths <- MCPaths
  Dirs <- MCDirs
  DirOf <- MCDirOf
  Target <- MCTarget
  Leaf = "leaf"
  Docs <- MCDocs
  Disks <- MCDisks
  Written <- MCWritten
  Start = "b"
  Base = "root"
  MaxDepth = 2
  MaxEdits = 0
SPECIFICATION Spec
INVARIANTS
  RelativeToParent
CHECK_DEADLOCK FALSE
