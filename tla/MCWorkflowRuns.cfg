CONSTANTS
  Name = {"v", "w", "x", "y", "z", "i"}
  CallerInputs = {"i", "x"}
  Workflows <- AllWorkflows
SPECIFICATION FairSpec
INVARIANTS
  TypeOK
  ReferencesResolve
  OutputsComplete
  FreshOutsideLoopForks
  NoOrphan
  SiblingIsolation
  CallCounts
PROPERTIES
  ChildrenRunToCompletion
  Terminates
CHECK_DEADLOCK FALSE
