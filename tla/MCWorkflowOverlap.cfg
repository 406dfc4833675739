CONSTANTS
  Name = {"v", "w", "x", "y", "z", "i"}
  CallerInputs = {"i", "x"}
  Workflows <- OverlapWorkflows
SPECIFICATION Spec
INVARIANTS
  ChildrenDisjoint
CHECK_DEADLOCK FALSE
