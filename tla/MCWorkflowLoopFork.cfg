CONSTANTS
  Name = {"v", "w", "x", "y", "z", "i"}
  CallerInputs = {"i", "x"}
  Workflows <- LoopForkWorkflows
SPECIFICATION Spec
INVARIANTS
  ContextFresh
CHECK_DEADLOCK FALSE
