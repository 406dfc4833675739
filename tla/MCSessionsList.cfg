CONSTANTS
  Request = {r1, r2, r3, r4}
  Name = {a}
  Ops = {"create", "list", "delete", "turn"}
  RecallEvents = 1
  MaxRestarts = 0
  None = None
SPECIFICATION Spec
SYMMETRY Requests
INVARIANTS
  TurnsNeverBlockTheMap
CHECK_DEADLOCK FALSE
