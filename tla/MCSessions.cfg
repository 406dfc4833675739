CONSTANTS
  Request = {r1, r2, r3}
  Name = {a, b}
  Ops = {"create", "list", "delete", "turn"}
  RecallEvents = 1
  MaxRestarts = 1
  None = None
SPECIFICATION FairSpec
INVARIANTS
  TypeOK
  ContextCurrent
  RecordsRemembered
PROPERTIES
  StoreSpec
  EveryRequestEnds
  MapNeverWaits
CHECK_DEADLOCK FALSE
