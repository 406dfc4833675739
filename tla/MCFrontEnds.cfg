CONSTANTS
  Conversations = {"s", "t"}
  Turns <- MCTurns
  Invocations = {"i", "j"}
  Cases <- MCCases
  RecallEvents = 4
  FieldCap = 4000
  ToolCap = 10000
  Notice = 29
  Framing = 100
SPECIFICATION Spec
INVARIANTS
  TypeOK
  CleanExit
  NoSilentLoss
  RecallInOrder
  SameAnswer
CHECK_DEADLOCK FALSE
