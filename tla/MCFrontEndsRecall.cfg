CONSTANTS
  Conversations = {"s", "t"}
  Turns <- MCTurns
  Invocations = {"i", "j"}
  Cases <- MCCases
  RecallEvents = 4
  FieldCap = 4000
  ToolCap = 10000
  Notice = 29
  Framing = 100
SPECIFICATION Spec
PROPERTIES
  RecallsLastTurn
CHECK_DEADLOCK FALSE
