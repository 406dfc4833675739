SPECIFICATION FairSpec
CONSTANTS
  a = a
  b = b
  c = c
  Model = {a, b, c}
  Routes <- MCRoutes
  MaxTurns = 1
  MaxChanges = 1
INVARIANTS TypeOK ChainOrder WalkRecorded DeadSkipped SteadyAsked
PROPERTY WalkEnds
CHECK_DEADLOCK FALSE
