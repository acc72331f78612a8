SPECIFICATION Spec
CONSTANTS
  Ranks = {0, 1, 2}
  Root = 0
  LastRound = 1
INVARIANT GracefulStop
CHECK_DEADLOCK FALSE
