SPECIFICATION FairSpec
CONSTANTS
  Ranks = {0, 1, 2}
  Root = 0
  LastRound = 3
INVARIANTS
  TypeOK
  NoneFails
PROPERTIES
  BarrierSpec
  ProgramEnds
CHECK_DEADLOCK FALSE
