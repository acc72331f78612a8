SPECIFICATION FairSpec
CONSTANTS
  s1 = s1
  s2 = s2
  r1 = r1
  r2 = r2
  None = None
  Callers = {s1, s2, r1, r2}
  Side <- MCSide
  Program <- MCProgram
  BufferSize = 2
  MaxBlocks = 1
INVARIANTS TypeOK NoOperationLost NoLostWakeup
PROPERTIES StreamOrder AllEnd
CHECK_DEADLOCK FALSE
