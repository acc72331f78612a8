SPECIFICATION FairSpec
CONSTANTS
  GroupSize = 3
  Size = 4
  Header = 1
PROPERTY RingCompletes
CHECK_DEADLOCK FALSE
