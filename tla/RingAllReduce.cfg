SPECIFICATION FairSpec
CONSTANTS
  GroupSize = 3
  Size = 5
  Header = 1
INVARIANTS
  TypeOK
  StreamAligned
  AllReduced
PROPERTY RingCompletes
