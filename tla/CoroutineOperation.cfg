SPECIFICATION FairSpec
CONSTANTS
  Leaf = Leaf
  inner = inner
  outer = outer
  other = other
  Awaiters = {inner, outer, other}
  Child <- MCChild
  Values = {shutdown, timeout}
  Own = Own
  None = None
INVARIANTS TypeOK NoDangling NoLeak FirstEndWins
PROPERTY AwaitersEnd
CHECK_DEADLOCK FALSE
