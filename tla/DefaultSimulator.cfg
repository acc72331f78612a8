SPECIFICATION Spec
CONSTANTS
  MaxEvents = 4
  Delays = {0, 1}
  UidLimit = 16
INVARIANTS TypeOK ExpiryExact FlagTruthful
PROPERTY FifoOrder
CHECK_DEADLOCK FALSE
