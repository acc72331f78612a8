SPECIFICATION FairSpec
CONSTANTS
  Events <- MCEvents
  Leaves <- MCLeaves
  LeafOf <- MCLeafOf
  Bytes <- MCBytes
  TPred <- MCTPred
  Modes = {"AGING", "FIFO", "SJF", "SRPT"}
  Rslot = 3
  Capacity = 7
  Wsearch = 2
  Epoch = 3
  Helig = 1
  LocalDelay = 2
  LocalGap = 1
  PhaseGap = 1
  LastArrival = 4
  MaxTime = 12
  LastSlot = 19
  None = None
INVARIANTS
  TypeOK
  QuotaConserved
  SourceConserved
PROPERTIES
  CommitInFuture
  EventuallyAdmitted
CHECK_DEADLOCK FALSE
