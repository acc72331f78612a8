SPECIFICATION FairSpec
CONSTANTS
  Ranks <- MCRanks
  Events <- MCEvents
  Group <- MCGroup
  GroupSize <- MCGroupSize
  GlobalNodes = 4
  Flow <- MCFlow
  StartTime <- MCStartTime
  ComputeTime <- MCComputeTime
  ReadyTimes <- MCReadyTimes
  ExchangeTimes <- MCExchangeTimes
  DeltaT = 2
  Backoff = 4
  JitterStep = 3
  Rslot = 2
  GlobalLimit = 2
  RankLimit = 2
  HorizonT = 3
  ShortHorizon = 2
  Slack = 1
  InitialSize = 6
  MaxTime = 60
  None = None
INVARIANTS
  TypeOK
  LedgerConserved
  GangAdmission
  NoStartBeforeReservation
  SearchInBounds
  PendingRevisited
PROPERTIES
  EarliestFit
  GiveUpOnlyIfFull
  AllTasksComplete
CHECK_DEADLOCK FALSE
