SPECIFICATION FairSpec
CONSTANTS
  old = old
  foreign = foreign
  fresh = fresh
  garbled = garbled
  Items = {old, foreign, fresh, garbled}
  At <- MCAt
  Raw <- MCRaw
  History = 3
  Overlap = 1
  MaxCatchup = 2
  Retention = 4
  PageLimit = 1
  MaxPages = 3
  Window = 1
  Concurrency = 1
  Start = 4
  MaxNow = 6
  MaxFaults = 1
CHECK_DEADLOCK FALSE
INVARIANTS TypeOK NothingPassed
PROPERTIES EventuallyStored BackfillEnds
