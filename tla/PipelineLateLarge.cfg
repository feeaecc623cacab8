SPECIFICATION Spec
CONSTANTS
  small = small
  large = large
  later = later
  P = P
  Transfers = {small, large}
  Pairs = {P}
  PairOf <- MCPairOf
  Stamp <- MCStamp
  InBand <- MCInBand
  Completes <- MCCompletes
  Streams = {"confirmed"}
  Listings = {"alerting"}
  LiveFrom = 1
  Overlap = 1
  Lookback = 1
  DropAfter = 1
  MaxCatchup = 0
  MaxAge = 4
  Window = 2
  FloodMax = 2
  FloodSpan = 0
  ConfirmationAlerts = FALSE
  MaxTime = 5
  MaxFaults = 0
INVARIANT ExpiredHadNoLarge
