SPECIFICATION Spec
CONSTANTS
  small = small
  large = large
  later = later
  P = P
  Transfers = {small, large}
  Pairs = {P}
  PairOf <- MCPairOf
  Stamp <- MCStamp
  InBand <- MCInBand
  Completes <- MCCompletes
  Streams = {"unconfirmed","confirmed","backfill"}
  Listings = {"alerting"}
  LiveFrom = 2
  Overlap = 0
  Lookback = 1
  DropAfter = 1
  MaxCatchup = 0
  MaxAge = 2
  Window = 2
  FloodMax = 2
  FloodSpan = 2
  ConfirmationAlerts = FALSE
  MaxTime = 4
  MaxFaults = 0
INVARIANT SeenIsStored
