SPECIFICATION FairSpec
CONSTANTS
  small = small
  large = large
  later = later
  P = P
  Transfers = {small, large}
  Pairs = {P}
  PairOf <- MCPairOf
  Stamp <- MCStamp
  InBand <- MCInBand
  Completes <- MCCompletes
  Streams = {"unconfirmed", "confirmed"}
  Listings = {"alerting"}
  LiveFrom = 1
  Overlap = 1
  Lookback = 1
  DropAfter = 1
  MaxCatchup = 2
  MaxAge = 2
  Window = 2
  FloodMax = 2
  FloodSpan = 2
  ConfirmationAlerts = FALSE
  MaxTime = 3
  MaxFaults = 1
INVARIANTS TypeOK TotalsExact SeenIsStored AlertedOrWaived
PROPERTY EventuallyMatched
