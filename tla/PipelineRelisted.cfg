SPECIFICATION Spec
CONSTANTS
  small = small
  large = large
  later = later
  P = P
  Transfers = {small, later, large}
  Pairs = {P}
  PairOf <- MCPairOf
  Stamp <- MCStamp
  InBand <- MCInBand
  Completes <- MCCompletes
  Streams = {"confirmed"}
  Listings = {"alerting", "dormant"}
  LiveFrom = 1
  Overlap = 1
  Lookback = 1
  DropAfter = 1
  MaxCatchup = 0
  MaxAge = 2
  Window = 2
  FloodMax = 1
  FloodSpan = 0
  ConfirmationAlerts = FALSE
  MaxTime = 4
  MaxFaults = 1
INVARIANTS PendingCovered FollowupsSound
PROPERTY SettledStaysSettled
