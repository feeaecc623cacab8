SPECIFICATION FairSpec
CONSTANTS
  urgent = urgent
  twin = twin
  muted = muted
  main1 = main1
  main2 = main2
  extra = extra
  Text = Text
  Other = Other
  Alerts = {urgent}
  Rank <- MCRank
  Muted <- MCMuted
  Nobody = Nobody
  Texts = {Text, Other}
  TextOf <- MCTextOf
  Dests = {main1}
  ChannelOf <- MCChannelOf
  MaxAttempts = 2
  MaxCrashes = 0
  MaxLosses = 0
  MaxDbFaults = 1
CHECK_DEADLOCK FALSE
PROPERTY ResentUntilDelivered
