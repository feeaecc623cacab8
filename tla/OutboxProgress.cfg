SPECIFICATION FairSpec
CONSTANTS
  urgent = urgent
  twin = twin
  muted = muted
  main1 = main1
  main2 = main2
  extra = extra
  Text = Text
  Other = Other
  Alerts = {urgent, twin, muted}
  Rank <- MCRank
  Muted <- MCMuted
  Nobody = Nobody
  Texts = {Text, Other}
  TextOf <- MCTextOf
  Dests = {main1, extra}
  ChannelOf <- MCChannelOf
  MaxAttempts = 2
  MaxCrashes = 1
  MaxLosses = 1
  MaxDbFaults = 0
CHECK_DEADLOCK FALSE
PROPERTY EventuallySettled
