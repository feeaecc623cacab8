SPECIFICATION FairSpec
CONSTANTS
  P = P
  Q = Q
  Pairs = {P, Q}
  Id <- MCId
  NoPair = NoPair
  Streams = {"confirmed"}
  Workers = {w1, w2}
  Commands = {c}
  MaxLive <- MCMaxLive
  MaxOld <- MCMaxOld
  MaxFaults = 0
CHECK_DEADLOCK FALSE
INVARIANTS HistoryIsSilent
