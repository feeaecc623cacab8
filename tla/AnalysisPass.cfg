SPECIFICATION FairSpec
CONSTANTS
  P = P
  Q = Q
  Pairs = {P}
  Id <- MCId
  NoPair = NoPair
  Streams = {"confirmed"}
  Workers = {w1, w2}
  Commands = {c}
  MaxLive <- MCMaxLive
  MaxOld <- MCMaxOld
  MaxFaults = 1
CHECK_DEADLOCK FALSE
INVARIANTS TypeOK OneAtATime NoneLockedOut EvidenceScheduled
PROPERTIES EvidenceLearned
