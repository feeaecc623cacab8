SPECIFICATION Spec
CONSTANTS
  Ratio <- MCRatio
  MatchFactor <- MCMatchFactor
  BandFactor <- MCBandFactor
  MinSuccess <- Half
  MinInlier <- Half
  MinTest = 2
  MaxTest = 40
  MinLarge = 20
  MaxFollowup = 2
  MinWindow = 1
  WindowFactor = 2
  Decay <- MCDecay
  Expiry = 2
  Lookback = 3
  HistoryLimit = 6
  CandidateSequences = 1
  MinSequences = 2
  Batches <- MCBatches
  MaxBatches = 3
  MaxNow = 4
CHECK_DEADLOCK FALSE
INVARIANTS SequencesSound NoneMissed LargesOutsideBand InliersDominant WindowCovers
PROPERTIES TimeOnlyErodes ForgettingAddsNone NewerKeepsSequences
