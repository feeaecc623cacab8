SPECIFICATION FairSpec
CONSTANTS
  confirmed = confirmed
  unconfirmed = unconfirmed
  Matchers = {confirmed}
  FloodPause = 1
  NotifyNewPatterns = FALSE
  AlertOnWeakened = TRUE
  MaxNow = 2
  MaxActivations = 1
  MaxFaults = 1
  Script <- PauseThenResume
CHECK_DEADLOCK FALSE
INVARIANTS TypeOK ManualPauseHolds ActivationsAnnounced UncountedWasPaused
PROPERTIES CacheHeals PauseEnds
