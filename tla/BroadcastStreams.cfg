CONSTANTS
  StreamLens <- ThreeAccounts
  InOrder = TRUE
  Options <- GatedSingles
  DefaultWatermark = 50
  NeverPause = 99
  SparsePoll = 4
  StallTimeout = 1
  MaxCopies = 1
  MaxForeign = 0
  MayCancel = FALSE
  Lossy = TRUE
  MayRefuse = FALSE

SPECIFICATION ClockSpec
INVARIANTS NothingOvertakes PeakRecorded OvershootBounded
PROPERTIES Terminates StalledMeansNotDraining
CHECK_DEADLOCK FALSE
