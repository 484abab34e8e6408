CONSTANTS
  StreamLens <- OneAccount
  InOrder = FALSE
  Options <- GatedPairs
  DefaultWatermark = 50
  NeverPause = 99
  SparsePoll = 4
  StallTimeout = 2
  MaxCopies = 2
  MaxForeign = 1
  MayCancel = TRUE
  Lossy = TRUE
  MayRefuse = TRUE

SPECIFICATION ChainSpec
  
PROPERTIES Terminates
CHECK_DEADLOCK FALSE
