CONSTANTS
  Specs <- AllSpecs
  SigningWorkers = 3

SPECIFICATION Spec
INVARIANTS EverySenderFunded NoNonceTwice StreamsWhole HotSpread
PROPERTIES GenerationEnds
CHECK_DEADLOCK FALSE
