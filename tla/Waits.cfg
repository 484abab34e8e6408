CONSTANTS
  Own = {t1, t2}
  MinHeight = 2
  IdleBlocks = 2
  HaltAfter = 2
  StartHead = 1
  MaxHead = 4
  Cases <- AllCases

SPECIFICATION Spec
INVARIANTS RemainingExact DroppedMeansQuiet VerdictTrue
 
CHECK_DEADLOCK FALSE
