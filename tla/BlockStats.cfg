CONSTANTS
  NumBlocks = 4
  Seconds = {1, 2, 3, 4}
  TxCounts = {0, 1}
  Retries = 2

SPECIFICATION Spec
INVARIANTS LoadCountedOnce SpansTile WholeSecondsOnly
CHECK_DEADLOCK FALSE
