CONSTANTS
  NumNodes = 3
  Setups <- AllSetups

SPECIFICATION Spec
INVARIANTS MeasuredOwn  SuccessIsComplete
PROPERTIES WorkflowEnds
CHECK_DEADLOCK FALSE
