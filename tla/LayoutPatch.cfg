CONSTANTS
  N = 2
  Validators = 1
  MaxGens = 3
  MaxOps = 4
  Setups <- LocalDefault

SPECIFICATION Spec
INVARIANTS PatchedWhole
CHECK_DEADLOCK FALSE
