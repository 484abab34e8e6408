CONSTANTS
  N = 2
  Validators = 1
  MaxGens = 4
  MaxOps = 5
  Setups <- Working

SPECIFICATION Spec
INVARIANTS OneNetwork FreshChain PatchedWhole 
CHECK_DEADLOCK FALSE
