CONSTANTS
  NumAccounts = 3
  NumTxs = 3
  TempoNonceKey = 0
  NonceLanes = 2
  Fundings = {"faucet", "index0", "none"}
  Need = 2
  CallsPerTx = 2
  GasPerCall = 3
  MaxFee = 4
  Scale = 4
  Word = 1000
  Account0 = {12, 15}
  FundTimeout = 2
  MaxNonce = 4
  LeftOver <- AnyOnProtocolNonce

SPECIFICATION Spec
INVARIANTS  NoNonceGap 
PROPERTIES PrepareEnds
CHECK_DEADLOCK FALSE
