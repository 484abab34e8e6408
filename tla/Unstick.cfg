CONSTANTS
  Senders = {s1, s2}
  MaxNonce = 2
  Window = 1
  StartPrices = {3, 4}
  PoolPrice = 4
  BaseFee = 5
  StallRounds = 2
  GiveUpAfter = 2
  Batched = TRUE
  Lagging = TRUE

SPECIFICATION Spec
INVARIANTS WindowRespected
PROPERTIES ResendOutbids ClearMeansClear Ends
CHECK_DEADLOCK FALSE
