CONSTANTS
  RateLimitRetries = 4
  FailedRetries = 3
SPECIFICATION Spec
INVARIANTS RequestsBounded GivesUpLast
PROPERTIES KeepsPromise Returns
CHECK_DEADLOCK FALSE
