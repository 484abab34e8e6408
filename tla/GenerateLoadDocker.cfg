CONSTANTS
  Specs <- DockerTempo
  SigningWorkers = 1
SPECIFICATION Spec
INVARIANTS EverySenderFunded
CHECK_DEADLOCK FALSE
