SPECIFICATION Spec
CONSTANTS
  N = 2
  MaxConcurrent = 2
  AdkMax = 2
  MaxRetries = 1
  Commands = {"start", "pause", "retry", "resume", "restart", "skip"}
  Failures = {"fail", "crash"}
  SlowDispatch = FALSE
  MaxCommands = 3
  MaxFailures = 1
  MaxSaveErrors = 1
  MaxInFlight = 1
  Deps <- MCChain
  Runbooks <- MCFresh
INVARIANTS
  CountCoversRunning
CHECK_DEADLOCK FALSE
