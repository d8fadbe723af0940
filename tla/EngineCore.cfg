SPECIFICATION Spec
CONSTANTS
  N = 3
  MaxConcurrent = 2
  AdkMax = 2
  MaxRetries = 2
  Commands = {"start"}
  Failures = {"fail", "timeout", "crash"}
  SlowDispatch = TRUE
  MaxCommands = 1
  MaxFailures = 1
  MaxSaveErrors = 0
  MaxInFlight = 1
  Deps <- MCJoin
  Runbooks <- MCFresh
PROPERTIES
  LastWorkerIsAlone
  StartsAfterDeps
CHECK_DEADLOCK FALSE
