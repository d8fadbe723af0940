SPECIFICATION Spec
CONSTANTS
  N = 3
  MaxConcurrent = 2
  AdkMax = 2
  MaxRetries = 2
  Commands = {"start", "abort", "reset", "retry"}
  Failures = {"fail", "timeout"}
  SlowDispatch = FALSE
  MaxCommands = 3
  MaxFailures = 1
  MaxSaveErrors = 1
  MaxInFlight = 1
  Deps <- MCSequential
  Runbooks <- MCFresh
INVARIANTS
  TypeOK
PROPERTIES
  AbortIsFinal
CHECK_DEADLOCK FALSE
