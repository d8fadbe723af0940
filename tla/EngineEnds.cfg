SPECIFICATION FairSpec
CONSTANTS
  N = 3
  MaxConcurrent = 2
  AdkMax = 2
  MaxRetries = 1
  Commands = {"start"}
  Failures = {"fail"}
  SlowDispatch = FALSE
  MaxCommands = 1
  MaxFailures = 2
  MaxSaveErrors = 0
  MaxInFlight = 1
  Deps <- MCBranch
  Runbooks <- MCFresh
INVARIANTS
  CompletedMeansAllCompleted
PROPERTIES
  RunEnds
  ImplementsDagRun
CHECK_DEADLOCK FALSE
