SPECIFICATION FairSpec
CONSTANTS
  N = 2
  MaxConcurrent = 2
  AdkMax = 2
  MaxRetries = 2
  Commands = {"start"}
  Failures = {"timeout"}
  SlowDispatch = FALSE
  MaxCommands = 1
  MaxFailures = 1
  MaxSaveErrors = 0
  MaxInFlight = 1
  Deps <- MCChain
  Runbooks <- MCFresh
PROPERTIES
  HealingTakesEffect
CHECK_DEADLOCK FALSE
