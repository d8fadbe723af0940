SPECIFICATION ServicesSpec
CONSTANTS
  m1 = m1
  m2 = m2
  w1 = w1
  w2 = w2
  Managers = {m1, m2}
  Windows = {w1, w2}
  WindowOf <- MCWindowOf
  AtomicLock = TRUE
  RecoverAlone = TRUE
  MaxSaves = 3
  MaxCrashes = 1
  Workers = {"p1", "p2"}
  Slugs = {"s"}
  Layouts <- MCLayouts
  MaxSandboxed = 2
  Repositories = {"x", "y"}
  MaxToolCalls = 3
  Hosts = {"x", "y"}
  MaxBackups = 2
  MaxSnapshots = 4
  s1 = s1
  s2 = s2
  s3 = s3
  Sessions = {s1, s2, s3}
  First = s1
  Stored = {s2}
  PhaseIds = {1, 2}
  ParentsOf <- MCParentsOf
  NoTask = NoTask
  NoId = NoId
  NoPhase = NoPhase
  MaxRuns = 2
  MaxMoves = 3
  MaxLag = 1
  MaxAsked = 1
  Tasks = {1, 2}
  Needed = {1}
  OwnLimit <- MCOwnLimit
  Unset = Unset
  HealerLimit = 2
  MaxCommands = 2
  MaxLost = 1
INVARIANTS
  
  SavedBookInFile
  CheckpointHolds
  ReturnBringsBack
  HandoffIsThePhases
  SessionsDontMix
PROPERTIES
  LockIsFreed
  NewestBackupsStay
  OfferedRetryIsTaken
CHECK_DEADLOCK FALSE
