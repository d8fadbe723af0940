SPECIFICATION FairSpec
CONSTANTS
  Phases <- MCPhases
  w1 = w1
  w2 = w2
  w3 = w3
  Workers <- MCWorkers
  PhaseOf <- MCPhaseOf
  NoWorker = NoWorker
  Limit = 2
  MaxCrashes = 1
INVARIANTS
  ReportsAreOwed
  OwnConversation
  EntriesAreWatched
PROPERTIES
  WorkersLeave
  CallsReturn
  PidFilesGo
CHECK_DEADLOCK FALSE
