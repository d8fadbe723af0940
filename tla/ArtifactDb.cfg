SPECIFICATION FairSpec
CONSTANTS
  Procs = {"host", "stdio"}
  Hosts = {"host"}
  t1 = t1
  t2 = t2
  h1 = h1
  h2 = h2
  Tasks = {t1}
  Records = {h1}
  TaskOf <- MCOneHandoff
  Overlap = FALSE
  IoErrors = TRUE
  ReadErrors = FALSE
  MaxPending = 2
INVARIANTS
  FreshMemory
PROPERTIES
  
  SubmittedRowsOnDisk
  SubmitsReturn
CHECK_DEADLOCK FALSE
