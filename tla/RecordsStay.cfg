SPECIFICATION Spec
CONSTANTS
  Procs = {"host", "stdio"}
  Hosts = {"host"}
  t1 = t1
  t2 = t2
  h1 = h1
  h2 = h2
  Tasks = {t1}
  Records = {h1, h2}
  TaskOf <- MCTwoHandoffs
  Overlap = FALSE
  IoErrors = FALSE
  ReadErrors = FALSE
  MaxPending = 2
PROPERTIES
  RecordsStay
CHECK_DEADLOCK FALSE
