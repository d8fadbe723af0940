SPECIFICATION PlanSpec
CONSTANTS
  Sessions = {s1, s2, s3}
  Saved = {s1}
  Modes <- AllModes
  MaxRounds = 2
  MaxJobs = 2
  Subfolders <- MCSubfolders
  RootContents <- MCRootContents
  SubContents <- MCSubContents
  Requests <- MCRequests
  Tags = {"general"}
  MaxChanges = 1
  N = 3
  Missing <- MCMissing
INVARIANTS OrderRespectsDeps RejectsExactlyBlocked
PROPERTIES PlanningIsAnswered ShownPlanRuns 
CHECK_DEADLOCK FALSE
