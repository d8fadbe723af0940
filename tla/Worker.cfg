SPECIFICATION WorkerSpec
CONSTANTS
  Registry <- MCRegistry
  UserLevels <- MCUserLevels
  FileLevels <- MCFileLevels
  Skills = {"api", "review"}
  Texts <- MCTexts
  p1 = p1
  p2 = p2
  pattern = pattern
  none = none
  PhaseSet = {p1, p2}
  DependsOn <- MCDependsOn
  Judged <- MCJudged
  PolicyOf <- MCPolicyOf
  Enforcement = "enforce"
  PatternKind <- MCPatternKind
  MaxAttempts = 2
  MaxAborts = 1
  Whole = 3
  MaxGap = 1
  MaxDelay = 1
  Threshold = 3
  Timeout = 10
  None = none
  t1 = t1
  t2 = t2
  Tasks = {t1, t2}
  Runs = {1, 2}
  isolated = isolated
  continuous = continuous
  Modes = {isolated, continuous}
  Isolated = isolated
  Paths = {"./d", "a", "b", "c", "d", "e"}
  FileOf <- MCFileOf
  ContextFiles <- MCContextFiles
  Statements <- MCStatements
  Aliases <- MCAliases
  Variants <- MCVariants
  LanguageOf <- MCLanguageOf
  KindOf <- MCKindOf
  Tokens <- MCTokens
  Stripped <- MCStripped
  Secrets <- MCSecrets
  Budget = 8
  Wrapper = 1
  Marker = 1
  MaxEntries = 2
  MaxDepth = 2
  MaxEdits = 1
  Dependencies <- MCDependencies
  Stored <- MCStored
  PackFiles <- MCPackFiles
  PackImports <- MCPackImports
  Limits = {0, 5}
  MaxRewrites = 1
INVARIANTS
  CompiledIsPlanning
  ExplicitFilesStay
  ManifestTellsPack
  OutputIsOwn
  ParentsReported
  WholeResponse
  OverrideEnds

  
CHECK_DEADLOCK FALSE
