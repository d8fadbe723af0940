------------------------------ MODULE MCWorker ------------------------------
(* A phase given to an agent, the context assembled and packed for it, its *)
(* way through its worker, a session over files and the consolidation      *)
(* after a run, side by side: a behaviour is one of one of them.           *)
EXTENDS AgentSelection, Context, ContextPack, WorkerPipeline, FileSession, Consolidation, TLC

CONSTANTS p1, p2, pattern, none, t1, t2, isolated, continuous

VARIABLE part

workerVars == <<selectionVars, contextVars, packVars, pipelineVars, fileVars, consVars, part>>

\* The built-in profiles, a few of their tags, skills and contexts.
Profile(id, type, tags, handles, strengths, context, risk, avoids, gives) ==
  [id |-> id, agentType |-> type, tags |-> tags, handles |-> handles, strengths |-> strengths,
   skills |-> {}, context |-> context, risk |-> risk, avoids |-> avoids, output |-> gives]
MCRegistry == <<
  Profile("planner", "Planner", {"planning"}, {"task_decomposition", "dependency_mapping", "execution_planning"},
          {"structural_reasoning", "workflow_planning"}, {"requirements", "constraints", "available_tools"},
          "medium", {}, "task_graph"),
  Profile("code_editor", "CodeEditor", {"general", "api"}, {"code_modification", "localized_bugfix", "small_integration"},
          {"symbol_level_editing", "constraint_preserving_changes"}, {"target_file", "file_slices", "diffs", "constraints"},
          "medium", {"open-ended"}, "patch_with_notes"),
  Profile("reviewer", "Reviewer", {"review", "api"}, {"verification", "regression_check", "constraint_audit"},
          {"consistency_checking", "risk_detection"}, {"patches", "changed_files", "constraints", "test_results"},
          "low", {}, "review_report"),
  Profile("test_writer", "TestWriter", {"testing"}, {"test_creation", "test_update", "coverage_extension"},
          {"behavioral_case_generation"}, {"implementation_summary", "target_files", "existing_tests"},
          "medium", {}, "test_patch"),
  Profile("researcher", "Researcher", {"research"}, {"repo_pattern_discovery", "implementation_lookup", "reference_gathering"},
          {"pattern_search", "comparative_analysis"}, {"repo_index", "symbol_names", "feature_descriptions"},
          "low", {}, "research_summary"),
  Profile("debugger", "Debugger", {"debugging"}, {"bug_investigation", "root_cause_analysis", "failure_isolation"},
          {"causal_analysis", "failure_tracing"}, {"error_logs", "failing_tests", "relevant_files"},
          "medium", {}, "debug_report")>>
Own(tags, gives) == Profile("own", "Researcher", tags, {}, {}, {}, "low", {}, gives)
MCUserLevels == {<< >>, <<Own({"api"}, "debug_report")>>, <<Own(Tagless, "patch_with_notes")>>}
MCFileLevels == {[kind |-> "object"], [kind |-> "array", entries |-> <<Own({"review"}, "task_graph"), Own(Tagless, "test_patch")>>]}
MCTexts ==
  {[t \in ToSet(TaskRules) |-> 0]} \cup
  {[t \in ToSet(TaskRules) |-> IF t = a THEN 2 ELSE IF t = b THEN n ELSE 0] :
     a \in ToSet(TaskRules), b \in {"verification", "task_decomposition"}, n \in {1, 3}}

MCPatternKind == pattern :> "good"
MCDependsOn == p1 :> {} @@ p2 :> {p1}

\* The first profile's own policy leaves out what the host calls; the second follows the workspace's.
MCPolicyOf == p1 :> OnlyThese({"get_file_slice", "another"}) @@ p2 :> Inherits

Criterion(kind, want) == [kind |-> kind, want |-> want]
MCJudged ==
  p1 :> [criterion |-> Criterion("toolchain", none), evaluator |-> "toolchain", evaluators |-> << >>]
  @@ p2 :> [criterion |-> Criterion("regex", pattern), evaluator |-> "regex", evaluators |-> << >>]

\* A file imported under its own name is named "./d" by the phase; "e" is an image.
MCFileOf == [p \in Paths |-> IF p = "./d" THEN "d" ELSE p]
MCContextFiles == <<"a", "./d", "c">>
From(form, spec, base) == [form |-> form, spec |-> spec, base |-> base]
MCStatements == [f \in SourceFiles |->
  CASE f = "a" -> <<From("import", "@/b", "bare"), From("export", "./c", "c"), From("import", "react", "bare")>>
    [] f = "b" -> <<From("require", "./d", "d"), From("include", "./a", "a")>>
    [] f = "d" -> <<From("dynamic", "./e", "e")>>
    [] OTHER -> << >>]
MCAliases == <<[specs |-> {"@/b"}, targets |-> <<"b">>]>>
MCVariants == [base \in SourceFiles |-> IF base = "d" THEN <<"d", "e">> ELSE <<base>>]
MCLanguageOf == [f \in SourceFiles |-> IF f = "e" THEN "none" ELSE "ts"]
MCKindOf == [f \in SourceFiles |-> IF f = "e" THEN "binary" ELSE "text"]
MCTokens == [f \in SourceFiles |-> CASE f = "a" -> 5 [] f = "b" -> 4 [] f = "c" -> 6 [] OTHER -> 1]
MCStripped == [f \in SourceFiles |-> CASE f = "b" -> 2 [] f = "c" -> 5 [] OTHER -> MCTokens[f]]
Secret(kind, placeholder, key) == [kind |-> kind, placeholder |-> placeholder, key |-> key]
MCSecrets == [f \in SourceFiles |->
  CASE f = "b" -> {Secret("env", FALSE, FALSE), Secret("entropy", FALSE, TRUE)}
    [] f = "c" -> {Secret("env", TRUE, FALSE), Secret("entropy", FALSE, TRUE)}
    [] OTHER -> {}]

MCDependencies == <<1, 2, 3>>
Change(path, regions) == [path |-> path, regions |-> regions]
MCStored == 1 :> <<Change("f", TRUE), Change("h", FALSE)>> @@ 2 :> <<Change("g", FALSE), Change("f", TRUE)>>
MCPackFiles == <<"f">>
Sees(ext, named, typed) == [relative |-> TRUE, inside |-> TRUE, ext |-> ext, named |-> named, typed |-> typed]
MCPackImports == [f \in {"f", "g", "h", "i"} |->
  CASE f = "f" -> <<Sees(".ts", "g", "g"), Sees(".js", "h", "i")>> [] f = "g" -> <<Sees("", "i", "i")>> [] OTHER -> << >>]

\* The inputs of the parts that stand still have one value each.
NothingToSelect ==
  /\ draft = [text |-> [t \in ToSet(TaskRules) |-> 0], files |-> {}, skills |-> {}, avoided |-> {}]
  /\ levels = [user |-> << >>, file |-> [kind |-> "object"]]
  /\ pipeline = "off"
NothingToPack ==
  /\ order = [completed |-> {}, taskId |-> "session", budget |-> 0, whole |-> FALSE]
  /\ folder = [f \in PackPaths |-> "gone"]
SomethingToPack ==
  folder \in {w \in [PackPaths -> Lengths \cup {"gone", "folder"}] :
    w["g"] \in {"short", "long"} /\ w["h"] \in {"middle", "folder"} /\ w["i"] \in {"short", "gone"}}

WorkerInit ==
  /\ part \in {"selection", "context", "pack", "pipeline", "file", "cons"}
  /\ IF part = "selection" THEN TRUE ELSE NothingToSelect
  /\ IF part = "context" THEN TRUE ELSE disk = {} /\ blocking = FALSE
  /\ IF part = "pack" THEN SomethingToPack ELSE NothingToPack
  /\ IF part = "cons" THEN TRUE ELSE mode = isolated /\ openTask = t1
  /\ AgentInit /\ ContextInit /\ PackInit /\ PipelineInit /\ FileInit /\ ConsInit

WorkerNext ==
  /\ UNCHANGED part
  /\ \/ part = "selection" /\ AgentNext /\ UNCHANGED <<contextVars, packVars, pipelineVars, fileVars, consVars>>
     \/ part = "context" /\ ContextNext /\ UNCHANGED <<selectionVars, packVars, pipelineVars, fileVars, consVars>>
     \/ part = "pack" /\ PackNext /\ UNCHANGED <<selectionVars, contextVars, pipelineVars, fileVars, consVars>>
     \/ part = "pipeline" /\ PipelineNext /\ UNCHANGED <<selectionVars, contextVars, packVars, fileVars, consVars>>
     \/ part = "file" /\ FileNext /\ UNCHANGED <<selectionVars, contextVars, packVars, pipelineVars, consVars>>
     \/ part = "cons" /\ ConsNext /\ UNCHANGED <<selectionVars, contextVars, packVars, pipelineVars, fileVars>>

WorkerSpec == WorkerInit /\ [][WorkerNext]_workerVars /\ ConsFairness
=============================================================================
