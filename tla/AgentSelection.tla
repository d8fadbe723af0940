--------------------------- MODULE AgentSelection ---------------------------
(* How a phase is given to an agent: the profiles in their three levels    *)
(* (AgentRegistry.ts), the draft of a phase made a subtask                 *)
(* (SubtaskSpecBuilder.ts), the filter, scores and tie-break               *)
(* (AgentSelector.ts), the prompt compiled and checked                     *)
(* (WorkerPromptCompiler.ts, PromptValidator.ts) and what the dispatcher   *)
(* makes of it. A text is the number of keywords of each task type it      *)
(* holds; scores are multiplied by 6, so that they stay whole.             *)
EXTENDS Integers, FiniteSets, SequencesExt

CONSTANTS Registry,    \* the built-in profiles, in the order they are loaded
          UserLevels,  \* profiles the settings may add
          FileLevels,  \* what workers.json may hold
          Skills,      \* tags a phase may require
          Texts        \* functions from TaskRules to the keywords found

VARIABLES draft,       \* the phase that is dispatched
          levels,      \* the settings' profiles and the workspace file
          pipeline,    \* "off", "shadow" or "on": the two settings
          selection    \* what came of it

selectionVars == <<draft, levels, pipeline, selection>>

-----------------------------------------------------------------------------
\* The profiles.

Tagless == {"no tags"}

Put(profiles, p) ==
  IF \E i \in DOMAIN profiles : profiles[i].id = p.id
  THEN [i \in DOMAIN profiles |-> IF profiles[i].id = p.id THEN p ELSE profiles[i]]
  ELSE Append(profiles, p)

PutAll(profiles, more) == FoldLeft(Put, profiles, more)

\* Settings are taken as they are; an entry of workers.json must have its tags.
Load(builtIn, user, file) ==
  LET merged == PutAll(builtIn, user)
      valid(p) == p.tags # Tagless
  IN IF file.kind = "array" THEN PutAll(merged, SelectSeq(file.entries, valid)) ELSE merged

\* Reading a profile without tags throws.
AvailableTags(profiles) ==
  IF \E i \in DOMAIN profiles : profiles[i].tags = Tagless THEN Tagless
  ELSE UNION {profiles[i].tags : i \in DOMAIN profiles}

FallbackProfile(profiles) ==
  LET i == SelectInSeq(profiles, LAMBDA p : p.id = "code_editor")
  IN IF i # 0 THEN profiles[i] ELSE profiles[1]

TagsOf(p) == IF p.tags = Tagless THEN {} ELSE p.tags
Shared(p, skills) == Cardinality(TagsOf(p) \cap skills)
Joined(p, skills) == Cardinality(TagsOf(p) \cup skills)

\* The first profile with the highest share of common tags.
BestAgent(profiles, skills) ==
  LET better(p, q) == Shared(p, skills) * Joined(q, skills) > Shared(q, skills) * Joined(p, skills)
      best == FoldLeft(LAMBDA p, q : IF better(q, p) THEN q ELSE p, profiles[1], profiles)
  IN IF skills = {} \/ Shared(best, skills) = 0 THEN FallbackProfile(profiles) ELSE best

NonPlanOutputs == {"review_report", "research_summary", "debug_report", "task_graph"}
PlanRequired(profiles, skills) == BestAgent(profiles, skills).output \notin NonPlanOutputs

-----------------------------------------------------------------------------
\* The draft made a subtask.

TaskRules == <<"test_creation", "verification", "refactor", "localized_bugfix", "bug_investigation",
               "repo_pattern_discovery", "task_decomposition", "small_integration", "dependency_mapping">>
Planning == {"task_decomposition", "dependency_mapping", "execution_planning"}

FirstBest(order, hits, default) ==
  LET i == SelectInSeq(order, LAMBDA t : hits[t] > 0 /\ \A u \in ToSet(order) : hits[u] <= hits[t])
  IN IF i = 0 THEN default ELSE order[i]

TaskType(hits) == FirstBest(TaskRules, hits, "code_modification")

Deliverable(task) ==
  CASE task \in {"code_modification", "small_integration", "refactor"} -> "patch_with_summary"
    [] task = "localized_bugfix" -> "patch_with_notes"
    [] task \in {"verification", "regression_check", "constraint_audit"} -> "review_report"
    [] task \in {"test_creation", "test_update", "coverage_extension"} -> "test_patch"
    [] task \in {"repo_pattern_discovery", "implementation_lookup", "reference_gathering"} -> "research_summary"
    [] task \in {"bug_investigation", "root_cause_analysis", "failure_isolation"} -> "debug_report"
    [] OTHER -> "task_graph"

Reasoning(task) ==
  CASE task = "localized_bugfix" -> <<"local", "failure_tracing", "causal_analysis">>
    [] task = "small_integration" -> <<"structural", "interface", "control_flow">>
    [] task = "code_modification" -> <<"local", "symbol_level_editing", "interface">>
    [] task = "verification" -> <<"consistency_checking", "risk_detection", "behavior">>
    [] task = "test_creation" -> <<"case_generation", "oracle_design">>
    [] task = "repo_pattern_discovery" -> <<"pattern_search", "comparative_analysis">>
    [] task = "bug_investigation" -> <<"failure_tracing", "causal_analysis">>
    [] task \in Planning -> <<"workflow_planning", "structural">>
    [] OTHER -> <<"local">>

RiskLevel(factors) ==
  IF factors = {} THEN "medium"
  ELSE IF "high" \in factors THEN "high"
  ELSE IF factors = {"low"} THEN "low" ELSE "medium"

\* The dispatcher gives no context: no constraint, no risk factor, no known input.
SubtaskSpec(d) ==
  LET task == TaskType(d.text)
      risk == RiskLevel({})
  IN [task |-> task, reasoning |-> Reasoning(task), skills |-> d.skills, inputs |-> {},
      mustInclude |-> d.files, forbidden |-> {}, deliverable |-> Deliverable(task),
      risk |-> risk, failureCost |-> risk, avoided |-> d.avoided]

-----------------------------------------------------------------------------
\* The selector.

PatchTypes == {"patch_with_summary", "patch_with_notes", "test_patch"}
Compatible(required, output) == required = output \/ {required, output} \subseteq PatchTypes

Rejected(p, spec) ==
  \/ spec.task \notin p.handles
  \/ ~ spec.mustInclude \subseteq p.context
  \/ ~ Compatible(spec.deliverable, p.output)
  \/ spec.risk = "high" /\ p.risk = "low" /\ spec.task \notin {"verification", "regression_check", "constraint_audit"}
  \/ spec.forbidden \cap p.avoids # {}

Tier == [low |-> 0, medium |-> 1, high |-> 2]
RiskFit(a, b) == LET d == Tier[a] - Tier[b] IN IF d = 0 THEN 6 ELSE IF d \in {-1, 1} THEN 3 ELSE 0

Overlap(required, available) ==
  IF required = << >> THEN 0
  ELSE (6 * Len(SelectSeq(required, LAMBDA r : r \in available))) \div Len(required)

\* The preferred formats of a subtask are full_target_file and file_slices.
Score(p, spec) ==
  4 * 6 + 3 * Overlap(spec.reasoning, p.strengths)
  + 2 * Overlap(SetToSeq(spec.skills), p.skills)
  + 3 * Overlap(<<"full_target_file", "file_slices">>, p.context)
  + 2 * (IF spec.deliverable = p.output THEN 6 ELSE 3)
  + 2 * RiskFit(spec.risk, p.risk)
  - 6 * 6 * Cardinality(spec.avoided \cap p.avoids)

MinViableScore == 30
TieBreakThreshold == 6
Preference == <<"Planner", "CodeEditor", "Reviewer", "TestWriter", "Researcher", "Debugger">>
Rank(agentType) == CHOOSE i \in DOMAIN Preference : Preference[i] = agentType
ByType(agentType) == SelectInSeq(Registry, LAMBDA p : p.agentType = agentType)

TieBreak(first, second, spec) ==
  LET p == Registry[ByType(first.agentType)]
      q == Registry[ByType(second.agentType)]
      held(x) == Cardinality(x.context)
  IN CASE spec.failureCost = "high" /\ p.risk # q.risk -> IF Tier[p.risk] < Tier[q.risk] THEN first ELSE second
       [] OTHER -> IF held(p) # held(q) THEN IF held(p) > held(q) THEN first ELSE second
                   ELSE IF Rank(first.agentType) <= Rank(second.agentType) THEN first ELSE second

\* The places of the registry that pass the filter; the best of some of them,
\* the first among equals.
Passing(spec) == {i \in DOMAIN Registry : ~ Rejected(Registry[i], spec)}
Best(places, spec) ==
  LET score(i) == Score(Registry[i], spec)
  IN CHOOSE i \in places : \A j \in places \ {i} : score(i) > score(j) \/ (score(i) = score(j) /\ i < j)

\* Only the first candidate of the registry's order is compared with the minimum.
Select(spec) ==
  LET passing == Passing(spec)
      first == Best(passing, spec)
      rest == passing \ {first}
      second == Best(rest, spec)
      score(i) == Score(Registry[i], spec)
  IN IF passing = {} \/ score(Min(passing)) < MinViableScore THEN "Planner"
     ELSE IF rest # {} /\ score(first) - score(second) <= TieBreakThreshold
     THEN TieBreak(Registry[first], Registry[second], spec).agentType
     ELSE Registry[first].agentType

-----------------------------------------------------------------------------
\* The prompt and its check.

\* What the base template and the agent's own one hold, the values put in.
Sections(agentType, spec) ==
  {"goal", "agent_type", "forbidden", "deliverable", "verification", "escalation"}

Compile(agentType, spec) ==
  [agentType |-> agentType, sections |-> Sections(agentType, spec)]

\* A mutant: a task without known inputs passes.
ValidPromptAnyInput(prompt, spec) ==
  /\ {"goal", "agent_type", "deliverable", "escalation"} \subseteq prompt.sections
  /\ spec.forbidden # {} => "forbidden" \in prompt.sections

ValidPrompt(prompt, spec) ==
  /\ {"goal", "agent_type", "deliverable", "escalation"} \subseteq prompt.sections
  /\ spec.task \in Planning \/ spec.inputs # {}
  /\ spec.forbidden # {} => "forbidden" \in prompt.sections
  /\ spec.risk \in {"medium", "high"} => "verification" \in prompt.sections

\* SelectionPipeline.run: the agent, or that it threw.
Pipeline(spec) ==
  LET agent == Select(spec)
  IN IF ByType(agent) = 0 \/ ~ ValidPrompt(Compile(agent, spec), spec) THEN "threw" ELSE agent

-----------------------------------------------------------------------------
\* The dispatcher.

Drafts == [text : Texts, files : SUBSET {"src_file"}, skills : SUBSET Skills, avoided : SUBSET {"open-ended"}]

Waiting == [done |-> FALSE]

AgentInit ==
  /\ draft \in Drafts
  /\ levels \in [user : UserLevels, file : FileLevels]
  /\ pipeline \in {"off", "shadow", "on"}
  /\ selection = Waiting

\* A failed selection pauses the run and leaves the phase pending. The launcher
\* asks the registry with all levels, by skills alone; the pipeline has the
\* built-in profiles.
RunAgentSelectionGuard ==
  /\ ~ selection.done
  /\ LET agent == IF pipeline = "off" THEN "none" ELSE Pipeline(SubtaskSpec(draft))
         loaded == Load(Registry, levels.user, levels.file)
     IN selection' = [done |-> TRUE, agent |-> agent,
                      dispatched |-> pipeline # "on" \/ agent # "threw",
                      compiled |-> pipeline = "on" /\ agent # "threw",
                      audited |-> agent \notin {"none", "threw"},
                      tags |-> AvailableTags(loaded),
                      routed |-> BestAgent(loaded, draft.skills),
                      planRequired |-> PlanRequired(loaded, draft.skills)]
  /\ UNCHANGED <<draft, levels, pipeline>>

AgentNext == RunAgentSelectionGuard

AgentSpec == AgentInit /\ [][AgentNext]_selectionVars

-----------------------------------------------------------------------------
\* With selection on, the only prompts that are compiled are those of phases
\* whose text reads like planning: the dispatcher hands the builder no known
\* input, and PromptValidator refuses every other task without one. Whatever
\* the phase's files, skills and avoided work, an ordinary phase pauses the run.
CompiledIsPlanning ==
  selection.done /\ selection.compiled => TaskType(draft.text) \in Planning /\ selection.agent = "Planner"
=============================================================================
