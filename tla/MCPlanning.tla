---------------------------- MODULE MCPlanning ----------------------------
(* How a plan comes about: the planner's prompt, the planner's jobs and     *)
(* what becomes of their plans, and the sort that accepts a runbook.  They  *)
(* share no state; a behaviour is one of one of them.                       *)
EXTENDS Planning, PromptCompiler, KahnSort

VARIABLE stage

Mode(patient, switches, writes, asks) ==
  [patient |-> patient, switches |-> switches, writes |-> writes, asks |-> asks]

\* A patient user who changes sessions and asks once, or stays and asks twice; and one
\* who does not wait.
AllModes ==
  {Mode(TRUE, s, w, IF s THEN 1 ELSE 2) : s, w \in BOOLEAN}
    \cup {Mode(FALSE, FALSE, TRUE, 1), Mode(FALSE, FALSE, FALSE, 2)}

\* A patient user who rejects a plan, with agents that stream it.
Rejecting == {Mode(TRUE, FALSE, FALSE, 2)}

\* A project of its own, a wrapper folder of two, a monorepo, an editor workspace.
MCSubfolders == <<"app", "lib">>
MCRootContents ==
  {{}, {"package.json", "typescript", "vite", "lerna.json", "src/api", "pnpm-lock.yaml"},
   {"README.md", "app.code-workspace", "migrations"}}
MCSubContents ==
  {{}, {"package.json", "jest", "eslint", "react", "yarn.lock", "src/engine"},
   {"pyproject.toml", "pytest", "ruff", "django", "mypy"}, {"go.mod", "Dockerfile"},
   {"Cargo.toml"}}

Request(text, artifacts, signals, hints, paths) ==
  [text |-> text, artifacts |-> artifacts, signals |-> signals, hints |-> hints, paths |-> paths]
MCRequests ==
  {Request([bug_fix |-> 2, testing |-> 1], [test |-> 1], {"api"}, 2, {"public API routes"}),
   Request([refactor |-> 1, migration |-> 1], << >>, {}, 0, {}),
   Request(<< >>, [documentation |-> 1], {"preserve"}, 1, {})}

\* One id no phase has.
MCMissing == {9}

planVars == <<planningVars, compilerVars, sortVars, stage>>

PlanInit ==
  /\ stage \in {"prompt", "plan", "sort"}
  /\ PlanningInit /\ CompilerInit /\ SortInit
  /\ stage # "plan" => mode = CHOOSE m \in Modes : TRUE
  /\ stage # "prompt" => workspace.root = {} /\ \A f \in ToSet(Subfolders) : workspace.child[f] = {}
  /\ stage # "sort" => \A n \in Nodes : deps[n] = {}

PlanNext ==
  /\ UNCHANGED stage
  /\ \/ stage = "plan" /\ PlanningNext /\ UNCHANGED <<compilerVars, sortVars>>
     \/ stage = "prompt" /\ CompilerNext /\ UNCHANGED <<planningVars, sortVars>>
     \/ stage = "sort" /\ SortNext /\ UNCHANGED <<planningVars, compilerVars>>

PlanSpec == PlanInit /\ [][PlanNext]_planVars /\ PlanningFairness
=============================================================================
