--------------------------- MODULE PromptCompiler ---------------------------
(* How a request becomes the planner's prompt: the workspace fingerprinted *)
(* once (RepoFingerprinter.ts, TechStackDetector.ts,                       *)
(* PromptTemplateManager.ts), the request normalised and classified        *)
(* (RequirementNormalizer.ts, TaskClassifier.ts), the policies chosen      *)
(* (PolicyEngine.ts) and the sections put together                         *)
(* (PlannerPromptCompiler.ts), or the older prompt when that fails         *)
(* (PlannerAgent.ts). A folder is the set of the files and dependencies    *)
(* found in it, a text the number of keywords of each family it holds.     *)
EXTENDS Integers, FiniteSets, SequencesExt

CONSTANTS Subfolders,    \* the children of the workspace root, in order
          RootContents, SubContents, \* what the root and a child may hold
          Requests,      \* what the user may ask
          Tags,          \* skill tags of the registry
          MaxChanges     \* bound on changes of the workspace

VARIABLES workspace,     \* the root's own files and each child's
          fingerprint,   \* the compiler's cached fingerprint
          prompt,        \* the last prompt, by its sections, and its manifest
          changes

compilerVars == <<workspace, fingerprint, prompt, changes>>

NotYet == [kind |-> "none"]

-----------------------------------------------------------------------------
\* One folder.

Manifests == {"package.json", "Cargo.toml", "go.mod", "pyproject.toml", "requirements.txt", "README.md"}
HasManifest(files) == files \cap Manifests # {}

\* The first ecosystem that is found.
Runtime(files) ==
  CASE "package.json" \in files -> "node"
    [] "package.json" \notin files /\ files \cap {"requirements.txt", "pyproject.toml"} # {} -> "python"
    [] files \cap {"package.json", "requirements.txt", "pyproject.toml"} = {} /\ "go.mod" \in files -> "go"
    [] files \cap {"package.json", "requirements.txt", "pyproject.toml", "go.mod"} = {} /\ "Cargo.toml" \in files -> "rust"
    [] OTHER -> "unknown"

Languages(files) ==
  CASE Runtime(files) = "node" -> {"typescript", "javascript"}
    [] Runtime(files) = "unknown" -> {}
    [] OTHER -> {Runtime(files)}

NodeManager(files) ==
  LET locks == <<"pnpm-lock.yaml", "yarn.lock", "bun.lockb", "bun.lock">>
      i == SelectInSeq(locks, LAMBDA lock : lock \in files)
  IN IF i = 0 THEN "npm" ELSE <<"pnpm", "yarn", "bun", "bun">>[i]

PackageManager(files) ==
  CASE Runtime(files) = "node" -> NodeManager(files)
    [] Runtime(files) = "python" -> "pip"
    [] Runtime(files) = "go" -> "go mod"
    [] Runtime(files) = "rust" -> "cargo"
    [] OTHER -> "unknown"

NodeDeps(files) == IF "package.json" \in files THEN files \cap {"jest", "vitest", "eslint", "react", "typescript", "vite"} ELSE {}
PythonDeps(files) == IF Runtime(files) = "python" THEN files \cap {"pytest", "ruff", "django", "mypy"} ELSE {}

Frameworks(files) == (NodeDeps(files) \cap {"react"}) \cup (PythonDeps(files) \cap {"django"})
TestStack(files) == (NodeDeps(files) \cap {"jest", "vitest"}) \cup (PythonDeps(files) \cap {"pytest"})
LintStack(files) == (NodeDeps(files) \cap {"eslint"}) \cup (PythonDeps(files) \cap {"ruff"})
TypecheckStack(files) ==
  (IF "typescript" \in NodeDeps(files) \/ "tsconfig.json" \in files THEN {"tsc"} ELSE {})
  \cup (PythonDeps(files) \cap {"mypy"})
BuildStack(files) ==
  (NodeDeps(files) \cap {"vite"}) \cup (IF "typescript" \in NodeDeps(files) THEN {"tsc"} ELSE {})
  \cup (IF Runtime(files) = "go" THEN {"go build"} ELSE {})

ArchitectureHints(files) ==
  (IF "src/engine" \in files THEN {"orchestration engine"} ELSE {})
  \cup (IF "src/api" \in files THEN {"api server"} ELSE {})
  \cup (IF files \cap {"Dockerfile", "docker-compose.yml", "docker-compose.yaml"} # {} THEN {"containerized"} ELSE {})

HighRiskSurfaces(files) ==
  (IF files \cap {"migrations", "db/migrations", "src/migrations"} # {} THEN {"database migrations"} ELSE {})
  \cup (IF files \cap {"src/api", "src/routes"} # {} THEN {"public API routes"} ELSE {})

\* The stack comes from the folder itself, the tools from the effective root.
Profile(files, toolRoot) ==
  [languages |-> Languages(files), frameworks |-> Frameworks(files), manager |-> PackageManager(files),
   test |-> TestStack(toolRoot), lint |-> LintStack(toolRoot),
   typecheck |-> TypecheckStack(toolRoot), build |-> BuildStack(toolRoot)]

-----------------------------------------------------------------------------
\* The workspace.

Subprojects(ws) == IF HasManifest(ws.root) THEN {} ELSE {f \in ToSet(Subfolders) : HasManifest(ws.child[f])}
EffectiveRoot(ws) ==
  IF Subprojects(ws) = {} THEN ws.root
  ELSE ws.child[Subfolders[SelectInSeq(Subfolders, LAMBDA f : f \in Subprojects(ws))]]

\* A mutant: the tools are still looked for in the first child.
ProfileSubprojectLent(ws, f) == Profile(ws.child[f], EffectiveRoot(ws))

\* While a child is profiled it is the effective root.
ProfileSubproject(ws, f) == Profile(ws.child[f], ws.child[f])

Layout(files) ==
  CASE "app.code-workspace" \in files -> "multi-root"
    [] "app.code-workspace" \notin files /\ files \cap {"lerna.json", "pnpm-workspace.yaml", "turbo.json", "nx.json"} # {} -> "monorepo"
    [] OTHER -> "single"

UnionOf(profiles, field) == UNION {profiles[f][field] : f \in DOMAIN profiles}

Fingerprint(ws) ==
  LET root == EffectiveRoot(ws)
      subs == [f \in Subprojects(ws) |-> ProfileSubproject(ws, f)]
      single == Profile(root, root)
      top == IF DOMAIN subs = {} THEN single
             ELSE [field \in DOMAIN single |-> IF field = "manager" THEN "mixed" ELSE UnionOf(subs, field)]
  IN [kind |-> "fingerprint",
      layout |-> IF DOMAIN subs = {} THEN Layout(root) ELSE "multi-repo",
      top |-> top, hints |-> ArchitectureHints(root), risks |-> HighRiskSurfaces(root), subprojects |-> subs]

-----------------------------------------------------------------------------
\* The request. A request gives the keywords found, its signals and its paths.

Families == <<"bug_fix", "refactor", "migration", "feature_implementation", "documentation_synthesis",
              "repo_analysis", "review_only", "testing", "ci_cd", "performance", "security_audit",
              "dependency_management", "devops_infra">>
Artifacts == <<"code_change", "documentation", "analysis", "test", "configuration">>

Hits(text, family) == IF family \in DOMAIN text THEN text[family] ELSE 0
Highest(order, text, default) ==
  LET i == SelectInSeq(order, LAMBDA f : Hits(text, f) > 0 /\ \A g \in ToSet(order) : Hits(text, g) <= Hits(text, f))
  IN IF i = 0 THEN default ELSE order[i]

Classify(text) == Highest(Families, text, "feature_implementation")

Normalize(request) ==
  [artifact |-> Highest(Artifacts, request.artifacts, "code_change"),
   constraints |-> request.signals \cap {"api", "preserve"},
   hints |-> request.hints, entryPoints |-> request.paths,
   autonomy |-> [squad |-> FALSE], family |-> Classify(request.text)]

Policies(fp, spec) ==
  {"minimal-file-scope"}
  \cup (IF fp.layout = "multi-root" THEN {"multi-root-workspace"} ELSE {})
  \cup (IF "api" \in spec.constraints THEN {"api-compatibility-guard"} ELSE {})
  \cup (IF spec.hints > 1 THEN {"dependency-aware-handoff"} ELSE {})
  \cup (IF fp.top.test # {} THEN {"evaluator-preference"} ELSE {})
  \cup (IF fp.risks \cap spec.entryPoints # {} THEN {"review-for-risky-surfaces"} ELSE {})
  \cup (IF ~ spec.autonomy.squad THEN {"no-squad-rule"} ELSE {})
  \cup (IF spec.artifact \in {"code_change", "configuration", "test"} /\ fp.top.frameworks # {}
        THEN {"docs-update-reminder"} ELSE {})

-----------------------------------------------------------------------------
\* The prompts.

\* assemblePrompt: the policy blocks, the tree and the tags are not put in.
Assemble(request, feedback) ==
  {"skeleton", "input data"} \cup (IF feedback THEN {"feedback"} ELSE {})

LegacyPrompt(feedback) ==
  {"role", "tree", "request"} \cup (IF Tags # {} THEN {"tags"} ELSE {}) \cup (IF feedback THEN {"feedback"} ELSE {})

CompilerInit ==
  /\ workspace \in [root : RootContents, child : [ToSet(Subfolders) -> SubContents]]
  /\ fingerprint = NotYet
  /\ prompt = NotYet
  /\ changes = 0

CompilePrompt(request, feedback) ==
  LET fp == IF fingerprint = NotYet THEN Fingerprint(workspace) ELSE fingerprint
      spec == Normalize(request)
  IN /\ fingerprint' = fp
     /\ prompt' = [kind |-> "compiled", sections |-> Assemble(request, feedback), profile |-> fp,
                   family |-> spec.family, policies |-> Policies(fp, spec)]
     /\ UNCHANGED <<workspace, changes>>

\* A compilation that throws leaves the older prompt and no manifest.
FallBack(feedback) ==
  /\ prompt' = [kind |-> "legacy", sections |-> LegacyPrompt(feedback), policies |-> {}]
  /\ UNCHANGED <<workspace, fingerprint, changes>>

ChangeWorkspace ==
  /\ changes < MaxChanges
  /\ changes' = changes + 1
  /\ \E f \in ToSet(Subfolders), files \in SubContents : workspace' = [workspace EXCEPT !.child[f] = files]
  /\ UNCHANGED <<fingerprint, prompt>>

CompilerNext ==
  \/ \E request \in Requests, feedback \in BOOLEAN : CompilePrompt(request, feedback)
  \/ \E feedback \in BOOLEAN : FallBack(feedback)
  \/ ChangeWorkspace

CompilerSpec == CompilerInit /\ [][CompilerNext]_compilerVars

-----------------------------------------------------------------------------
\* What a wrapper folder's children are said to use is what each would be
\* said to use alone: the effective root, a field of the fingerprinter that is
\* swapped while a child is read, never lends one child the tools of another.
\* Until the first prompt nothing is cached; later changes are not seen.
SubprojectsAreTheirOwn ==
  [][fingerprint = NotYet /\ fingerprint' # NotYet =>
       \A f \in DOMAIN fingerprint'.subprojects :
         LET alone == Fingerprint([root |-> workspace.child[f], child |-> [g \in ToSet(Subfolders) |-> {}]])
         IN fingerprint'.subprojects[f] = alone.top]_compilerVars
=============================================================================
