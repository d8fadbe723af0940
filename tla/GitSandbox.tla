---------------------------- MODULE GitSandbox -----------------------------
(***************************************************************************)
(* The branch that agents work on and the commit after each phase.         *)
(* GitSandboxManager acts through the editor's Git extension, on its       *)
(* cached view of the tree; GitManager runs the git program.  EngineWiring *)
(* calls both and waits for neither.                                       *)
(*                                                                         *)
(* A path is a sequence of names.  A change is known by who made it.       *)
(***************************************************************************)
EXTENDS Naturals, FiniteSets, SequencesExt

CONSTANTS
  Workers,      \* phases of a runbook, which run side by side
  Slugs,        \* the project ids, sanitised
  Layouts,      \* [repos, ws]: the repositories' roots and the workspace's
  MaxSandboxed  \* bound: sessions

ASSUME GitAssumption ==
  /\ "user" \notin Workers
  /\ "main" \notin Slugs
  /\ MaxSandboxed \in Nat \ {0}
ASSUME LayoutsAssumption ==
  \A l \in Layouts : l.ws \in Seq(STRING) /\ l.repos \subseteq Seq(STRING)

VARIABLES
  layout,
  repo,       \* per root: HEAD, the branches, changes not staged and staged
  viewed,     \* per root: is it dirty, as far as the extension knows?
  run,        \* the session, its slug, _skipSandboxBranch, sandboxBranchCreatedForSession
  making,     \* a createBranch that has not returned
  work,       \* per phase: idle, working or done
  checkpoint  \* per phase: where its snapshotCommit is

gitVars == <<layout, repo, viewed, run, making, work, checkpoint>>

NoRepo == <<"none">>
NoBranch == [root |-> NoRepo, name |-> "none"]

\* findBestRepository: the deepest root over the workspace, else the one nearest below it.
Best(repos, ws) ==
  LET above == {r \in repos : IsPrefix(r, ws)}
      below == {r \in repos : IsStrictPrefix(ws, r)}
  IN IF above # {} THEN CHOOSE r \in above : \A q \in above : Len(q) <= Len(r)
     ELSE IF below # {} THEN CHOOSE r \in below : \A q \in below : Len(r) <= Len(q)
     ELSE IF Cardinality(repos) = 1 THEN CHOOSE r \in repos : TRUE ELSE NoRepo

\* resolveGitRoot: where the git program finds itself; outside a repository it fails.
GitRoot ==
  LET above == {r \in layout.repos : IsPrefix(r, layout.ws)}
  IN IF above = {} THEN NoRepo ELSE CHOOSE r \in above : \A q \in above : Len(q) <= Len(r)

SandboxRoot == Best(layout.repos, layout.ws)
\* Where the agents and the user change files.
Edited == IF GitRoot # NoRepo THEN {GitRoot} ELSE {r \in layout.repos : IsPrefix(layout.ws, r)}
Uncommitted(r) == repo[r].tree \cup repo[r].index

GitInit ==
  /\ layout \in Layouts
  /\ repo = [r \in layout.repos |->
               [head |-> "main", names |-> {"main"}, tree |-> {}, index |-> {}]]
  /\ viewed = [r \in layout.repos |-> FALSE]
  /\ \E slug \in Slugs : run = [session |-> 1, slug |-> slug, skip |-> FALSE, made |-> {}]
  /\ making = NoBranch
  /\ work = [p \in Workers |-> "idle"]
  /\ checkpoint = [p \in Workers |-> "none"]

UserEdits(r) ==
  /\ r \in Edited
  /\ repo' = [repo EXCEPT ![r].tree = @ \cup {"user"}]
  /\ UNCHANGED <<layout, viewed, run, making, work, checkpoint>>

UserReturns(r) ==
  /\ Uncommitted(r) = {}
  /\ repo' = [repo EXCEPT ![r].head = "main"]
  /\ UNCHANGED <<layout, viewed, run, making, work, checkpoint>>

\* The extension looks at the tree again, some time after a change.
Refresh(r) ==
  /\ viewed' = [viewed EXCEPT ![r] = Uncommitted(r) # {}]
  /\ UNCHANGED <<layout, repo, run, making, work, checkpoint>>

PreFlightCheck == SandboxRoot # NoRepo /\ ~viewed[SandboxRoot]

\* The engine enters EXECUTING_WORKER: the first time in a session it asks for a branch.
\* An unclean tree is only logged.
EnterExecuting(r) ==
  IF r.session \in r.made THEN run' = r /\ UNCHANGED making
  ELSE /\ run' = [r EXCEPT !.made = @ \cup {r.session}]
       /\ making' = IF ~r.skip /\ PreFlightCheck
                    THEN [root |-> SandboxRoot, name |-> r.slug] ELSE making

\* A start, from the panel or by command; only the panel notes that the user skips.
CmdStart ==
  /\ \A p \in Workers : work[p] = "idle"
  /\ making = NoBranch
  /\ IF PreFlightCheck
     THEN EnterExecuting(run)
     ELSE \E panel \in BOOLEAN : EnterExecuting([run EXCEPT !.skip = @ \/ panel])
  /\ work' = [p \in Workers |-> "working"]
  /\ UNCHANGED <<layout, repo, viewed, checkpoint>>

\* createBranch(name, true); git refuses a name that exists.
BranchMade ==
  /\ making # NoBranch
  /\ LET r == making.root
     IN repo' = IF making.name \in repo[r].names THEN repo
                ELSE [repo EXCEPT ![r].names = @ \cup {making.name}, ![r].head = making.name]
  /\ making' = NoBranch
  /\ UNCHANGED <<layout, viewed, run, work, checkpoint>>

WorkerWrites(p, r) ==
  /\ work[p] = "working"
  /\ r \in Edited
  /\ repo' = [repo EXCEPT ![r].tree = @ \cup {p}]
  /\ UNCHANGED <<layout, viewed, run, making, work, checkpoint>>

\* phase:checkpoint, once the phase has passed.
PhaseCheckpoint(p) ==
  /\ work[p] = "working"
  /\ checkpoint[p] \in {"none", "ok", "failed"}
  /\ work' = [work EXCEPT ![p] = "done"]
  /\ checkpoint' = [checkpoint EXCEPT ![p] = "add"]
  /\ UNCHANGED <<layout, repo, viewed, run, making>>

GitStep(p, from, to) ==
  /\ checkpoint[p] = from
  /\ GitRoot # NoRepo
  /\ checkpoint' = [checkpoint EXCEPT ![p] = to]
  /\ UNCHANGED <<layout, viewed, run, making, work>>

\* A command of git that fails: outside a repository, or while another one has the index.
GitFails(p) ==
  /\ checkpoint[p] \in {"add", "status", "commit", "hash"}
  /\ \/ GitRoot = NoRepo
     \/ \E q \in Workers \ {p} : checkpoint[q] \in {"add", "commit"}
     \/ checkpoint[p] = "commit" /\ repo[GitRoot].index = {}
  /\ checkpoint' = [checkpoint EXCEPT ![p] = "failed"]
  /\ UNCHANGED <<layout, repo, viewed, run, making, work>>

\* git add -A: everything, of whoever it is.
GitAdd(p) ==
  /\ GitStep(p, "add", "status")
  /\ repo' = [repo EXCEPT ![GitRoot].index = Uncommitted(GitRoot), ![GitRoot].tree = {}]

\* A mutant of GitStatus: it asks what is not staged.
GitStatusOfTree(p) ==
  /\ GitStep(p, "status", IF repo[GitRoot].tree = {} THEN "ok" ELSE "commit")
  /\ UNCHANGED repo

GitStatus(p) ==
  /\ GitStep(p, "status", IF Uncommitted(GitRoot) = {} THEN "ok" ELSE "commit")
  /\ UNCHANGED repo

GitCommit(p) ==
  /\ GitStep(p, "commit", "hash")
  /\ repo[GitRoot].index # {}
  /\ repo' = [repo EXCEPT ![GitRoot].index = {}]

GitHash(p) == GitStep(p, "hash", "ok") /\ UNCHANGED repo

SnapshotCommit(p) == GitAdd(p) \/ GitStatus(p) \/ GitCommit(p) \/ GitHash(p) \/ GitFails(p)

\* The next session.  The panel's reset forgets that the user skipped, the command the
\* sessions that have had their branch.
NextSession ==
  /\ \A p \in Workers : work[p] = "done"
  /\ run.session < MaxSandboxed
  /\ \E slug \in Slugs, panel \in BOOLEAN :
       run' = [session |-> run.session + 1, slug |-> slug, skip |-> run.skip /\ ~panel,
               made |-> IF panel THEN run.made ELSE {}]
  /\ work' = [p \in Workers |-> "idle"]
  /\ UNCHANGED <<layout, repo, viewed, making, checkpoint>>

GitNext ==
  \/ \E r \in layout.repos : UserEdits(r) \/ UserReturns(r) \/ Refresh(r)
  \/ \E p \in Workers, r \in layout.repos : WorkerWrites(p, r)
  \/ \E p \in Workers : PhaseCheckpoint(p) \/ SnapshotCommit(p)
  \/ CmdStart \/ BranchMade \/ NextSession

GitSpec == GitInit /\ [][GitNext]_gitVars

-----------------------------------------------------------------------------
(* Properties                                                              *)

\* What a checkpoint reports as committed is committed, whatever the other checkpoints
\* and the creation of the branch did in between.
CheckpointHolds ==
  \A p \in Workers : checkpoint[p] = "ok" /\ work[p] = "done" =>
    p \notin Uncommitted(GitRoot)
=============================================================================
