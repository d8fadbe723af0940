------------------------------ MODULE GitTools ------------------------------
(***************************************************************************)
(* The operations of GitSandboxManager on all repositories of a workspace, *)
(* and the stash and rollback of GitManager.  Nothing in the extension     *)
(* calls them; the user works on while they go from one repository to the  *)
(* next.                                                                   *)
(***************************************************************************)
EXTENDS Naturals, FiniteSets

CONSTANTS
  Repositories,
  MaxToolCalls   \* bound: operations

ASSUME MaxToolCalls \in Nat

VARIABLES
  tree,    \* per repository: HEAD, branches, is it changed, as far as the extension
           \* knows, is it changed in fact, and the stashes
  call,    \* the operation that is going on: the repositories still to do, the results
  report,  \* what the last createSandboxBranchAll said, per repository
  origin,  \* per repository: the branch before that call, unless the user has changed it since
  calls

toolVars == <<tree, call, report, origin, calls>>

NoReport == [r \in Repositories |-> [success |-> FALSE, previous |-> "none"]]
NoCall == [kind |-> "none", todo |-> {}, results |-> NoReport]

ToolInit ==
  /\ tree \in [Repositories -> [head : {"main", "detached"}, names : {{"main"}, {"main", "sandbox"}},
                               seen : {FALSE}, dirty : BOOLEAN, stashes : {0}]]
  /\ call = NoCall
  /\ report = NoReport
  /\ origin = [r \in Repositories |-> "none"]
  /\ calls = 0

Idle == call = NoCall
Begin(kind, todo) ==
  /\ Idle
  /\ calls < MaxToolCalls
  /\ calls' = calls + 1
  /\ call' = [NoCall EXCEPT !.kind = kind, !.todo = todo]

UserWorks(r) ==
  /\ \/ tree' = [tree EXCEPT ![r].dirty = ~@]
     \/ tree' = [tree EXCEPT ![r].seen = tree[r].dirty]
  /\ UNCHANGED <<call, report, origin, calls>>

UserChecksOut(r) ==
  /\ Idle
  /\ tree' = [tree EXCEPT ![r].head = "main"]
  /\ origin' = [origin EXCEPT ![r] = "none"]
  /\ UNCHANGED <<call, report, calls>>

\* createSandboxBranchAll: nothing is done unless all repositories look clean.
PreFlightCheckAll == \A r \in Repositories : ~tree[r].seen

CreateSandboxBranchAll ==
  /\ origin' = [r \in Repositories |-> tree[r].head]
  /\ IF PreFlightCheckAll
     THEN Begin("create", Repositories) /\ UNCHANGED report
     ELSE /\ Idle /\ calls < MaxToolCalls
          /\ calls' = calls + 1
          /\ report' = [r \in Repositories |-> [success |-> FALSE, previous |-> tree[r].head]]
          /\ UNCHANGED call
  /\ UNCHANGED tree

\* A mutant of CreateBranch: the previous branch is read after the checkout.
CreateBranchFirst(r) ==
  /\ call.kind = "create" /\ r \in call.todo
  /\ IF "sandbox" \in tree[r].names THEN UNCHANGED tree
     ELSE tree' = [tree EXCEPT ![r].names = @ \cup {"sandbox"}, ![r].head = "sandbox"]
  /\ call' = [call EXCEPT !.todo = @ \ {r},
                !.results[r] = [success |-> "sandbox" \notin tree[r].names,
                                previous |-> tree'[r].head]]
  /\ UNCHANGED <<report, origin, calls>>

\* A repository that has the branch already is reported and passed over.
CreateBranch(r) ==
  /\ call.kind = "create" /\ r \in call.todo
  /\ IF "sandbox" \in tree[r].names THEN UNCHANGED tree
     ELSE tree' = [tree EXCEPT ![r].names = @ \cup {"sandbox"}, ![r].head = "sandbox"]
  /\ call' = [call EXCEPT !.todo = @ \ {r},
                !.results[r] = [success |-> "sandbox" \notin tree[r].names,
                                previous |-> tree[r].head]]
  /\ UNCHANGED <<report, origin, calls>>

CreatedAll ==
  /\ call.kind = "create" /\ call.todo = {}
  /\ report' = call.results
  /\ call' = NoCall
  /\ UNCHANGED <<tree, origin, calls>>

\* returnToOriginalBranchAll, with what the report says.
ReturnToOriginalBranchAll ==
  /\ \A r \in Repositories : report[r].previous # "none"
  /\ Begin("return", Repositories)
  /\ UNCHANGED <<tree, report, origin>>

\* A checkout fails where there is no such branch, and may fail on a changed tree.
Checkout(r) ==
  /\ call.kind = "return" /\ r \in call.todo
  /\ LET to == report[r].previous
     IN \E works \in BOOLEAN :
          /\ works => to \in tree[r].names
          /\ ~works => to \notin tree[r].names \/ tree[r].dirty
          /\ tree' = IF works THEN [tree EXCEPT ![r].head = to] ELSE tree
          /\ call' = [call EXCEPT !.todo = @ \ {r}, !.results[r].success = works]
  /\ UNCHANGED <<report, origin, calls>>

ReturnedAll ==
  /\ call.kind = "return" /\ call.todo = {}
  /\ call' = NoCall
  /\ UNCHANGED <<tree, report, origin, calls>>

\* GitManager.stash says that it worked also when there was nothing to stash.
Stash(r) ==
  /\ Idle
  /\ tree' = IF tree[r].dirty THEN [tree EXCEPT ![r].dirty = FALSE, ![r].stashes = 1] ELSE tree
  /\ UNCHANGED <<call, report, origin, calls>>

Unstash(r) ==
  /\ Idle
  /\ tree[r].stashes > 0
  /\ tree' = [tree EXCEPT ![r].dirty = TRUE, ![r].stashes = 0]
  /\ UNCHANGED <<call, report, origin, calls>>

Rollback(r) ==
  /\ Idle
  /\ tree' = [tree EXCEPT ![r].dirty = FALSE]
  /\ UNCHANGED <<call, report, origin, calls>>

ToolNext ==
  \/ CreateSandboxBranchAll \/ CreatedAll \/ ReturnToOriginalBranchAll \/ ReturnedAll
  \/ \E r \in Repositories :
       \/ UserWorks(r) \/ UserChecksOut(r) \/ CreateBranch(r) \/ Checkout(r)
       \/ Stash(r) \/ Unstash(r) \/ Rollback(r)

ToolSpec == ToolInit /\ [][ToolNext]_toolVars

-----------------------------------------------------------------------------
(* Properties                                                              *)

\* Handing the report of a creation back brings every repository to the branch it was
\* on before, also after a creation that failed in some of them; a return that could
\* not is reported as failed, never as done.
ReturnBringsBack ==
  \A r \in Repositories :
    call.kind = "return" /\ r \notin call.todo /\ call.results[r].success /\ origin[r] # "none"
      => tree[r].head = origin[r]
=============================================================================
