----------------------------- MODULE MCServices -----------------------------
(* The services around the engine, side by side: the session's files, the  *)
(* sandbox branch, the operations on all repositories, the backups, the    *)
(* panel, the failure console.  They share no state; a behaviour is one   *)
(* of one service.                                                         *)
EXTENDS StateStore, GitSandbox, GitTools, Backups, Panel, Failures, TLC

CONSTANTS m1, m2, w1, w2, s1, s2, s3

VARIABLE service

serviceVars == <<storeVars, gitVars, toolVars, backupVars, panelVars, failureVars, service>>

\* The second phase depends on the first.
MCParentsOf == [p \in PhaseIds |-> {q \in PhaseIds : q < p}]

\* The second task has a limit of its own.
MCOwnLimit == [t \in Tasks |-> IF t = 2 THEN 1 ELSE Unset]

MCWindowOf == m1 :> w1 @@ m2 :> w2

\* A repository inside the workspace's, and two side by side in it.
MCLayouts == {
  [repos |-> {<<"a">>, <<"a", "b">>}, ws |-> <<"a", "b", "c">>],
  [repos |-> {<<"a", "b">>, <<"a", "c">>}, ws |-> <<"a">>]}

ServicesInit ==
  /\ service \in {"store", "git", "tools", "backup", "panel", "failures"}
  /\ StoreInit /\ GitInit /\ ToolInit /\ BackupInit /\ PanelInit /\ FailuresInit
  /\ service # "failures" => wired /\ knownTask
  /\ service # "git" => layout = CHOOSE l \in MCLayouts : TRUE
  /\ service # "tools" => \A r \in Repositories : tree[r].head = "main" /\ ~tree[r].dirty /\ Cardinality(tree[r].names) = 1

ServicesNext ==
  /\ UNCHANGED service
  /\ \/ service = "store" /\ StoreNext /\ UNCHANGED <<gitVars, toolVars, backupVars, panelVars, failureVars>>
     \/ service = "git" /\ GitNext /\ UNCHANGED <<storeVars, toolVars, backupVars, panelVars, failureVars>>
     \/ service = "tools" /\ ToolNext /\ UNCHANGED <<storeVars, gitVars, backupVars, panelVars, failureVars>>
     \/ service = "backup" /\ BackupNext /\ UNCHANGED <<storeVars, gitVars, toolVars, panelVars, failureVars>>
     \/ service = "panel" /\ PanelNext /\ UNCHANGED <<storeVars, gitVars, toolVars, backupVars, failureVars>>
     \/ service = "failures" /\ FailuresNext /\ UNCHANGED <<storeVars, gitVars, toolVars, backupVars, panelVars>>

ServicesSpec == ServicesInit /\ [][ServicesNext]_serviceVars /\ StoreFairness
=============================================================================
