------------------------------ MODULE ToolPolicy ------------------------------
(***************************************************************************)
(* May a tool be called: ToolRegistry, ToolPolicyResolver,                 *)
(* ToolPolicyEnforcer and the ToolExecutionGateway over them.              *)
(*                                                                         *)
(* A tool is its canonical id; an alias is the tool it stands for, and an  *)
(* id that the registry does not know is any other value.  Audit entries   *)
(* are log lines.  The resolver's branch without a workspace policy is     *)
(* left out: the extension creates the gateway with one.                   *)
(***************************************************************************)

Tools == {"submit_execution_plan", "submit_phase_handoff", "submit_consolidation_report",
          "get_modified_file_content", "get_file_slice", "get_phase_handoff", "get_symbol_context"}

\* allowed_tools_policy of a profile.
NoPolicy == [mode |-> "none", tools |-> {}]
Inherits == [mode |-> "inherit", tools |-> {}]
OnlyThese(tools) == [mode |-> "explicit", tools |-> tools]

\* The extension's workspace policy lists no tools of its own.
WorkspaceTools == {}

NormalizeToolIds(ids) == ids \cap Tools

\* A worker without a policy, or no worker at all, is a legacy one.
Resolve(policy) ==
  CASE policy.mode = "none"     -> [tools |-> Tools, source |-> "compatibility_mode"]
    [] policy.mode = "explicit" -> [tools |-> NormalizeToolIds(policy.tools), source |-> "worker_override"]
    [] policy.mode = "inherit"  -> [tools |-> NormalizeToolIds(WorkspaceTools), source |-> "workspace_default"]

Evaluate(resolved, enforcement, tool) ==
  \/ enforcement = "observe"
  \/ enforcement = "compatibility" /\ resolved.source = "compatibility_mode"
  \/ tool \in resolved.tools

EvaluateInvocation(policy, enforcement, tool) ==
  tool \in Tools /\ Evaluate(Resolve(policy), enforcement, tool)
=============================================================================
