------------------------------- MODULE DagRun -------------------------------
(***************************************************************************)
(* What the engine promises about one run of a runbook, without workers,   *)
(* timers or an event loop: every phase goes from pending to running and   *)
(* from there to a verdict, or back to pending for another attempt; it     *)
(* starts only when everything it depends on is completed; and the run     *)
(* succeeds only when every phase has, which it then stays.  A run that    *)
(* is under way ends, one way or the other.                                *)
(***************************************************************************)
CONSTANTS Phases, Deps

VARIABLES status, stage

vars == <<status, stage>>

Stages == {"idle", "running", "succeeded", "failed"}

Init == status = [p \in Phases |-> "pending"] /\ stage = "idle"

Under(s) == stage = s /\ UNCHANGED status

Begin == Under("idle") /\ stage' = "running"

StartPhase(p) ==
  /\ stage \in {"running", "failed"} /\ stage' = "running"
  /\ status[p] # "completed"
  /\ \A d \in Deps[p] : status[d] = "completed"
  /\ status' = [status EXCEPT ![p] = "running"]

\* A verdict may end the run in the same step.
EndPhase(p, verdict) ==
  /\ stage \in {"running", "failed"}
  /\ status[p] = "running"
  /\ status' = [status EXCEPT ![p] = verdict]
  /\ \/ UNCHANGED stage
     \/ verdict \in {"failed", "pending"} /\ stage' = "failed"
     \/ verdict = "completed" /\ stage' = IF \A q \in Phases : status'[q] = "completed" THEN "succeeded" ELSE "failed"

End ==
  /\ Under("running")
  /\ stage' = IF \A p \in Phases : status[p] = "completed" THEN "succeeded" ELSE "failed"

Next ==
  \/ Begin \/ End
  \/ \E p \in Phases : StartPhase(p) \/ \E v \in {"completed", "failed", "pending"} : EndPhase(p, v)

Ends == stage = "running" ~> stage \in {"succeeded", "failed"}

Spec == Init /\ [][Next]_vars /\ Ends
=============================================================================
