----------------------------- MODULE EngineFsm -----------------------------
(***************************************************************************)
(* The engine's nine-state machine: EngineState, EngineEvent and the table *)
(* STATE_TRANSITIONS of src/types/engine.ts, with Engine.transition, which *)
(* rejects an event its current state does not list and then leaves the    *)
(* state alone.  The callers of transition decide whether they look at the *)
(* rejection (Accepts) or go on regardless (Fire).                         *)
(***************************************************************************)

EngineStates == {"IDLE", "PLANNING", "PLAN_REVIEW", "PARSING", "READY",
                 "EXECUTING_WORKER", "EVALUATING", "ERROR_PAUSED", "COMPLETED"}

Transitions ==
  [IDLE             |-> [PLAN_REQUEST |-> "PLANNING", LOAD_RUNBOOK |-> "PARSING",
                         RESET |-> "IDLE", RETRY |-> "EXECUTING_WORKER",
                         SKIP_PHASE |-> "READY", START |-> "EXECUTING_WORKER"],
   PLANNING         |-> [PLAN_GENERATED |-> "PLAN_REVIEW", PLAN_REJECTED |-> "PLANNING",
                         ABORT |-> "IDLE", RESET |-> "IDLE"],
   PLAN_REVIEW      |-> [PLAN_APPROVED |-> "PARSING", PLAN_REJECTED |-> "PLANNING",
                         ABORT |-> "IDLE", RESET |-> "IDLE"],
   PARSING          |-> [PARSE_SUCCESS |-> "READY", PARSE_FAILURE |-> "IDLE",
                         ABORT |-> "IDLE", RESET |-> "IDLE"],
   READY            |-> [START |-> "EXECUTING_WORKER", RESUME |-> "EXECUTING_WORKER",
                         RETRY |-> "EXECUTING_WORKER", SKIP_PHASE |-> "READY",
                         ABORT |-> "IDLE", RESET |-> "IDLE"],
   EXECUTING_WORKER |-> [WORKER_EXITED |-> "EVALUATING", WORKER_TIMEOUT |-> "ERROR_PAUSED",
                         WORKER_CRASH |-> "ERROR_PAUSED", ABORT |-> "IDLE",
                         RESET |-> "IDLE"],
   EVALUATING       |-> [PHASE_PASS |-> "EXECUTING_WORKER", ALL_PHASES_PASS |-> "COMPLETED",
                         PHASE_FAIL |-> "ERROR_PAUSED", ABORT |-> "IDLE",
                         RESET |-> "IDLE", RETRY |-> "EXECUTING_WORKER"],
   ERROR_PAUSED     |-> [RETRY |-> "EXECUTING_WORKER", SKIP_PHASE |-> "READY",
                         ABORT |-> "IDLE", RESET |-> "IDLE"],
   COMPLETED        |-> [RESET |-> "IDLE"]]

Accepts(s, e) == e \in DOMAIN Transitions[s]

Fire(s, e) == IF Accepts(s, e) THEN Transitions[s][e] ELSE s

\* Two transitions fired one after the other, neither result looked at.
FireBoth(s, e1, e2) == Fire(Fire(s, e1), e2)
=============================================================================
