------------------------------ MODULE Failures ------------------------------
(* The failure console: when the engine gives a phase up it classifies the *)
(* failure, suggests ways out, marks those that are not legal now, stores   *)
(* the record and sends it to the panel.  All of that happens after the     *)
(* save of the runbook, while the user goes on giving commands.             *)
(* Of the engine behind it only the steps that matter here are kept; module *)
(* Engine has the rest of it.                                               *)
EXTENDS EngineFsm, Naturals, FiniteSets, Sequences

CONSTANTS
  Tasks,        \* the phases of the run
  Needed,       \* those another phase depends on
  OwnLimit,     \* each phase's max_retries, or Unset
  Unset,
  HealerLimit,  \* the setting coogent.maxRetries
  MaxCommands,  \* bound: commands of the user
  MaxLost       \* bound: rejected saves

ASSUME FailuresAssumption ==
  /\ OwnLimit \in [Tasks -> Nat \cup {Unset}]
  /\ Needed \subseteq Tasks /\ HealerLimit \in Nat

VARIABLES
  state,     \* the engine's state
  phaseOf,   \* [status, attempts] of each phase
  timers,    \* phases whose healing timer runs
  saving,    \* saves under way, oldest first, each with what its caller does next
  console,   \* the records the panel holds, oldest first
  recorded,  \* how many records the database has
  wired,     \* whether setFailureConsoleCoordinator has been called
  knownTask, \* whether the runbook's project_id is a row of the task table
  spent      \* [commands, lost]: how much of the bounds is used

failureVars == <<state, phaseOf, timers, saving, console, recorded, wired, knownTask, spent>>

-----------------------------------------------------------------------------
(* Classification: the code decides, and without one the timeline does     *)

Classified(category, severity, scope) ==
  [category |-> category, severity |-> severity, scope |-> scope]

ErrorCodeMap ==
  [WORKER_TIMEOUT    |-> Classified("timeout", "recoverable", "worker"),
   WORKER_CRASH      |-> Classified("worker_execution_error", "hard_failure", "worker"),
   PHASE_FAILED      |-> Classified("worker_execution_error", "recoverable", "phase"),
   TOKEN_OVER_BUDGET |-> Classified("context_budget_exceeded", "recoverable", "context"),
   CONTEXT_ERROR     |-> Classified("context_assembly_error", "recoverable", "context"),
   VALIDATION_ERROR  |-> Classified("success_criteria_mismatch", "recoverable", "phase"),
   PLAN_ERROR        |-> Classified("planner_invalid_output", "hard_failure", "run"),
   CYCLE_DETECTED    |-> Classified("scheduler_stall", "hard_failure", "run"),
   COMMAND_ERROR     |-> Classified("tool_invocation_error", "recoverable", "tool")]

InferFromTimeline(timeline) ==
  IF \E e \in timeline : e.source = "tool" /\ e.root
  THEN Classified("tool_invocation_error", "recoverable", "tool")
  ELSE IF \E e \in timeline : e.source = "evaluator"
  THEN Classified("evaluation_rejection", "recoverable", "phase")
  ELSE Classified("unknown", "recoverable", "run")

Classify(timeline, code) ==
  IF code \in DOMAIN ErrorCodeMap THEN ErrorCodeMap[code] ELSE InferFromTimeline(timeline)

-----------------------------------------------------------------------------
(* Suggestions, the most confident first                                   *)

Rule(action, confidence) == [action |-> action, confidence |-> confidence]
Inspect == "inspect_repair_prompt"

SuggestionRules ==
  [worker_execution_error  |-> <<Rule("retry", "high"), Rule("reroute_worker", "medium")>>,
   tool_denied             |-> <<Rule("edit_success_criteria", "medium"), Rule("skip", "low")>>,
   tool_invocation_error   |-> <<Rule("retry", "high"), Rule(Inspect, "medium")>>,
   context_budget_exceeded |-> <<Rule("retry_with_more_context", "high"),
                                 Rule("edit_success_criteria", "medium")>>,
   context_assembly_error  |-> <<Rule("retry", "medium"), Rule(Inspect, "medium")>>,
   evaluation_rejection    |-> <<Rule("edit_success_criteria", "high"), Rule("retry", "medium")>>,
   timeout                 |-> <<Rule("retry", "medium"), Rule("reroute_worker", "medium")>>,
   dependency_failure      |-> <<Rule("skip", "low"), Rule(Inspect, "low")>>,
   mcp_contract_error      |-> <<Rule("retry", "medium"), Rule(Inspect, "high")>>,
   plugin_failure          |-> <<Rule("retry", "low"), Rule(Inspect, "medium")>>,
   unknown                 |-> <<Rule(Inspect, "medium"), Rule("retry", "low")>>]

Suggest(category) ==
  LET rules == IF category \in DOMAIN SuggestionRules THEN SuggestionRules[category] ELSE << >>
      all   == IF \E i \in DOMAIN rules : rules[i].action = Inspect
               THEN rules ELSE Append(rules, Rule(Inspect, "low"))
      with(confidence) == SelectSeq(all, LAMBDA r : r.confidence = confidence)
  IN  with("high") \o with("medium") \o with("low")

-----------------------------------------------------------------------------
(* Legality, as the engine is when the record is built                     *)

RouterLimit(p) == IF OwnLimit[p] = Unset THEN 3 ELSE OwnLimit[p]

\* Mutant: the context is the one of the moment the phase was given up.
LegalityContextEarly(p) ==
  [state |-> "ERROR_PAUSED", status |-> "failed", downstream |-> p \in Needed,
   critical |-> p \in Needed, workers |-> 1, category |-> "unknown",
   retries |-> phaseOf[p].attempts, limit |-> RouterLimit(p)]

\* The category is not the classified one: nothing replaces it later.
LegalityContext(p) ==
  [state |-> state, status |-> phaseOf[p].status, downstream |-> p \in Needed,
   critical |-> p \in Needed, workers |-> 1, category |-> "unknown",
   retries |-> phaseOf[p].attempts, limit |-> RouterLimit(p)]

Legal(action, ctx) ==
  CASE action = "retry" -> ctx.retries < ctx.limit /\ ctx.state = "ERROR_PAUSED"
    [] action = "retry_with_more_context" ->
         ctx.category \notin {"tool_denied", "plugin_failure"} /\ ctx.retries < ctx.limit
    [] action = "edit_success_criteria" -> ctx.status = "failed"
    [] action = "skip" -> ~(ctx.downstream /\ ctx.critical)
    [] action = "reroute_worker" -> ctx.workers > 1
    [] OTHER -> TRUE

\* A suggestion that is not legal stays on the list, and says so in its rationale.
FilterSuggestions(suggestions, ctx) ==
  [i \in DOMAIN suggestions |->
    [action |-> suggestions[i].action, confidence |-> suggestions[i].confidence,
     disabled |-> ~Legal(suggestions[i].action, ctx)]]

-----------------------------------------------------------------------------
(* The record *)

Event(source) == [source |-> source, root |-> TRUE]

Assemble(p, class, actions) ==
  [phase |-> p, category |-> class.category, severity |-> class.severity,
   scope |-> class.scope, actions |-> actions]

\* What handleFailure and handleWorkerFailed do last.
BuildRecord(p, code) ==
  LET source == IF code = "PHASE_FAILED" THEN "evaluator" ELSE "worker"
      class  == Classify({Event(source)}, code)
  IN  Assemble(p, class, FilterSuggestions(Suggest(class.category), LegalityContext(p)))

\* FailureConsoleRepository.upsert: the task id is a foreign key, and a record
\* of an unknown task is refused; the refusal is only logged.
Upserted(n) == IF knownTask THEN n + 1 ELSE n

\* The panel's store keeps every record it is sent.
Received(r) == Append(console, r)

Report(p, code) ==
  IF wired
  THEN console' = Received(BuildRecord(p, code)) /\ recorded' = Upserted(recorded)
  ELSE UNCHANGED <<console, recorded>>

\* The dismiss button empties the panel's store.
Dismiss ==
  /\ console # << >>
  /\ console' = << >>
  /\ UNCHANGED <<state, phaseOf, timers, saving, recorded, wired, knownTask, spent>>

-----------------------------------------------------------------------------
(* The engine: phases that end                                             *)

With(status) == {p \in Tasks : phaseOf[p].status = status}
SetStatus(p, status) == [phaseOf EXCEPT ![p].status = status]

\* A save with what follows it; holds tells whether workerExitLock waits for it.
SaveThen(then, p, code, holds) ==
  saving' = Append(saving, [then |-> then, phase |-> p, code |-> code, holds |-> holds])

\* A report of the phase's worker is taken up.
LockFree == \A i \in DOMAIN saving : ~saving[i].holds
Alone(p) == With("running") = {p}
Ends(p) == phaseOf[p].status = "running" /\ LockFree

Budget(p) == IF OwnLimit[p] = Unset THEN HealerLimit ELSE OwnLimit[p]
Counted(p, status) ==
  phaseOf' = [phaseOf EXCEPT ![p] = [status |-> status, attempts |-> @.attempts + 1]]
CanRetry(p) == phaseOf[p].attempts + 1 < Budget(p)

Passed(p) ==
  /\ Ends(p)
  /\ phaseOf' = [phaseOf EXCEPT ![p] = [status |-> "completed", attempts |-> 0]]
  /\ state' =
       IF ~Alone(p) THEN state
       ELSE FireBoth(state, "WORKER_EXITED",
              IF With("pending") # {} THEN "PHASE_PASS"
              ELSE IF With("failed") # {} THEN "PHASE_FAIL" ELSE "ALL_PHASES_PASS")
  /\ SaveThen(IF Alone(p) /\ With("pending") = {} THEN "nothing" ELSE "dispatch", p, "", TRUE)
  /\ UNCHANGED <<timers, console, recorded, wired, knownTask, spent>>

\* The verdict of the last worker goes to handleFailure, which nobody awaits;
\* among other workers the phase fails in place, without a record.
Rejected(p) ==
  /\ Ends(p)
  /\ Counted(p, IF CanRetry(p) THEN "pending" ELSE "failed")
  /\ state' = IF Alone(p) THEN FireBoth(state, "WORKER_EXITED", "PHASE_FAIL") ELSE state
  /\ SaveThen(IF CanRetry(p) THEN "heal" ELSE IF Alone(p) THEN "report" ELSE "nothing",
          p, "PHASE_FAILED", ~Alone(p))
  /\ UNCHANGED <<timers, console, recorded, wired, knownTask, spent>>

\* handleWorkerFailed
WorkerFails(p, code) ==
  /\ Ends(p)
  /\ Counted(p, IF CanRetry(p) THEN "pending" ELSE "failed")
  /\ state' = IF Alone(p) THEN Fire(state, code) ELSE state
  /\ SaveThen(IF CanRetry(p) THEN "heal" ELSE IF Alone(p) THEN "report" ELSE "dispatchAndReport",
          p, code, TRUE)
  /\ UNCHANGED <<timers, console, recorded, wired, knownTask, spent>>

-----------------------------------------------------------------------------
(* The engine: what follows a save, healing, commands                      *)

\* dispatchReadyPhases, and executePhase for each phase: an engine paused by an
\* error resumes.
DispatchPending ==
  /\ phaseOf' = [p \in Tasks |->
       IF phaseOf[p].status = "pending" THEN [phaseOf[p] EXCEPT !.status = "running"] ELSE phaseOf[p]]
  /\ state' = IF state = "ERROR_PAUSED" /\ With("pending") # {} THEN Fire(state, "RETRY") ELSE state

\* The oldest save has ended and its caller goes on.
Saved ==
  /\ saving # << >>
  /\ saving' = Tail(saving)
  /\ LET next == Head(saving) IN
     /\ timers' = IF next.then = "heal" THEN timers \cup {next.phase} ELSE timers
     /\ IF next.then \in {"dispatch", "dispatchAndReport"}
        THEN DispatchPending ELSE UNCHANGED <<state, phaseOf>>
     /\ IF next.then \in {"report", "dispatchAndReport"}
        THEN Report(next.phase, next.code) ELSE UNCHANGED <<console, recorded>>
  /\ Head(saving).then # "skip"
  /\ UNCHANGED <<wired, knownTask, spent>>

\* skipPhase goes on: the run is over, or it starts again with a second save.
SkipSaved ==
  /\ saving # << >> /\ Head(saving).then = "skip"
  /\ LET left == With("pending") \cup With("running") IN
     \/ /\ left # {} /\ Accepts(state, "START")
        /\ state' = Fire(state, "START")
        /\ saving' = Append(Tail(saving), [Head(saving) EXCEPT !.then = "dispatch"])
     \/ /\ left = {} /\ With("failed") = {} /\ Accepts(state, "START")
        /\ state' = FireBoth(Fire(state, "START"), "WORKER_EXITED", "ALL_PHASES_PASS")
        /\ saving' = Append(Tail(saving), [Head(saving) EXCEPT !.then = "nothing"])
     \/ /\ left = {} /\ With("failed") # {}
        /\ saving' = Append(Tail(saving), [Head(saving) EXCEPT !.then = "nothing"])
        /\ UNCHANGED state
     \/ /\ left = {} <=> With("failed") = {}
        /\ ~Accepts(state, "START")
        /\ saving' = Tail(saving)
        /\ UNCHANGED state
  /\ UNCHANGED <<phaseOf, timers, console, recorded, wired, knownTask, spent>>

\* The save is rejected and the rest of its caller is not run.  (A callback's
\* rejection also ends the lock's chain: Engine!CallbackSaveFails.)
SaveRejected ==
  /\ saving # << >> /\ ~Head(saving).holds
  /\ spent.lost < MaxLost
  /\ spent' = [spent EXCEPT !.lost = @ + 1]
  /\ saving' = Tail(saving)
  /\ UNCHANGED <<state, phaseOf, timers, console, recorded, wired, knownTask>>

\* executePhase for a healed phase resumes the engine; the phase itself is
\* left as it is, until the watchdog dispatches it.
HealFires(p) ==
  /\ p \in timers
  /\ timers' = timers \ {p}
  /\ state' = IF state = "ERROR_PAUSED" THEN Fire(state, "RETRY") ELSE state
  /\ UNCHANGED <<phaseOf, saving, console, recorded, wired, knownTask, spent>>

\* The stall watchdog; its thirty seconds are longer than any save.
Redispatch ==
  /\ saving = << >>
  /\ state = "EXECUTING_WORKER" /\ With("running") = {} /\ With("pending") # {}
  /\ DispatchPending
  /\ UNCHANGED <<timers, saving, console, recorded, wired, knownTask, spent>>

Commanded ==
  /\ spent.commands < MaxCommands
  /\ spent' = [spent EXCEPT !.commands = @ + 1]

RetryPhase(p) ==
  /\ Commanded
  /\ phaseOf[p].status \in {"failed", "pending"}
  /\ Accepts(state, "RETRY")
  /\ state' = Fire(state, "RETRY")
  /\ phaseOf' = SetStatus(p, "pending")
  /\ SaveThen("dispatch", p, "", FALSE)
  /\ UNCHANGED <<timers, console, recorded, wired, knownTask>>

RestartFailed(p) ==
  /\ Commanded
  /\ phaseOf[p].status # "running"
  /\ \/ state = "EXECUTING_WORKER" /\ UNCHANGED state
     \/ state = "ERROR_PAUSED" /\ state' = Fire(state, "RETRY")
     \/ state \in {"IDLE", "READY"} /\ state' = Fire(state, "START")
  /\ phaseOf' = [phaseOf EXCEPT ![p] = [status |-> "pending", attempts |-> 0]]
  /\ SaveThen("dispatch", p, "", FALSE)
  /\ UNCHANGED <<timers, console, recorded, wired, knownTask>>

Skip(p) ==
  /\ Commanded
  /\ Accepts(state, "SKIP_PHASE")
  /\ state' = Fire(state, "SKIP_PHASE")
  /\ phaseOf' = SetStatus(p, "completed")
  /\ SaveThen("skip", p, "", FALSE)
  /\ UNCHANGED <<timers, console, recorded, wired, knownTask>>

AbortRun ==
  /\ Commanded
  /\ Accepts(state, "ABORT")
  /\ state' = Fire(state, "ABORT")
  /\ timers' = {}
  /\ phaseOf' = [p \in Tasks |->
       IF phaseOf[p].status = "running" THEN [phaseOf[p] EXCEPT !.status = "pending"] ELSE phaseOf[p]]
  /\ SaveThen("nothing", CHOOSE p \in Tasks : TRUE, "", FALSE)
  /\ UNCHANGED <<console, recorded, wired, knownTask>>

-----------------------------------------------------------------------------
\* A run is starting; the console is wired by the first plan request of the
\* window, so a run restored before that has none.
FailuresInit ==
  /\ state = "EXECUTING_WORKER"
  /\ phaseOf = [p \in Tasks |-> [status |-> "pending", attempts |-> 0]]
  /\ timers = {} /\ saving = << >> /\ console = << >> /\ recorded = 0
  /\ wired \in BOOLEAN /\ knownTask \in BOOLEAN
  /\ spent = [commands |-> 0, lost |-> 0]

FailuresNext ==
  \/ Saved \/ SkipSaved \/ SaveRejected \/ Redispatch \/ AbortRun \/ Dismiss
  \/ \E p \in Tasks :
       \/ Passed(p) \/ Rejected(p) \/ HealFires(p)
       \/ RetryPhase(p) \/ RestartFailed(p) \/ Skip(p)
       \/ \E code \in {"WORKER_TIMEOUT", "WORKER_CRASH"} : WorkerFails(p, code)

FailuresSpec == FailuresInit /\ [][FailuresNext]_failureVars

-----------------------------------------------------------------------------
Offers(r, action) == \E i \in DOMAIN r.actions : r.actions[i].action = action /\ ~r.actions[i].disabled

\* When a record that offers Retry reaches the console, the engine would take
\* that retry: the offer is judged by what the user has done while the runbook
\* was being saved, and not by how the engine was when the phase was given up.
OfferedRetryIsTaken ==
  [][\A r \in {console'[i] : i \in DOMAIN console' \ DOMAIN console} :
       Offers(r, "retry") =>
         /\ Accepts(state, "RETRY")
         /\ With("running") = {}]_failureVars
=============================================================================
