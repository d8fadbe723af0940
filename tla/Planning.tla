----------------------------- MODULE Planning -----------------------------
(***************************************************************************)
(* Planning: the way of a prompt to an approved runbook, and the switching *)
(* of sessions around it.  PlanningController holds the draft; the         *)
(* PlannerAgent runs a job in an external agent, retries it and re-reads   *)
(* what it left; PlannerWiring writes every generated plan early; the      *)
(* commands reset the engine, load and delete sessions.                    *)
(*                                                                         *)
(* A plan is known by the session and the number of the question (a prompt *)
(* or a rejection with feedback) that it answers.  A StateManager is the   *)
(* directory and the task of the database it is bound to.  A save is one   *)
(* step here (StateStore has its own); a run of the runbook is Start and   *)
(* Finish (Engine has its own).                                            *)
(***************************************************************************)
EXTENDS EngineFsm, Naturals, FiniteSets

CONSTANTS
  Sessions,
  Saved,     \* sessions of earlier days, with a plan in the database
  Modes,     \* how the user and the agents behave, see mode
  MaxRounds, \* bound: questions asked
  MaxJobs    \* bound: planner jobs that live at the same time

ASSUME PlanningAssumption ==
  /\ Saved \subseteq Sessions
  /\ "none" \notin Sessions
  /\ Modes \subseteq [patient : BOOLEAN, switches : BOOLEAN, writes : BOOLEAN, asks : 0..MaxRounds]
  /\ MaxRounds \in Nat
  /\ MaxJobs \in Nat

VARIABLES
  mode,     \* patient: the user lets a planner at work finish; switches: the user changes
            \* sessions; writes: the agents write the runbook file, not only the stream;
            \* asks: bound on the questions
  engine,   \* state, draft, prompt, runbook, and the number of the last question
  flow,     \* planApproved or loadRunbook between two awaits
  manager,  \* the StateManagers of the engine and of the container; are they one object?
  current,  \* svc.currentSessionDirName, which is the planner's masterTaskId
  table,    \* the sessions table: the ids not yet drawn, the rows, the deleted ones
  row, file,\* the runbook of each session, in the database and in its directory
  planner, jobs,
  told,     \* the last PLAN_STATUS the user got
  shown     \* the last PLAN_DRAFT the user got

planningVars == <<mode, engine, flow, manager, current, table, row, file, planner, jobs, told, shown>>
sessionVars == <<manager, current, table>>

Plan(s, n) == [home |-> s, round |-> n]
Nothing == Plan("none", 0)
Garbage == Plan("none", 1)
Plans == [home : Sessions, round : 0..MaxRounds]
Jobs == 1..MaxJobs
MaxRetries == 2

NoFlow == [step |-> "none", plan |-> Nothing, approved |-> FALSE]
NoJob == [stage |-> "none", answer |-> Nothing, dir |-> "none", killed |-> FALSE,
          expired |-> FALSE, code |-> 0]
Unbound == [dir |-> "none", task |-> "none"]

PlanningInit ==
  /\ mode \in Modes
  /\ engine = [state |-> "IDLE", draft |-> Nothing, prompt |-> Nothing,
               runbook |-> Nothing, round |-> 0]
  /\ flow = NoFlow
  /\ manager = [engine |-> Unbound, svc |-> Unbound, shared |-> TRUE]
  /\ current = "none"
  /\ table = [s \in Sessions |-> IF s \in Saved THEN "listed" ELSE "new"]
  /\ row = [s \in Sessions |-> IF s \in Saved THEN Plan(s, 0) ELSE Nothing]
  /\ file = row
  /\ planner = [active |-> 0, out |-> Nothing, prompt |-> Nothing, retries |-> 0,
                timedOut |-> FALSE, cached |-> Nothing, response |-> Nothing, auto |-> FALSE]
  /\ jobs = [j \in Jobs |-> NoJob]
  /\ told = "none"
  /\ shown = Nothing

Live(j) == jobs[j].stage # "none"
Quiet == (\A j \in Jobs : ~Live(j)) /\ ~planner.auto /\ flow = NoFlow
\* What the user does to a planner at work, in the patient mode: nothing.
Allowed == mode.patient => Quiet
\* The states in which the panel offers a command; a panel may be late.
Offered(states) == mode.patient => engine.state \in states

At(dirs, s, plan) == IF s \in Sessions THEN [dirs EXCEPT ![s] = plan] ELSE dirs
OnDisk(s) == IF s \in Sessions THEN file[s] ELSE Nothing

\* saveRunbook of a StateManager.
Save(m, plan) ==
  /\ row' = At(row, m.task, plan)
  /\ file' = At(file, m.dir, plan)

Rest(e) == [e EXCEPT !.draft = Nothing, !.prompt = Nothing, !.runbook = Nothing]

(* What the planner's events do to the engine.                             *)

\* engine.abort, which a failed plan calls: a runbook at hand is saved as idle.
AbortEngine ==
  /\ engine' = [engine EXCEPT !.state = Fire(@, "ABORT")]
  /\ IF Accepts(engine.state, "ABORT") /\ engine.runbook # Nothing
     THEN Save(manager.engine, engine.runbook) ELSE UNCHANGED <<row, file>>
  /\ UNCHANGED shown

\* A mutant of Generated: a draft at hand is kept, the panel shows the new one.
GeneratedKept(plan) ==
  /\ engine' = [engine EXCEPT !.draft = IF @ = Nothing THEN plan ELSE @,
                              !.state = Fire(@, "PLAN_GENERATED")]
  /\ shown' = IF Accepts(engine.state, "PLAN_GENERATED") THEN plan ELSE shown
  /\ Save(manager.svc, plan)
  /\ told' = "ready"

\* plan:generated: the draft is set whatever the state, and always written early,
\* through the container's manager.
Generated(plan) ==
  /\ engine' = [engine EXCEPT !.draft = plan, !.state = Fire(@, "PLAN_GENERATED")]
  /\ shown' = IF Accepts(engine.state, "PLAN_GENERATED") THEN plan ELSE shown
  /\ Save(manager.svc, plan)
  /\ told' = "ready"

Failed ==
  /\ told' = "error"
  /\ AbortEngine

\* A mutant of TimedOut: the panel hears of it only when nothing can be parsed again.
TimedOutQuiet(output, cached, response) ==
  IF output # Nothing \/ cached # Nothing \/ response # Nothing
  THEN UNCHANGED <<told, engine, row, file, shown>> ELSE told' = "timeout" /\ AbortEngine

\* plan:timeout: the planning goes on while there is something to parse again.
TimedOut(output, cached, response) ==
  /\ told' = "timeout"
  /\ IF output # Nothing \/ cached # Nothing \/ response # Nothing
     THEN UNCHANGED <<engine, row, file, shown>> ELSE AbortEngine

(* A planner job.                                                          *)

\* plan(): the job that is known as the active one is terminated.  all: the jobs before.
BeginPlan(all, prompt, answer, retries) ==
  \E j \in Jobs :
    /\ all[j].stage = "none"
    /\ \A i \in Jobs : i < j => all[i].stage # "none"
    /\ jobs' = [i \in Jobs |->
                  IF i = j THEN [NoJob EXCEPT !.stage = "scanning", !.answer = answer]
                  ELSE IF i = planner.active THEN [all[i] EXCEPT !.killed = TRUE] ELSE all[i]]
    /\ planner' = [planner EXCEPT !.active = 0, !.out = Nothing, !.timedOut = FALSE,
                     !.response = Nothing, !.prompt = prompt, !.retries = retries]

BuildPrompt(j) ==
  /\ jobs[j].stage = "scanning"
  /\ jobs' = [jobs EXCEPT ![j].stage = "starting"]
  /\ told' = "generating"
  /\ UNCHANGED <<mode, engine, flow, sessionVars, row, file, planner, shown>>

JobStarts(j) ==
  /\ jobs[j].stage = "starting"
  /\ jobs' = [jobs EXCEPT ![j].stage = "running", ![j].dir = current]
  /\ planner' = [planner EXCEPT !.active = j, !.response = jobs[j].answer]
  /\ UNCHANGED <<mode, engine, flow, sessionVars, row, file, told, shown>>

JobFails(j) ==
  /\ jobs[j].stage \in {"scanning", "starting"}
  /\ jobs' = [jobs EXCEPT ![j] = NoJob]
  /\ planner' = [planner EXCEPT !.active = 0]
  /\ Failed
  /\ UNCHANGED <<mode, flow, sessionVars>>

\* The chat agent writes the runbook file it was told; a cancelled one as well.
JobWrites(j) ==
  /\ mode.writes
  /\ jobs[j].stage = "running"
  /\ jobs[j].dir \in Sessions
  /\ file' = [file EXCEPT ![jobs[j].dir] = jobs[j].answer]
  /\ UNCHANGED <<mode, engine, flow, sessionVars, row, planner, jobs, told, shown>>

\* Jobs share the accumulated output.
JobTalks(j) ==
  /\ jobs[j].stage = "running"
  /\ ~jobs[j].killed
  /\ \E text \in {jobs[j].answer, Garbage} :
       planner' = [planner EXCEPT !.out = IF @ = Nothing THEN text ELSE Garbage]
  /\ UNCHANGED <<mode, engine, flow, sessionVars, row, file, jobs, told, shown>>

\* The exit handler.  It forgets the active job, whichever that is by now, and reads
\* the file of the session that is current by now.
JobExits(j) ==
  /\ jobs[j].stage = "running"
  /\ \E code \in (IF jobs[j].killed THEN {1} ELSE {0, 1}) :
       /\ jobs' = [jobs EXCEPT ![j] = IF planner.timedOut THEN NoJob
                     ELSE [@ EXCEPT !.stage = "reading", !.dir = current, !.code = code]]
       /\ planner' = [planner EXCEPT !.active = 0,
                        !.cached = IF ~planner.timedOut /\ code = 1 THEN planner.out ELSE @]
  /\ UNCHANGED <<mode, engine, flow, sessionVars, row, file, told, shown>>

Ended(j) == [jobs EXCEPT ![j] = NoJob]

\* The file comes first, also when the job wrote none.
ReadPlan(j) ==
  /\ jobs[j].stage = "reading"
  /\ OnDisk(jobs[j].dir) \in Plans
  /\ Generated(OnDisk(jobs[j].dir))
  /\ planner' = [planner EXCEPT !.retries = 0]
  /\ jobs' = Ended(j)
  /\ UNCHANGED <<mode, flow, sessionVars>>

ReadNothing(j) ==
  /\ jobs[j].stage = "reading"
  /\ jobs[j].code = 1
  /\ OnDisk(jobs[j].dir) \notin Plans
  /\ TimedOut(planner.out, planner.cached, planner.response)
  /\ jobs' = Ended(j)
  /\ UNCHANGED <<mode, flow, sessionVars, planner>>

ParseFromStdout(j) ==
  /\ jobs[j].stage = "reading"
  /\ jobs[j].code = 0
  /\ OnDisk(jobs[j].dir) \notin Plans
  /\ planner.out \in Plans
  /\ Generated(planner.out)
  /\ planner' = [planner EXCEPT !.retries = 0]
  /\ jobs' = Ended(j)
  /\ UNCHANGED <<mode, flow, sessionVars>>

Unparsed(j) ==
  /\ jobs[j].stage = "reading"
  /\ jobs[j].code = 0
  /\ OnDisk(jobs[j].dir) \notin Plans
  /\ planner.out \notin Plans

\* A retry asks the prompt again, without the feedback.
RetryPlan(j) ==
  /\ Unparsed(j)
  /\ planner.retries < MaxRetries
  /\ told' = "generating"
  /\ BeginPlan(Ended(j), planner.prompt, planner.prompt, planner.retries + 1)
  /\ UNCHANGED <<mode, engine, flow, sessionVars, row, file, shown>>

GiveUp(j) ==
  /\ Unparsed(j)
  /\ planner.retries >= MaxRetries
  /\ planner' = [planner EXCEPT !.retries = MaxRetries + 1]
  /\ jobs' = Ended(j)
  /\ Failed
  /\ UNCHANGED <<mode, flow, sessionVars>>

\* The timer of a job stops only with the exit of that job.
Timeout(j) ==
  /\ jobs[j].stage = "running"
  /\ ~jobs[j].expired
  /\ jobs' = [i \in Jobs |->
       [jobs[i] EXCEPT !.expired = (@ \/ i = j), !.killed = (@ \/ i = planner.active)]]
  /\ planner' = [planner EXCEPT !.active = 0, !.timedOut = TRUE, !.cached = planner.out,
                   !.auto = @ \/ planner.out # Nothing \/ planner.response # Nothing]
  /\ TimedOut(planner.out, planner.out, planner.response)
  /\ UNCHANGED <<mode, flow, sessionVars>>

\* retryParse: the file, the cached output, then the response file of the last job.
Reparse(auto) ==
  LET ready == [planner EXCEPT !.retries = 0, !.cached = Nothing, !.response = Nothing, !.auto = auto]
      kept == [planner EXCEPT !.auto = auto]
      Found(plan) == planner' = ready /\ Generated(plan)
  IN /\ IF OnDisk(current) \in Plans THEN Found(OnDisk(current))
        ELSE IF planner.cached \in Plans THEN Found(planner.cached)
        ELSE \/ mode.writes /\ planner.response \in Plans /\ Found(planner.response)
             \/ planner' = kept /\ Failed
     /\ UNCHANGED <<mode, flow, sessionVars, jobs>>

AutoRetryParse == planner.auto /\ Reparse(FALSE)

(* Commands.                                                               *)

Unused == {s \in Sessions : table[s] = "new"}
Fresh == CHOOSE s \in Unused : TRUE
\* What restoring a session looks at: its row in the sessions table, then its runbook.
Health(s) ==
  IF table[s] # "listed" THEN "invalid" ELSE IF row[s] = Nothing THEN "degraded" ELSE "healthy"

\* The row of a session, and all of it when it is deleted.
Listed(s) == table' = [table EXCEPT ![s] = "listed"]
Erased(s) ==
  /\ table' = [table EXCEPT ![s] = "deleted"]
  /\ row' = At(row, s, Nothing)
  /\ file' = At(file, s, Nothing)
Others == {s \in Sessions : table[s] = "listed"} \ {current}

RetryParse ==
  /\ Allowed
  /\ engine.state \in {"PLANNING", "IDLE"}
  /\ Reparse(planner.auto)

\* A refused request has wiped the draft and replaced the prompt all the same.  The
\* panel offers the input in IDLE and, to no avail, in ERROR_PAUSED.
PlanRequestRefused ==
  /\ Allowed
  /\ Offered({"ERROR_PAUSED"})
  /\ ~Accepts(engine.state, "PLAN_REQUEST")
  /\ engine.round < mode.asks
  /\ current \in Sessions
  /\ engine' = [engine EXCEPT !.draft = Nothing, !.round = @ + 1,
                              !.prompt = Plan(current, engine.round + 1)]
  /\ UNCHANGED <<mode, flow, sessionVars, row, file, planner, jobs, told, shown>>

\* The first request of a window makes the session: the container binds the manager
\* that the engine was built with to its directory, and then to its task.
Materialise(s) ==
  /\ current' = s
  /\ Listed(s)
  /\ LET bound == [dir |-> s, task |-> s]
     IN manager' = [manager EXCEPT !.svc = bound, !.engine = IF manager.shared THEN bound ELSE @]

PlanRequest ==
  /\ Allowed
  /\ Accepts(engine.state, "PLAN_REQUEST")
  /\ engine.round < mode.asks
  /\ \/ current \in Sessions /\ UNCHANGED sessionVars
     \/ current \notin Sessions /\ Unused # {} /\ Materialise(Fresh)
  /\ LET ask == Plan(current', engine.round + 1)
     IN /\ engine' = [engine EXCEPT !.state = Fire(@, "PLAN_REQUEST"), !.draft = Nothing,
                                    !.prompt = ask, !.round = @ + 1]
        /\ BeginPlan(jobs, ask, ask, planner.retries)
  /\ told' = "generating"
  /\ UNCHANGED <<mode, flow, row, file, shown>>

PlanRejected ==
  /\ Allowed
  /\ Accepts(engine.state, "PLAN_REJECTED")
  /\ engine.round < mode.asks
  /\ engine' = [engine EXCEPT !.state = Fire(@, "PLAN_REJECTED"), !.round = @ + 1]
  /\ BeginPlan(jobs, engine.prompt, Plan(engine.prompt.home, engine.round + 1), planner.retries)
  /\ told' = "generating"
  /\ UNCHANGED <<mode, flow, sessionVars, row, file, shown>>

\* planApproved, up to its first await.
Approve ==
  /\ Allowed /\ Offered({"PLAN_REVIEW"})
  /\ engine.draft # Nothing
  /\ flow = NoFlow
  /\ flow' = [step |-> "save", plan |-> engine.draft, approved |-> TRUE]
  /\ UNCHANGED <<mode, engine, sessionVars, row, file, planner, jobs, told, shown>>

\* loadRunbook of the engine's manager: from the database at once, else from the file
\* after an await.
Load(e, saved, approved) ==
  LET task == manager.engine.task
      plan == IF task \in Sessions THEN saved[task] ELSE Nothing
  IN IF plan # Nothing
     THEN /\ engine' = [e EXCEPT !.state = Fire(@, "PARSE_SUCCESS"), !.runbook = plan]
          /\ flow' = NoFlow
     ELSE /\ engine' = e
          /\ flow' = [step |-> "load", plan |-> Nothing, approved |-> approved]

\* The save has returned.
ApproveSaved ==
  /\ flow.step = "save"
  /\ Save(manager.engine, flow.plan)
  /\ IF Accepts(engine.state, "PLAN_APPROVED")
     THEN Load([engine EXCEPT !.state = "PARSING"], At(row, manager.engine.task, flow.plan), TRUE)
     ELSE engine' = engine /\ flow' = NoFlow
  /\ UNCHANGED <<mode, sessionVars, planner, jobs, told, shown>>

\* The file has been read: the runbook is set, whatever the state has become.
LoadedFromFile ==
  /\ flow.step = "load"
  /\ LET plan == OnDisk(manager.engine.dir)
     IN engine' = IF plan = Nothing THEN [engine EXCEPT !.state = Fire(@, "PARSE_FAILURE")]
                  ELSE [engine EXCEPT !.state = Fire(@, "PARSE_SUCCESS"), !.runbook = plan]
  /\ flow' = NoFlow
  /\ UNCHANGED <<mode, sessionVars, row, file, planner, jobs, told, shown>>

\* The command, and the watcher of the runbook files.
LoadRunbook ==
  /\ flow = NoFlow
  /\ Accepts(engine.state, "LOAD_RUNBOOK")
  /\ Load([engine EXCEPT !.state = "PARSING"], row, FALSE)
  /\ UNCHANGED <<mode, sessionVars, row, file, planner, jobs, told, shown>>

Start ==
  /\ engine.runbook # Nothing
  /\ Accepts(engine.state, "START")
  /\ engine' = [engine EXCEPT !.state = "EXECUTING_WORKER"]
  /\ Save(manager.engine, engine.runbook)
  /\ UNCHANGED <<mode, flow, sessionVars, planner, jobs, told, shown>>

Finish ==
  /\ engine.state = "EXECUTING_WORKER"
  /\ \E end \in {"COMPLETED", "ERROR_PAUSED"} : engine' = [engine EXCEPT !.state = end]
  /\ Save(manager.engine, engine.runbook)
  /\ UNCHANGED <<mode, flow, sessionVars, planner, jobs, told, shown>>

Abort ==
  /\ Allowed
  /\ Accepts(engine.state, "ABORT")
  /\ AbortEngine
  /\ UNCHANGED <<mode, flow, sessionVars, planner, jobs, told>>

\* A new session: a new manager, without a database, for both; the planner goes on.
Reset ==
  /\ Allowed /\ mode.switches
  /\ Unused # {}
  /\ LET m == [dir |-> Fresh, task |-> "none"]
     IN manager' = [engine |-> m, svc |-> m, shared |-> TRUE]
  /\ current' = Fresh
  /\ Listed(Fresh)
  /\ engine' = Rest([engine EXCEPT !.state = Fire(@, "RESET")])
  /\ UNCHANGED <<mode, flow, file, planner, jobs, told, shown>>

NewSession == Reset /\ UNCHANGED row

\* The panel's command saves the runbook at hand to the row of the engine's directory.
CmdReset ==
  /\ Reset
  /\ row' = IF engine.runbook # Nothing THEN At(row, manager.engine.dir, engine.runbook) ELSE row

SafeToSwitch == {"IDLE", "READY", "COMPLETED", "ERROR_PAUSED", "PLAN_REVIEW"}

\* The engine gets a manager of its own and loads its runbook; while it executes it
\* refuses, and the caller does not notice.
SwitchEngine(s) ==
  LET plan == IF row[s] # Nothing THEN row[s] ELSE file[s]
  IN IF engine.state \in SafeToSwitch
     THEN /\ engine' = [Rest(engine) EXCEPT !.runbook = plan,
                          !.state = IF plan = Nothing THEN "IDLE" ELSE "READY"]
          /\ row' = At(row, s, plan)
     ELSE UNCHANGED <<engine, row>>

\* The container points the manager it has at the directory; the task stays.
SwitchContainer(s) ==
  /\ current' = s
  /\ LET own == engine.state \in SafeToSwitch
         moved == [manager.svc EXCEPT !.dir = s]
     IN manager' = [svc |-> moved, shared |-> manager.shared /\ ~own,
                    engine |-> IF own THEN [dir |-> s, task |-> s]
                               ELSE IF manager.shared THEN moved ELSE manager.engine]

LoadSession ==
  \E s \in Others :
    /\ Allowed /\ mode.switches
    /\ Health(s) # "invalid"
    /\ SwitchEngine(s)
    /\ SwitchContainer(s)
    /\ UNCHANGED <<mode, flow, table, file, planner, jobs, told, shown>>

DeleteSession ==
  \E s \in Others :
    /\ Allowed /\ mode.switches
    /\ Erased(s)
    /\ UNCHANGED <<mode, engine, flow, manager, current, planner, jobs, told, shown>>

JobStep(j) ==
  \/ BuildPrompt(j) \/ JobStarts(j) \/ JobFails(j) \/ JobExits(j)
  \/ ReadPlan(j) \/ ReadNothing(j) \/ ParseFromStdout(j) \/ RetryPlan(j) \/ GiveUp(j)

Command ==
  \/ PlanRequest \/ PlanRequestRefused \/ PlanRejected \/ Approve \/ RetryParse
  \/ LoadRunbook \/ Start \/ Finish \/ Abort \/ NewSession \/ CmdReset \/ LoadSession \/ DeleteSession

PlanningNext ==
  \/ \E j \in Jobs : JobStep(j) \/ JobWrites(j) \/ JobTalks(j) \/ Timeout(j)
  \/ AutoRetryParse \/ ApproveSaved \/ LoadedFromFile
  \/ Command

PlanningFairness ==
  /\ \A j \in Jobs : WF_planningVars(JobStep(j))
  /\ WF_planningVars(AutoRetryParse)
  /\ WF_planningVars(ApproveSaved \/ LoadedFromFile)

PlanningSpec == PlanningInit /\ [][PlanningNext]_planningVars /\ PlanningFairness

-----------------------------------------------------------------------------
(* Properties                                                              *)

Texts == Plans \cup {Nothing, Garbage}
Dirs == Sessions \cup {"none"}
Managers == [dir : Dirs, task : Dirs]

PlanningTypeOK ==
  /\ mode \in Modes
  /\ engine \in [state : EngineStates, draft : Texts, prompt : Texts, runbook : Texts,
                 round : 0..MaxRounds]
  /\ flow \in [step : {"none", "save", "load"}, plan : Texts, approved : BOOLEAN]
  /\ manager \in [engine : Managers, svc : Managers, shared : BOOLEAN]
  /\ current \in Dirs
  /\ table \in [Sessions -> {"new", "listed", "deleted"}]
  /\ row \in [Sessions -> Texts]
  /\ file \in [Sessions -> Texts]
  /\ planner \in [active : 0..MaxJobs, out : Texts, prompt : Texts, retries : 0..MaxRetries + 1,
                  timedOut : BOOLEAN, cached : Texts, response : Texts, auto : BOOLEAN]
  /\ jobs \in [Jobs -> [stage : {"none", "scanning", "starting", "running", "reading"},
                        answer : Texts, dir : Dirs, killed : BOOLEAN, expired : BOOLEAN,
                        code : 0..1]]
  /\ told \in {"none", "generating", "ready", "timeout", "error"}
  /\ shown \in Texts

\* The user is never left waiting: the planning ends, or the panel says that it has
\* timed out or failed and offers the retry.
PlanningIsAnswered ==
  engine.state = "PLANNING" ~> (engine.state # "PLANNING" \/ told \in {"timeout", "error"})

\* The plan that becomes ready to run is the one the user was shown and approved.
ShownPlanRuns ==
  [][mode.patient /\ flow.approved /\ engine.state # "READY" /\ engine'.state = "READY"
       => engine'.runbook = shown]_planningVars

\* The plan under review answers the last question, a rejection's feedback included.
DraftAnswersPrompt == engine.state = "PLAN_REVIEW" => engine.draft.round = engine.round
=============================================================================
