------------------------------- MODULE Engine -------------------------------
(***************************************************************************)
(* The execution core: Engine.ts with its DispatchController,              *)
(* EvaluationOrchestrator, PhaseController, SessionController and          *)
(* SelfHealingController, wired to the workers by EngineWiring.ts.         *)
(*                                                                         *)
(* The extension host is one JavaScript thread.  An action is the code     *)
(* that runs between two awaits, timers or callbacks; what is suspended at *)
(* an await is kept in a variable of its own, and any suspended            *)
(* continuation may be the next to resume.                                 *)
(*                                                                         *)
(*   awaits      engine commands suspended on their persist() or load      *)
(*   dispatches  calls of dispatchReadyPhases: for each set of phases      *)
(*               still to be started, how many calls are at that point     *)
(*   exit        the worker callback that holds workerExitLock             *)
(*   heals       calls of handleFailure suspended on persist(); nobody     *)
(*               awaits them                                               *)
(*   launches    calls of executePhase on their way to spawnWorker         *)
(*   workers     ADKController.activeWorkers, keyed by phase               *)
(*   reports     worker results on their way to onWorkerExited or          *)
(*               onWorkerFailed (the handoff is stored first)              *)
(***************************************************************************)
EXTENDS EngineFsm, Scheduler

CONSTANTS
  MaxRetries,     \* phase.max_retries ?? maxRetries
  AdkMax,         \* ADKController._maxConcurrent, a setting of its own
  Runbooks,       \* what the store may hold: records [status, rbStatus]
  Commands,       \* the user commands issued in this instance
  Failures,       \* how workers fail in this instance: within {"fail", "timeout", "crash"}
  SlowDispatch,   \* may a worker finish before a dispatch that holds its phase?
  MaxCommands,    \* bound: commands in a behaviour
  MaxFailures,    \* bound: failed, timed-out or crashed workers
  MaxSaveErrors,  \* bound: rejected persist() calls
  MaxInFlight     \* bound: identical dispatches the watchdog may pile up

VARIABLES
  fsm, loaded, rbStatus, status, pauseRequested,
  activeWorkerCount, attempts, healTimers, stallWatchdog,
  awaits, dispatches, heals,
  exit, lockBroken,
  launches, workers, reports,
  everCompleted,  \* history: phases that have been completed at some time
  used            \* how much of each bound has been used

engineVars   == <<fsm, loaded, rbStatus, pauseRequested>>
healVars     == <<attempts, healTimers, heals>>
lockVars     == <<exit, lockBroken>>
workerVars   == <<launches, workers, reports>>
vars == <<engineVars, status, activeWorkerCount, healVars, stallWatchdog,
          awaits, dispatches, lockVars, workerVars, everCompleted, used>>

RunbookStatus == {"idle", "running", "paused_error", "completed"}
Verdicts == {"pass", "fail", "timeout", "crash"}
Awaiting == {"load", "start", "restart", "skip", "abort"}
Bounds == {"command", "failure", "saveError"}

\* Where the holder of workerExitLock is suspended: evaluating the success
\* criteria, or on a persist() after which it advances the schedule,
\* dispatches, arms a healing timer or is done.
ExitPc == {"idle", "evaluate", "advance", "dispatch", "heal", "done"}
NoExit == [pc |-> "idle", phase |-> 1, verdict |-> "pass", last |-> FALSE]

Work == (SUBSET Phases) \ {{}}
None(S) == [x \in S |-> 0]
Inc(f, x) == [f EXCEPT ![x] = @ + 1]
Dec(f, x) == [f EXCEPT ![x] = @ - 1]

ASSUME MaxRetriesAssumption == MaxRetries \in Nat
ASSUME AdkMaxAssumption == AdkMax \in Nat \ {0}
ASSUME RunbooksAssumption ==
  \A rb \in Runbooks : rb.status \in [Phases -> PhaseStatus] /\ rb.rbStatus \in RunbookStatus

TypeOK ==
  /\ fsm \in EngineStates
  /\ loaded \in BOOLEAN
  /\ rbStatus \in RunbookStatus
  /\ status \in [Phases -> PhaseStatus]
  /\ pauseRequested \in BOOLEAN
  /\ activeWorkerCount \in Nat
  /\ attempts \in [Phases -> Nat]
  /\ healTimers \in [Phases -> Nat]
  /\ stallWatchdog \in BOOLEAN
  /\ awaits \in [Awaiting -> Nat]
  /\ dispatches \in [Work -> Nat]
  /\ heals \in [Phases -> Nat]
  /\ exit \in [pc : ExitPc, phase : Phases, verdict : Verdicts, last : BOOLEAN]
  /\ lockBroken \in BOOLEAN
  /\ launches \in [Phases -> Nat]
  /\ workers \in SUBSET Phases
  /\ reports \in [Phases \X Verdicts -> Nat]
  /\ everCompleted \in SUBSET Phases
  /\ used \in [Bounds -> Nat]

Init ==
  /\ fsm = "IDLE" /\ loaded = FALSE /\ rbStatus = "idle"
  /\ status = [p \in Phases |-> "pending"]
  /\ pauseRequested = FALSE
  /\ activeWorkerCount = 0
  /\ attempts = None(Phases) /\ healTimers = None(Phases) /\ heals = None(Phases)
  /\ stallWatchdog = FALSE
  /\ awaits = None(Awaiting)
  /\ dispatches = None(Work)
  /\ exit = NoExit /\ lockBroken = FALSE
  /\ launches = None(Phases) /\ workers = {} /\ reports = None(Phases \X Verdicts)
  /\ everCompleted = {}
  /\ used = None(Bounds)

-----------------------------------------------------------------------------
(* Shared steps *)

UserCommand(c) ==
  c \in Commands /\ used["command"] < MaxCommands /\ used' = Inc(used, "command")

\* dispatchReadyPhases up to its first await: the ready set is fixed here.
DispatchReady ==
  LET ready == ReadyPhases(status')
  IN dispatches' = IF loaded /\ ready # {} THEN Inc(dispatches, ready) ELSE dispatches

\* Mutant: the call is not restricted to a paused engine.
ExecutePhaseInAnyState(p) ==
  /\ fsm' = Fire(fsm, "RETRY")
  /\ launches' = IF fsm' = "EXECUTING_WORKER" THEN Inc(launches, p) ELSE launches

\* executePhase up to its first await: an engine paused by an error is sent
\* back to EXECUTING_WORKER, and in any other state the call does nothing.
ExecutePhase(p) ==
  /\ fsm' = IF fsm = "ERROR_PAUSED" THEN Fire(fsm, "RETRY") ELSE fsm
  /\ launches' = IF fsm' = "EXECUTING_WORKER" THEN Inc(launches, p) ELSE launches

\* canRetryWithPhase, asked right after recordFailure has counted the attempt.
CanRetry(p) == attempts[p] + 1 < MaxRetries

\* Mutant: failed phases are not looked for.
HasFailedNever(st) == FALSE

HasFailed(st) == WithStatus(st, "failed") # {}

-----------------------------------------------------------------------------
(* Session commands *)

\* SessionController.loadRunbook, to its await.  One load per behaviour.
LoadRunbook ==
  /\ fsm = "IDLE" /\ ~loaded /\ awaits["load"] = 0 /\ used["command"] = 0
  /\ fsm' = Fire(fsm, "LOAD_RUNBOOK")
  /\ awaits' = Inc(awaits, "load")
  /\ UNCHANGED <<loaded, rbStatus, pauseRequested, status, activeWorkerCount, healVars,
                 stallWatchdog, dispatches, lockVars, workerVars, everCompleted, used>>

\* The rest of loadRunbook: the stored statuses are taken as they are, after
\* the checks for cycles and dangling dependencies.
RunbookLoaded ==
  /\ awaits["load"] > 0
  /\ awaits' = Dec(awaits, "load")
  /\ \/ /\ Blocked = {}
        /\ \E rb \in Runbooks :
             /\ status' = rb.status
             /\ rbStatus' = rb.rbStatus
             /\ everCompleted' = everCompleted \cup WithStatus(rb.status, "completed")
        /\ loaded' = TRUE
        /\ fsm' = Fire(fsm, "PARSE_SUCCESS")
     \/ /\ fsm' = Fire(fsm, "PARSE_FAILURE")  \* rejected, or nothing is stored
        /\ UNCHANGED <<loaded, rbStatus, status, everCompleted>>
  /\ UNCHANGED <<pauseRequested, activeWorkerCount, healVars, stallWatchdog, dispatches,
                 lockVars, workerVars, used>>

Reset ==
  /\ UserCommand("reset")
  /\ Accepts(fsm, "RESET")
  /\ fsm' = Fire(fsm, "RESET")
  /\ healTimers' = None(Phases) /\ stallWatchdog' = FALSE
  /\ loaded' = FALSE /\ activeWorkerCount' = 0 /\ pauseRequested' = FALSE
  /\ attempts' = None(Phases)
  /\ UNCHANGED <<rbStatus, status, awaits, dispatches, heals, lockVars, workerVars, everCompleted>>

-----------------------------------------------------------------------------
(* Run commands *)

Start ==
  /\ UserCommand("start") /\ loaded
  /\ pauseRequested' = FALSE
  /\ \/ /\ Accepts(fsm, "START")
        /\ fsm' = Fire(fsm, "START")
        /\ rbStatus' = "running"
        /\ awaits' = Inc(awaits, "start")
     \/ /\ ~Accepts(fsm, "START")
        /\ UNCHANGED <<fsm, rbStatus, awaits>>
  /\ UNCHANGED <<loaded, status, activeWorkerCount, healVars, stallWatchdog, dispatches,
                 lockVars, workerVars, everCompleted>>

\* Mutant: the stall watchdog is not started.
StartSavedWithoutWatchdog ==
  /\ awaits["start"] > 0
  /\ awaits' = Dec(awaits, "start")
  /\ UNCHANGED status
  /\ DispatchReady
  /\ UNCHANGED <<engineVars, activeWorkerCount, healVars, stallWatchdog, lockVars, workerVars,
                 everCompleted, used>>

\* start, retry, skipPhase and resumePending all end like this once persist()
\* has resolved.
StartSaved ==
  /\ awaits["start"] > 0
  /\ awaits' = Dec(awaits, "start")
  /\ stallWatchdog' = TRUE
  /\ UNCHANGED status
  /\ DispatchReady
  /\ UNCHANGED <<engineVars, activeWorkerCount, healVars, lockVars, workerVars,
                 everCompleted, used>>

Pause ==
  /\ UserCommand("pause")
  /\ pauseRequested' = TRUE
  /\ UNCHANGED <<fsm, loaded, rbStatus, status, activeWorkerCount, healVars, stallWatchdog,
                 awaits, dispatches, lockVars, workerVars, everCompleted>>

Retry(p) ==
  /\ UserCommand("retry") /\ loaded
  /\ status[p] \in {"failed", "pending"}
  /\ Accepts(fsm, "RETRY")
  /\ fsm' = Fire(fsm, "RETRY")
  /\ status' = [status EXCEPT ![p] = "pending"]
  /\ rbStatus' = "running"
  /\ awaits' = Inc(awaits, "start")
  /\ UNCHANGED <<loaded, pauseRequested, activeWorkerCount, healVars, stallWatchdog,
                 dispatches, lockVars, workerVars, everCompleted>>

Abort ==
  /\ UserCommand("abort")
  /\ Accepts(fsm, "ABORT")
  /\ fsm' = Fire(fsm, "ABORT")
  /\ healTimers' = None(Phases) /\ stallWatchdog' = FALSE
  /\ \/ /\ loaded
        /\ status' = [p \in Phases |-> IF status[p] = "running" THEN "pending" ELSE status[p]]
        /\ rbStatus' = "idle"
        /\ awaits' = Inc(awaits, "abort")
        /\ UNCHANGED activeWorkerCount
     \/ /\ ~loaded
        /\ activeWorkerCount' = 0
        /\ UNCHANGED <<status, rbStatus, awaits>>
  /\ UNCHANGED <<loaded, pauseRequested, attempts, heals, dispatches, lockVars,
                 workerVars, everCompleted>>

AbortSaved ==
  /\ awaits["abort"] > 0
  /\ awaits' = Dec(awaits, "abort")
  /\ activeWorkerCount' = 0
  /\ UNCHANGED <<engineVars, status, healVars, stallWatchdog, dispatches, lockVars,
                 workerVars, everCompleted, used>>

\* Mutant: no worker is thought to have survived.
SurvivingWorkersNone == 0

SurvivingWorkers == Cardinality(WithStatus(status, "running"))

\* DispatchController.resumePending.
ResumePending ==
  /\ UserCommand("resume") /\ loaded
  /\ fsm \in {"ERROR_PAUSED", "EXECUTING_WORKER"}
  /\ fsm' = IF fsm = "ERROR_PAUSED" THEN Fire(fsm, "RETRY") ELSE fsm
  /\ rbStatus' = "running"
  /\ activeWorkerCount' = SurvivingWorkers
  /\ awaits' = IF ReadyPhases(status) = {} THEN awaits ELSE Inc(awaits, "start")
  /\ UNCHANGED <<loaded, pauseRequested, status, healVars, stallWatchdog, dispatches,
                 lockVars, workerVars, everCompleted>>

-----------------------------------------------------------------------------
(* Phase commands *)

RestartPhase(p) ==
  /\ UserCommand("restart") /\ loaded
  /\ status[p] # "running"
  /\ \/ fsm = "EXECUTING_WORKER" /\ UNCHANGED fsm
     \/ fsm = "ERROR_PAUSED" /\ fsm' = Fire(fsm, "RETRY")
     \/ fsm \in {"IDLE", "READY", "COMPLETED"} /\ Accepts(fsm, "START") /\ fsm' = Fire(fsm, "START")
  /\ status' = [status EXCEPT ![p] = "pending"]
  /\ attempts' = [attempts EXCEPT ![p] = 0]
  /\ rbStatus' = "running"
  /\ awaits' = Inc(awaits, "restart")
  /\ UNCHANGED <<loaded, pauseRequested, activeWorkerCount, healTimers, heals, stallWatchdog,
                 dispatches, lockVars, workerVars, everCompleted>>

RestartSaved ==
  /\ awaits["restart"] > 0
  /\ awaits' = Dec(awaits, "restart")
  /\ UNCHANGED status
  /\ DispatchReady
  /\ UNCHANGED <<engineVars, activeWorkerCount, healVars, stallWatchdog, lockVars, workerVars,
                 everCompleted, used>>

SkipPhase(p) ==
  /\ UserCommand("skip") /\ loaded
  /\ Accepts(fsm, "SKIP_PHASE")
  /\ fsm' = Fire(fsm, "SKIP_PHASE")
  /\ status' = [status EXCEPT ![p] = "completed"]
  /\ everCompleted' = everCompleted \cup {p}
  /\ awaits' = Inc(awaits, "skip")
  /\ UNCHANGED <<loaded, rbStatus, pauseRequested, activeWorkerCount, healVars, stallWatchdog,
                 dispatches, lockVars, workerVars>>

\* skipPhase after its first persist(): the run ends, or goes on like start.
SkipSaved ==
  /\ awaits["skip"] > 0
  /\ \/ /\ IsAllDone(status) /\ HasFailed(status)
        /\ rbStatus' = "paused_error"
        /\ awaits' = Dec(awaits, "skip")
        /\ UNCHANGED fsm
     \/ /\ IsAllDone(status) /\ ~HasFailed(status)
        /\ rbStatus' = "completed"
        /\ fsm' = IF Accepts(fsm, "START")
                  THEN FireBoth(Fire(fsm, "START"), "WORKER_EXITED", "ALL_PHASES_PASS")
                  ELSE fsm
        /\ awaits' = Dec(awaits, "skip")
     \/ /\ ~IsAllDone(status) /\ Accepts(fsm, "START")
        /\ fsm' = Fire(fsm, "START")
        /\ rbStatus' = "running"
        /\ awaits' = Inc(Dec(awaits, "skip"), "start")
     \/ /\ ~IsAllDone(status) /\ ~Accepts(fsm, "START")
        /\ awaits' = Dec(awaits, "skip")
        /\ UNCHANGED <<fsm, rbStatus>>
  /\ UNCHANGED <<loaded, pauseRequested, status, activeWorkerCount, healVars, stallWatchdog,
                 dispatches, lockVars, workerVars, everCompleted, used>>

-----------------------------------------------------------------------------
(* Dispatch and launch *)

\* One iteration of the loop of dispatchReadyPhases, after the awaits of its
\* context pack: the phase is marked and counted whatever has happened to it
\* since the ready set was computed.
DispatchPhase(S) ==
  /\ dispatches[S] > 0
  /\ \E p \in FirstOf(S, 1) :
       /\ status' = [status EXCEPT ![p] = "running"]
       /\ activeWorkerCount' = activeWorkerCount + 1
       /\ dispatches' = IF S = {p} THEN Dec(dispatches, S) ELSE Inc(Dec(dispatches, S), S \ {p})
       /\ ExecutePhase(p)
  /\ UNCHANGED <<loaded, rbStatus, pauseRequested, healVars, stallWatchdog, awaits, lockVars,
                 workers, reports, everCompleted, used>>

\* spawnWorker checks its own limit before the awaits of createSession and
\* joins the map after them, so workers launched side by side all pass; at the
\* limit it may return null, and nobody is told.  A worker the phase already
\* has is replaced.  (AdkController has the steps in between.)
SpawnWorker(p) ==
  /\ launches[p] > 0
  /\ launches' = Dec(launches, p)
  /\ \/ workers' = workers \cup {p}
     \/ Cardinality(workers) >= AdkMax /\ UNCHANGED workers
  /\ UNCHANGED <<engineVars, status, activeWorkerCount, healVars, stallWatchdog, awaits,
                 dispatches, lockVars, reports, everCompleted, used>>

\* Context assembly or createSession fails.
LaunchFails(p) ==
  /\ launches[p] > 0
  /\ "crash" \in Failures /\ used["failure"] < MaxFailures
  /\ used' = Inc(used, "failure")
  /\ launches' = Dec(launches, p)
  /\ reports' = Inc(reports, <<p, "crash">>)
  /\ UNCHANGED <<engineVars, status, activeWorkerCount, healVars, stallWatchdog, awaits,
                 dispatches, lockVars, workers, everCompleted>>

\* A worker exits, with output that will pass or fail its criteria, or is
\* timed out.
WorkerReports(p, v) ==
  /\ p \in workers /\ v # "crash"
  /\ v = "pass" \/ (v \in Failures /\ used["failure"] < MaxFailures)
  /\ SlowDispatch \/ \A S \in Work : p \in S => dispatches[S] = 0
  /\ used' = IF v = "pass" THEN used ELSE Inc(used, "failure")
  /\ workers' = workers \ {p}
  /\ reports' = Inc(reports, <<p, v>>)
  /\ UNCHANGED <<engineVars, status, activeWorkerCount, healVars, stallWatchdog, awaits,
                 dispatches, lockVars, launches, everCompleted>>

-----------------------------------------------------------------------------
(* Worker callbacks, serialized by workerExitLock *)

LockFree == exit.pc = "idle"

\* Mutant: Math.max(0, ...) is dropped.
RetireBelowZero == activeWorkerCount - 1

Retire == IF activeWorkerCount = 0 THEN 0 ELSE activeWorkerCount - 1

\* onWorkerExited and onWorkerFailed drop a report whose phase is not running.
\* Once a callback has thrown, the promise chain is rejected for good and
\* every later report is dropped.
ReportDropped(p, v) ==
  /\ reports[p, v] > 0 /\ LockFree
  /\ lockBroken \/ ~loaded \/ status[p] # "running"
  /\ reports' = Dec(reports, <<p, v>>)
  /\ UNCHANGED <<engineVars, status, activeWorkerCount, healVars, stallWatchdog, awaits,
                 dispatches, lockVars, launches, workers, everCompleted, used>>

ReportAccepted(p, v) ==
  /\ reports[p, v] > 0 /\ LockFree
  /\ ~lockBroken /\ loaded /\ status[p] = "running"
  /\ reports' = Dec(reports, <<p, v>>)
  /\ activeWorkerCount' = Retire

\* Mutant: off by one.
HoldingOneLeft(pc, p, v) == [pc |-> pc, phase |-> p, verdict |-> v, last |-> activeWorkerCount' <= 1]

Holding(pc, p, v) == [pc |-> pc, phase |-> p, verdict |-> v, last |-> activeWorkerCount' = 0]

\* onWorkerExited up to the await on the evaluators.
WorkerExited(p, v) ==
  /\ v \in {"pass", "fail"}
  /\ ReportAccepted(p, v)
  /\ exit' = Holding("evaluate", p, v)
  /\ UNCHANGED <<engineVars, status, healVars, stallWatchdog, awaits, dispatches, lockBroken,
                 launches, workers, everCompleted, used>>

\* onWorkerFailed up to the persist() of handleWorkerFailed.
WorkerFailed(p, v) ==
  /\ v \in {"timeout", "crash"}
  /\ ReportAccepted(p, v)
  /\ attempts' = Inc(attempts, p)
  /\ LET last  == activeWorkerCount' = 0
         event == IF v = "timeout" THEN "WORKER_TIMEOUT" ELSE "WORKER_CRASH"
     IN /\ fsm' = IF last THEN Fire(fsm, event) ELSE fsm
        /\ stallWatchdog' = (stallWatchdog /\ ~last)
        /\ \/ /\ CanRetry(p)
              /\ status' = [status EXCEPT ![p] = "pending"]
              /\ exit' = Holding("heal", p, v)
              /\ UNCHANGED rbStatus
           \/ /\ ~CanRetry(p)
              /\ status' = [status EXCEPT ![p] = "failed"]
              /\ rbStatus' = IF last THEN "paused_error" ELSE rbStatus
              /\ exit' = Holding(IF last THEN "done" ELSE "dispatch", p, v)
  /\ UNCHANGED <<loaded, pauseRequested, healTimers, heals, awaits, dispatches, lockBroken,
                 launches, workers, everCompleted, used>>

\* The evaluators answer while the phase's verdict is still wanted:
\* isLastWorker is what it was when the report was accepted.
Evaluated(v) ==
  /\ exit.pc = "evaluate" /\ exit.verdict = v
  /\ loaded

Complete(p) ==
  /\ status' = [status EXCEPT ![p] = "completed"]
  /\ attempts' = [attempts EXCEPT ![p] = 0]
  /\ everCompleted' = everCompleted \cup {p}

\* applyVerdict of the last worker, passed.
PassLast ==
  /\ Evaluated("pass") /\ exit.last
  /\ Complete(exit.phase)
  /\ \/ /\ IsAllDone(status') /\ HasFailed(status')
        /\ rbStatus' = "paused_error"
        /\ fsm' = FireBoth(fsm, "WORKER_EXITED", "PHASE_FAIL")
        /\ exit' = [exit EXCEPT !.pc = "done"]
     \/ /\ IsAllDone(status') /\ ~HasFailed(status')
        /\ rbStatus' = "completed"
        /\ fsm' = FireBoth(fsm, "WORKER_EXITED", "ALL_PHASES_PASS")
        /\ exit' = [exit EXCEPT !.pc = "done"]
     \/ /\ ~IsAllDone(status')
        /\ fsm' = FireBoth(fsm, "WORKER_EXITED", "PHASE_PASS")
        /\ exit' = [exit EXCEPT !.pc = "advance"]
        /\ UNCHANGED rbStatus
  /\ UNCHANGED <<loaded, pauseRequested, activeWorkerCount, healTimers, heals, stallWatchdog,
                 awaits, dispatches, lockBroken, workerVars, used>>

\* applyVerdictInPlace while other workers are counted as active, passed.
PassInPlace ==
  /\ Evaluated("pass") /\ ~exit.last
  /\ Complete(exit.phase)
  /\ exit' = [exit EXCEPT !.pc = "dispatch"]
  /\ UNCHANGED <<engineVars, activeWorkerCount, healTimers, heals, stallWatchdog, awaits,
                 dispatches, lockBroken, workerVars, used>>

\* applyVerdict of the last worker, failed: handleFailure is not awaited, so
\* the lock is released while its persist() is still pending.
FailLast ==
  /\ Evaluated("fail") /\ exit.last
  /\ LET p == exit.phase IN
     /\ attempts' = Inc(attempts, p)
     /\ fsm' = FireBoth(fsm, "WORKER_EXITED", "PHASE_FAIL")
     /\ \/ /\ CanRetry(p)
           /\ status' = [status EXCEPT ![p] = "pending"]
           /\ heals' = Inc(heals, p)
           /\ UNCHANGED rbStatus
        \/ /\ ~CanRetry(p)
           /\ status' = [status EXCEPT ![p] = "failed"]
           /\ rbStatus' = "paused_error"
           /\ UNCHANGED heals
  /\ exit' = NoExit
  /\ UNCHANGED <<loaded, pauseRequested, activeWorkerCount, healTimers, stallWatchdog, awaits,
                 dispatches, lockBroken, workerVars, everCompleted, used>>

\* applyVerdictInPlace, failed.
FailInPlace ==
  /\ Evaluated("fail") /\ ~exit.last
  /\ LET p == exit.phase IN
     /\ attempts' = Inc(attempts, p)
     /\ \/ /\ CanRetry(p)
           /\ status' = [status EXCEPT ![p] = "pending"]
           /\ exit' = [exit EXCEPT !.pc = "heal"]
        \/ /\ ~CanRetry(p)
           /\ status' = [status EXCEPT ![p] = "failed"]
           /\ exit' = [exit EXCEPT !.pc = "done"]
  /\ UNCHANGED <<engineVars, activeWorkerCount, healTimers, heals, stallWatchdog, awaits,
                 dispatches, lockBroken, workerVars, everCompleted, used>>

\* The runbook was reset under the evaluation: WORKER_EXITED is still fired
\* for the last worker, and nothing else happens.
VerdictLost ==
  /\ exit.pc = "evaluate" /\ ~loaded
  /\ fsm' = IF exit.last THEN Fire(fsm, "WORKER_EXITED") ELSE fsm
  /\ exit' = NoExit
  /\ UNCHANGED <<loaded, rbStatus, pauseRequested, status, activeWorkerCount, healVars,
                 stallWatchdog, awaits, dispatches, lockBroken, workerVars, everCompleted, used>>

\* advanceSchedule, and the other things a callback does after its persist().
Advance ==
  /\ exit.pc = "advance"
  /\ UNCHANGED status
  /\ \/ /\ loaded /\ pauseRequested
        /\ pauseRequested' = FALSE
        /\ rbStatus' = "idle"
        /\ UNCHANGED dispatches
     \/ /\ ~(loaded /\ pauseRequested)
        /\ DispatchReady
        /\ UNCHANGED <<pauseRequested, rbStatus>>
  /\ exit' = NoExit
  /\ UNCHANGED <<fsm, loaded, activeWorkerCount, healVars, stallWatchdog, awaits, lockBroken,
                 workerVars, everCompleted, used>>

DispatchInPlace ==
  /\ exit.pc = "dispatch"
  /\ UNCHANGED status
  /\ DispatchReady
  /\ exit' = NoExit
  /\ UNCHANGED <<engineVars, activeWorkerCount, healVars, stallWatchdog, awaits, lockBroken,
                 workerVars, everCompleted, used>>

ArmHealTimer ==
  /\ exit.pc = "heal"
  /\ healTimers' = Inc(healTimers, exit.phase)
  /\ exit' = NoExit
  /\ UNCHANGED <<engineVars, status, activeWorkerCount, attempts, heals, stallWatchdog, awaits,
                 dispatches, lockBroken, workerVars, everCompleted, used>>

ReleaseLock ==
  /\ exit.pc = "done"
  /\ exit' = NoExit
  /\ UNCHANGED <<engineVars, status, activeWorkerCount, healVars, stallWatchdog, awaits,
                 dispatches, lockBroken, workerVars, everCompleted, used>>

-----------------------------------------------------------------------------
(* Healing, the stall watchdog, failing saves *)

\* handleFailure after its persist().
FailureSaved(p) ==
  /\ heals[p] > 0
  /\ heals' = Dec(heals, p)
  /\ healTimers' = Inc(healTimers, p)
  /\ UNCHANGED <<engineVars, status, activeWorkerCount, attempts, stallWatchdog, awaits,
                 dispatches, lockVars, workerVars, everCompleted, used>>

\* The timer emits phase:heal, whose listener calls executePhase and nothing
\* else: the phase is neither marked running nor counted.
HealTimerFires(p) ==
  /\ healTimers[p] > 0
  /\ healTimers' = Dec(healTimers, p)
  /\ ExecutePhase(p)
  /\ UNCHANGED <<loaded, rbStatus, pauseRequested, status, activeWorkerCount, attempts, heals,
                 stallWatchdog, awaits, dispatches, lockVars, workers, reports,
                 everCompleted, used>>

\* The 30-second interval finds an executing engine without a running phase.
Stalled ==
  stallWatchdog /\ loaded /\ fsm = "EXECUTING_WORKER" /\ WithStatus(status, "running") = {}

StallRedispatch ==
  /\ Stalled
  /\ LET ready == ReadyPhases(status) IN
     /\ ready # {}
     /\ dispatches[ready] < MaxInFlight
     /\ dispatches' = Inc(dispatches, ready)
  /\ activeWorkerCount' = 0
  /\ UNCHANGED <<engineVars, status, healVars, stallWatchdog, awaits, lockVars, workerVars,
                 everCompleted, used>>

StallEnds ==
  /\ Stalled
  /\ ReadyPhases(status) = {}
  /\ activeWorkerCount' = 0
  /\ stallWatchdog' = FALSE
  /\ \/ /\ IsAllDone(status) /\ ~HasFailed(status)
        /\ fsm' = FireBoth(fsm, "WORKER_EXITED", "ALL_PHASES_PASS")
        /\ rbStatus' = "completed"
     \/ /\ ~IsAllDone(status) \/ HasFailed(status)
        /\ fsm' = FireBoth(fsm, "WORKER_EXITED", "PHASE_FAIL")
        /\ rbStatus' = "paused_error"
  /\ UNCHANGED <<loaded, pauseRequested, status, healVars, awaits, dispatches, lockVars,
                 workerVars, everCompleted, used>>

SaveError == used["saveError"] < MaxSaveErrors /\ used' = Inc(used, "saveError")

\* persist() rejects under a command: the rest of the command is not run.
CommandSaveFails(c) ==
  /\ SaveError /\ c # "load" /\ awaits[c] > 0
  /\ awaits' = Dec(awaits, c)
  /\ UNCHANGED <<engineVars, status, activeWorkerCount, healVars, stallWatchdog, dispatches,
                 lockVars, workerVars, everCompleted>>

\* persist() rejects under a worker callback: the chain of workerExitLock is
\* rejected, and nothing ever replaces it.
CallbackSaveFails ==
  /\ SaveError /\ exit.pc \in {"advance", "dispatch", "heal", "done"}
  /\ exit' = NoExit
  /\ lockBroken' = TRUE
  /\ UNCHANGED <<engineVars, status, activeWorkerCount, healVars, stallWatchdog, awaits,
                 dispatches, workerVars, everCompleted>>

\* persist() rejects under handleFailure, which nobody awaits.
FailureSaveFails(p) ==
  /\ SaveError /\ heals[p] > 0
  /\ heals' = Dec(heals, p)
  /\ UNCHANGED <<engineVars, status, activeWorkerCount, attempts, healTimers, stallWatchdog,
                 awaits, dispatches, lockVars, workerVars, everCompleted>>

-----------------------------------------------------------------------------
UserStep ==
  \/ Start \/ Pause \/ Abort \/ Reset \/ ResumePending
  \/ \E p \in Phases : Retry(p) \/ RestartPhase(p) \/ SkipPhase(p)

Callback ==
  \/ PassLast \/ PassInPlace \/ FailLast \/ FailInPlace \/ VerdictLost
  \/ Advance \/ DispatchInPlace \/ ArmHealTimer \/ ReleaseLock

EnvironmentFails ==
  \/ \E p \in Phases : LaunchFails(p) \/ FailureSaveFails(p)
  \/ \E c \in Awaiting : CommandSaveFails(c)
  \/ CallbackSaveFails

SystemStep ==
  \/ LoadRunbook \/ RunbookLoaded
  \/ StartSaved \/ AbortSaved \/ RestartSaved \/ SkipSaved
  \/ \E S \in Work : DispatchPhase(S)
  \/ \E p \in Phases : SpawnWorker(p) \/ FailureSaved(p) \/ HealTimerFires(p)
  \/ \E p \in Phases, v \in Verdicts :
       WorkerReports(p, v) \/ ReportDropped(p, v) \/ WorkerExited(p, v) \/ WorkerFailed(p, v)
  \/ Callback
  \/ StallRedispatch \/ StallEnds

Next == UserStep \/ SystemStep \/ EnvironmentFails

Spec == Init /\ [][Next]_vars

\* The event loop does not stand still while a promise is resolved, a timer
\* is due or a worker is alive (a silent worker is timed out).
FairSpec == Spec /\ WF_vars(SystemStep)

-----------------------------------------------------------------------------
(* Properties *)

\* No phase is started before each phase it depends on has been completed at
\* least once: its upstream handoffs exist, whatever was restarted, skipped,
\* retried or dispatched twice in the meantime.  (Loading the runbook of an
\* interrupted run starts nothing.)
StartsAfterDeps ==
  [][\A p \in Phases :
       status[p] # "running" /\ status'[p] = "running" /\ awaits'["load"] >= awaits["load"]
         => Deps[p] \subseteq everCompleted]_vars

\* activeWorkerCount never falls below the phases really running (the one
\* under evaluation has already been subtracted): a worker is never taken for
\* the last one while another phase is running at that moment.
UnderEvaluation == IF exit.pc = "evaluate" THEN {exit.phase} ELSE {}

CountCoversRunning ==
  Cardinality(WithStatus(status, "running") \ UnderEvaluation) <= activeWorkerCount

\* onWorkerExited calls a worker the last one only when it runs alone.
LastWorkerIsAlone ==
  [][exit.pc = "idle" /\ exit'.pc # "idle" /\ exit'.last
       => WithStatus(status, "running") \subseteq {exit'.phase}]_vars

\* A run whose phases were all started and judged is over: COMPLETED is
\* reported to the user only while every phase is completed.
CompletedMeansAllCompleted ==
  fsm = "COMPLETED" => \A p \in Phases : status[p] = "completed"

\* The engine does not stay in EXECUTING_WORKER for ever: workers exit, and
\* the stall watchdog picks up what the callbacks leave behind.
RunEnds == fsm = "EXECUTING_WORKER" ~> fsm # "EXECUTING_WORKER"

\* After an abort nothing but a command of the user makes the engine leave
\* IDLE: no late verdict, timer, dispatch or watchdog tick revives the run.
AbortIsFinal ==
  [][fsm = "IDLE" /\ fsm' # "IDLE"
       => used'["command"] > used["command"] \/ awaits'["load"] > awaits["load"]]_vars

Stage ==
  CASE fsm \in {"IDLE", "PARSING", "READY"} -> "idle"
    [] fsm \in {"EXECUTING_WORKER", "EVALUATING"} -> "running"
    [] fsm = "COMPLETED" -> "succeeded"
    [] OTHER -> "failed"

Run == INSTANCE DagRun WITH stage <- Stage

\* The engine's run of a runbook is a run in the sense of DagRun.
ImplementsDagRun == Run!Spec

-----------------------------------------------------------------------------
(* Claims of the documentation, and what the code does about them *)

\* README: "Failed phases retry automatically": a phase whose healing timer
\* has been armed gets a verdict, or runs.
HealingTakesEffect ==
  \A p \in Phases : healTimers[p] > 0 ~> status[p] \in {"running", "completed", "failed"}
=============================================================================
