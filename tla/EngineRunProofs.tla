---------------------------- MODULE EngineRunProofs --------------------------
(***************************************************************************)
(* What holds of a run as long as the user and the timing leave it alone.  *)
(*                                                                         *)
(* Without an abort or a reset, activeWorkerCount never falls below the    *)
(* phases that are running, and so a worker taken for the last one runs    *)
(* alone (Uninterrupted).                                                  *)
(*                                                                         *)
(* When each phase is attempted once, a phase that passes is started by    *)
(* nobody any more: COMPLETED means that all phases are completed          *)
(* (EachPhaseOnce), and the run is one of DagRun (FreshRun).               *)
(***************************************************************************)
EXTENDS EngineProofs

-----------------------------------------------------------------------------
(* The count of workers                                                      *)

\* Nobody aborts or resets (both set the counter to zero under workers that are
\* still alive), and no stored runbook has a running phase (which nobody counted).
Uninterrupted ==
  /\ Commands \cap {"abort", "reset"} = {}
  /\ \A rb \in Runbooks : WithStatus(rb.status, "running") = {}

\* The phases that a worker is counted for.
Occupied == WithStatus(status, "running") \ UnderEvaluation

\* The count, with what keeps resets and late aborts out of it.
CountInv ==
  /\ CountCoversRunning
  /\ exit.pc = "evaluate" => loaded
  /\ awaits["abort"] = 0

\* There are finitely many phases.
LEMMA OccupiedFinite == IsFiniteSet(Occupied) /\ Cardinality(Occupied) \in Nat
<1>1. IsFiniteSet(Phases)
  BY NAssumption, FS_Interval DEF Phases
<1>2. Occupied \in SUBSET Phases
  BY DEF Occupied, WithStatus
<1> QED
  BY <1>1, <1>2, FS_Subset, FS_CardinalityType

\* The same of the running phases under other statuses.
LEMMA RunningFinite ==
  ASSUME NEW st
  PROVE  IsFiniteSet(WithStatus(st, "running")) /\ Cardinality(WithStatus(st, "running")) \in Nat
<1>1. IsFiniteSet(Phases)
  BY NAssumption, FS_Interval DEF Phases
<1>2. WithStatus(st, "running") \in SUBSET Phases
  BY DEF WithStatus
<1> QED
  BY <1>1, <1>2, FS_Subset, FS_CardinalityType

\* Fewer occupied phases are covered by the same count.
LEMMA CoverShrinks ==
  ASSUME TypeOK, CountCoversRunning, Occupied' \subseteq Occupied, UNCHANGED activeWorkerCount
  PROVE  CountCoversRunning'
<1>1. Cardinality(Occupied') <= Cardinality(Occupied) /\ Cardinality(Occupied') \in Nat
  BY OccupiedFinite, FS_Subset, FS_CardinalityType
<1> QED
  BY <1>1, OccupiedFinite DEF TypeOK, CountCoversRunning, Occupied

\* dispatchReadyPhases counts every phase it marks.
LEMMA CoverDispatch ==
  ASSUME TypeOK, CountCoversRunning, NEW S \in Work, DispatchPhase(S)
  PROVE  CountCoversRunning'
<1>1. PICK p \in FirstOf(S, 1) :
        status' = [status EXCEPT ![p] = "running"] /\ activeWorkerCount' = activeWorkerCount + 1
  BY DEF DispatchPhase
<1>2. UNCHANGED exit
  BY DEF DispatchPhase, lockVars
<1>3. Occupied' \subseteq Occupied \cup {p}
  BY <1>1, <1>2 DEF TypeOK, Occupied, WithStatus, UnderEvaluation
<1>4. /\ IsFiniteSet(Occupied \cup {p})
      /\ Cardinality(Occupied \cup {p}) <= Cardinality(Occupied) + 1
  BY OccupiedFinite, FS_AddElement
<1>5. /\ Cardinality(Occupied') <= Cardinality(Occupied \cup {p})
      /\ Cardinality(Occupied') \in Nat
      /\ Cardinality(Occupied \cup {p}) \in Nat
  BY <1>3, <1>4, FS_Subset, FS_CardinalityType
<1> QED
  BY <1>1, <1>4, <1>5, OccupiedFinite DEF TypeOK, CountCoversRunning, Occupied

\* A callback takes a worker off the count only together with its phase.
LEMMA CoverAccepted ==
  ASSUME TypeOK, CountCoversRunning,
         NEW p \in Phases, NEW v \in Verdicts, ReportAccepted(p, v), Occupied' \subseteq Occupied \ {p}
  PROVE  CountCoversRunning'
<1>1. p \in Occupied
  BY DEF TypeOK, ReportAccepted, LockFree, Occupied, WithStatus, UnderEvaluation
<1>2. Cardinality(Occupied \ {p}) = Cardinality(Occupied) - 1 /\ IsFiniteSet(Occupied \ {p})
  BY <1>1, OccupiedFinite, FS_RemoveElement
<1>3. Cardinality(Occupied') <= Cardinality(Occupied) - 1 /\ Cardinality(Occupied') \in Nat
  BY <1>2, FS_Subset, FS_CardinalityType
<1>4. Cardinality(Occupied) <= activeWorkerCount
  BY DEF CountCoversRunning, Occupied
<1>5. activeWorkerCount \in Nat /\ activeWorkerCount # 0
  BY <1>3, <1>4, OccupiedFinite DEF TypeOK
<1>6. activeWorkerCount' = activeWorkerCount - 1
  BY <1>5 DEF ReportAccepted, Retire
<1> QED
  BY <1>3, <1>4, <1>5, <1>6, OccupiedFinite DEF CountCoversRunning, Occupied

\* Where the count is set, nothing is running, or it is set to what is.
LEMMA CoverSet ==
  ASSUME TypeOK, TypeOK',
         \/ WithStatus(status', "running") = {}
         \/ activeWorkerCount' = Cardinality(WithStatus(status', "running"))
  PROVE  CountCoversRunning'
<1>1. Occupied' \subseteq WithStatus(status', "running")
  BY DEF Occupied, WithStatus
<1>2. Cardinality(Occupied') <= Cardinality(WithStatus(status', "running"))
  BY <1>1, RunningFinite, FS_Subset
<1>3. CASE WithStatus(status', "running") = {}
  BY <1>2, <1>3, FS_EmptySet, OccupiedFinite, RunningFinite DEF TypeOK, CountCoversRunning, Occupied, WithStatus
<1>4. CASE activeWorkerCount' = Cardinality(WithStatus(status', "running"))
  BY <1>2, <1>4 DEF CountCoversRunning, Occupied, WithStatus
<1> QED
  BY <1>3, <1>4

\* Each action keeps the count above the running phases.
LEMMA CountStep ==
  ASSUME Uninterrupted, TypeOK, TypeOK', CountInv, [Next]_vars
  PROVE  CountInv'
<1> USE DEF CountInv, engineVars, healVars, lockVars, workerVars
<1>1. (exit.pc = "evaluate" => loaded)'
  <2>1. UNCHANGED vars => (exit.pc = "evaluate" => loaded)'
    BY DEF vars
  <2>2. ASSUME NEW p \in Phases, NEW v \in Verdicts, WorkerExited(p, v)
        PROVE  (exit.pc = "evaluate" => loaded)'
    BY <2>2 DEF WorkerExited, ReportAccepted
  <2>3. ASSUME NEW p \in Phases, NEW v \in Verdicts, WorkerFailed(p, v)
        PROVE  exit'.pc # "evaluate"
    BY <2>3 DEF WorkerFailed, Holding
  <2>4. ~Reset
    BY DEF Reset, UserCommand, Uninterrupted
  <2>5. UserStep => (exit.pc = "evaluate" => loaded)'
    BY <2>4 DEF UserStep, Start, Pause, Abort, ResumePending, Retry, RestartPhase, SkipPhase
  <2>6. Callback => (exit.pc = "evaluate" => loaded)'
    BY DEF TypeOK, Callback, PassLast, PassInPlace, FailLast, FailInPlace, VerdictLost, Advance,
           DispatchInPlace, ArmHealTimer, ReleaseLock, NoExit, Evaluated
  <2>7. UNCHANGED <<exit, loaded>> => (exit.pc = "evaluate" => loaded)'
    OBVIOUS
  <2>8. RunbookLoaded => (exit.pc = "evaluate" => loaded)'
    <3>1. RunbookLoaded => UNCHANGED exit /\ (loaded' = TRUE \/ loaded' = loaded)
      BY DEF RunbookLoaded
    <3> QED
      BY <3>1
  <2>9. CallbackSaveFails => (exit.pc = "evaluate" => loaded)'
    BY DEF CallbackSaveFails, NoExit
  <2>10. SystemStep => (exit.pc = "evaluate" => loaded)'
    BY <2>2, <2>3, <2>6, <2>7, <2>8
       DEF SystemStep, LoadRunbook, StartSaved, AbortSaved, RestartSaved, SkipSaved,
           DispatchPhase, SpawnWorker, FailureSaved, HealTimerFires, WorkerReports, ReportDropped,
           StallRedispatch, StallEnds
  <2>11. EnvironmentFails => (exit.pc = "evaluate" => loaded)'
    BY <2>7, <2>9 DEF EnvironmentFails, LaunchFails, FailureSaveFails, CommandSaveFails
  <2> QED
    BY <2>1, <2>5, <2>10, <2>11 DEF Next
<1>2. awaits'["abort"] = 0
  <2>1. ~Abort
    BY DEF Abort, UserCommand, Uninterrupted
  <2>2. UserStep => awaits'["abort"] = 0
    BY <2>1 DEF TypeOK, Awaiting, Inc, UserStep, Start, Pause, Reset, ResumePending, Retry, RestartPhase, SkipPhase
  <2>3. Callback => awaits'["abort"] = 0
    BY DEF Callback, PassLast, PassInPlace, FailLast, FailInPlace, VerdictLost, Advance,
           DispatchInPlace, ArmHealTimer, ReleaseLock
  <2>4. ASSUME NEW c \in Awaiting \ {"abort"},
               awaits' \in {Inc(awaits, c), Dec(awaits, c), Inc(Dec(awaits, c), "start"), awaits}
        PROVE  awaits'["abort"] = 0
    BY <2>4, AwaitingElements DEF TypeOK, Inc, Dec
  <2>5. LoadRunbook \/ RunbookLoaded => awaits'["abort"] = 0
    BY <2>4, AwaitingElements DEF LoadRunbook, RunbookLoaded
  <2>6. StartSaved \/ RestartSaved \/ SkipSaved => awaits'["abort"] = 0
    BY <2>4, AwaitingElements DEF StartSaved, RestartSaved, SkipSaved
  <2>7. ~AbortSaved
    BY DEF AbortSaved
  <2>8. ASSUME NEW c \in Awaiting, CommandSaveFails(c) PROVE awaits'["abort"] = 0
    BY <2>4, <2>8 DEF CommandSaveFails
  <2>9. UNCHANGED awaits => awaits'["abort"] = 0
    OBVIOUS
  <2>10. SystemStep => awaits'["abort"] = 0
    BY <2>3, <2>5, <2>6, <2>7, <2>9
       DEF SystemStep, DispatchPhase, SpawnWorker, FailureSaved, HealTimerFires,
           WorkerReports, ReportDropped, WorkerExited, WorkerFailed, StallRedispatch, StallEnds
  <2>11. EnvironmentFails => awaits'["abort"] = 0
    BY <2>8, <2>9 DEF EnvironmentFails, LaunchFails, FailureSaveFails, CallbackSaveFails
  <2> QED
    BY <2>2, <2>10, <2>11 DEF Next, vars
<1>3. CountCoversRunning'
  <2>1. CASE UNCHANGED <<status, exit, activeWorkerCount>>
    BY <2>1, CoverShrinks DEF Occupied, WithStatus, UnderEvaluation
  <2>2. ASSUME NEW p \in Phases, Retry(p) PROVE CountCoversRunning'
    BY <2>2, CoverShrinks DEF TypeOK, Retry, Occupied, WithStatus, UnderEvaluation
  <2>3. ASSUME NEW p \in Phases, RestartPhase(p) PROVE CountCoversRunning'
    BY <2>3, CoverShrinks DEF TypeOK, RestartPhase, Occupied, WithStatus, UnderEvaluation
  <2>4. ASSUME NEW p \in Phases, SkipPhase(p) PROVE CountCoversRunning'
    BY <2>4, CoverShrinks DEF TypeOK, SkipPhase, Occupied, WithStatus, UnderEvaluation
  <2>5. CASE ResumePending
    BY <2>5, CoverSet DEF ResumePending, SurvivingWorkers
  <2>6. CASE RunbookLoaded
    <3>1. CASE UNCHANGED status
      BY <2>1, <2>6, <3>1 DEF RunbookLoaded
    <3>2. CASE WithStatus(status', "running") = {}
      BY <3>2, CoverSet
    <3> QED
      BY <2>6, <3>1, <3>2 DEF RunbookLoaded, Uninterrupted
  <2>7. ASSUME NEW S \in Work, DispatchPhase(S) PROVE CountCoversRunning'
    BY <2>7, CoverDispatch
  <2>8. ASSUME NEW p \in Phases, NEW v \in Verdicts, WorkerExited(p, v) PROVE CountCoversRunning'
    <3>1. ReportAccepted(p, v) /\ UnderEvaluation' = {p} /\ UnderEvaluation = {} /\ UNCHANGED status
      BY <2>8 DEF WorkerExited, Holding, UnderEvaluation, ReportAccepted, LockFree
    <3>2. Occupied' \subseteq Occupied \ {p}
      BY <3>1 DEF Occupied, WithStatus
    <3> QED
      BY <3>1, <3>2, CoverAccepted
  <2>9. ASSUME NEW p \in Phases, NEW v \in Verdicts, WorkerFailed(p, v) PROVE CountCoversRunning'
    <3>1. ReportAccepted(p, v) /\ UnderEvaluation = {} /\ p \notin WithStatus(status', "running")
      BY <2>9 DEF TypeOK, WorkerFailed, UnderEvaluation, ReportAccepted, LockFree, WithStatus
    <3>2. \A q \in Phases : q # p => status'[q] = status[q]
      BY <2>9 DEF TypeOK, WorkerFailed
    <3>3. Occupied' \subseteq Occupied \ {p}
      BY <3>1, <3>2 DEF Occupied, WithStatus
    <3> QED
      BY <3>1, <3>3, CoverAccepted
  <2>10. CASE PassLast \/ PassInPlace \/ FailLast \/ FailInPlace
    <3>1. UnderEvaluation = {exit.phase} /\ UNCHANGED activeWorkerCount
      BY <2>10 DEF PassLast, PassInPlace, FailLast, FailInPlace, Evaluated, UnderEvaluation
    <3>2. status'[exit.phase] # "running" /\ \A q \in Phases : q # exit.phase => status'[q] = status[q]
      BY <2>10 DEF TypeOK, PassLast, PassInPlace, FailLast, FailInPlace, Complete
    <3>3. Occupied' \subseteq Occupied
      BY <3>1, <3>2 DEF Occupied, WithStatus
    <3> QED
      BY <3>1, <3>3, CoverShrinks
  <2>11. ~VerdictLost
    BY DEF VerdictLost
  <2>12. CASE Advance \/ DispatchInPlace \/ ArmHealTimer \/ ReleaseLock \/ CallbackSaveFails
    <3>1. UnderEvaluation = {} /\ UNCHANGED <<status, activeWorkerCount>>
      BY <2>12 DEF Advance, DispatchInPlace, ArmHealTimer, ReleaseLock, CallbackSaveFails, UnderEvaluation
    <3> QED
      BY <3>1, CoverShrinks DEF Occupied, WithStatus
  <2>13. CASE StallRedispatch \/ StallEnds
    BY <2>13, CoverSet DEF StallRedispatch, StallEnds, Stalled, WithStatus
  <2>14. ~AbortSaved /\ ~Abort /\ ~Reset
    BY DEF AbortSaved, Abort, Reset, UserCommand, Uninterrupted
  <2>15. UserStep => CountCoversRunning'
    BY <2>1, <2>2, <2>3, <2>4, <2>5, <2>14 DEF UserStep, Start, Pause
  <2>16. SystemStep => CountCoversRunning'
    BY <2>1, <2>6, <2>7, <2>8, <2>9, <2>10, <2>11, <2>12, <2>13, <2>14
       DEF SystemStep, Callback, LoadRunbook, StartSaved, RestartSaved, SkipSaved, SpawnWorker,
           FailureSaved, HealTimerFires, WorkerReports, ReportDropped
  <2>17. EnvironmentFails => CountCoversRunning'
    BY <2>1, <2>12 DEF EnvironmentFails, LaunchFails, FailureSaveFails, CommandSaveFails
  <2> QED
    BY <2>1, <2>15, <2>16, <2>17 DEF Next, vars
<1> QED
  BY <1>1, <1>2, <1>3

LEMMA CountInit == Init => CountInv
<1> SUFFICES ASSUME Init PROVE CountInv
  OBVIOUS
<1>1. WithStatus(status, "running") \ UnderEvaluation = {}
  BY DEF Init, WithStatus
<1> QED
  BY <1>1, FS_EmptySet DEF Init, CountInv, CountCoversRunning, NoExit, None, Awaiting

LEMMA CountInvHolds ==
  ASSUME Uninterrupted
  PROVE  Spec => []CountInv
<1>1. TypeOK /\ TypeOK' /\ CountInv /\ [Next]_vars => CountInv'
  BY CountStep
<1> QED
  BY <1>1, CountInit, TypeCorrect, PTL DEF Spec

\* Engine.activeWorkerCount covers the running phases in every state, for every
\* graph, limit and interleaving of dispatches, callbacks, healing timers and
\* watchdog ticks.
THEOREM CountCoversRunningHolds ==
  ASSUME Uninterrupted
  PROVE  Spec => []CountCoversRunning
BY CountInvHolds, PTL DEF CountInv

\* onWorkerExited and onWorkerFailed take a worker for the last one only when
\* its phase is the only one running.
THEOREM LastWorkerIsAloneHolds ==
  ASSUME Uninterrupted
  PROVE  Spec => LastWorkerIsAlone
<1> DEFINE
      Accepted == exit.pc = "idle" /\ exit'.pc # "idle" /\ exit'.last
      Alone == WithStatus(status, "running") \subseteq {exit'.phase}
<1>1. ASSUME TypeOK, CountInv, [Next]_vars, Accepted
      PROVE  Alone
  <2> USE DEF engineVars, healVars, lockVars, workerVars
  <2>1. PICK p \in Phases, v \in Verdicts : WorkerExited(p, v) \/ WorkerFailed(p, v)
    BY <1>1
       DEF Next, vars, UserStep, SystemStep, EnvironmentFails, Callback, Start, Pause, Abort, Reset,
           ResumePending, Retry, RestartPhase, SkipPhase, LoadRunbook, RunbookLoaded, StartSaved,
           AbortSaved, RestartSaved, SkipSaved, DispatchPhase, SpawnWorker, FailureSaved,
           HealTimerFires, WorkerReports, ReportDropped, StallRedispatch, StallEnds, PassLast,
           PassInPlace, FailLast, FailInPlace, VerdictLost, Advance, DispatchInPlace, ArmHealTimer,
           ReleaseLock, LaunchFails, FailureSaveFails, CommandSaveFails, CallbackSaveFails, Evaluated
  <2>2. ReportAccepted(p, v) /\ exit'.phase = p /\ activeWorkerCount' = 0
    <3>1. ReportAccepted(p, v)
      BY <2>1 DEF WorkerExited, WorkerFailed
    <3>2. PICK pc : exit' = Holding(pc, p, v)
      BY <2>1 DEF WorkerExited, WorkerFailed
    <3>3. Holding(pc, p, v).phase = p
      BY DEF Holding
    <3>4. Holding(pc, p, v).last = (activeWorkerCount' = 0)
      BY Zenon DEF Holding
    <3> QED
      BY <1>1, <3>1, <3>2, <3>3, <3>4
  <2>3. Cardinality(WithStatus(status, "running")) <= 1
    <3>1. Cardinality(WithStatus(status, "running")) <= activeWorkerCount
      <4>1. WithStatus(status, "running") \ UnderEvaluation = WithStatus(status, "running")
        BY <1>1 DEF UnderEvaluation
      <4> QED
        BY <1>1, <4>1 DEF CountInv, CountCoversRunning
    <3>2. activeWorkerCount <= 1 /\ activeWorkerCount \in Nat
      <4>1. activeWorkerCount \in Nat
        BY <1>1 DEF TypeOK
      <4>2. Retire = 0
        BY <2>2 DEF ReportAccepted
      <4> QED
        BY <4>1, <4>2 DEF Retire
    <3> QED
      BY <3>1, <3>2, RunningFinite
  <2>4. p \in WithStatus(status, "running")
    BY <2>2 DEF ReportAccepted, WithStatus
  <2>5. Cardinality(WithStatus(status, "running")) = 1
    BY <2>3, <2>4, RunningFinite, FS_EmptySet
  <2>6. PICK x : WithStatus(status, "running") = {x}
    BY <2>5, RunningFinite, FS_Singleton
  <2> QED
    BY <2>2, <2>4, <2>6
<1>2. TypeOK /\ CountInv /\ [Next]_vars => [Accepted => Alone]_vars
  BY <1>1
<1> QED
  BY <1>2, CountInvHolds, TypeCorrect, PTL DEF Spec, LastWorkerIsAlone

-----------------------------------------------------------------------------
(* CompletedMeansAllCompleted.  A phase is under threat from the moment its  *)
(* worker succeeds: a dispatch that still holds it would start it again.     *)
(* Passed says from when on, and the invariant that no dispatch has such a   *)
(* phase nor can take it, as dispatches take pending phases only.  It needs  *)
(* that no phase becomes pending again, by a retry or by healing.            *)

\* The user starts, pauses and resumes; nothing is healed; and no worker is
\* done before a dispatch that still has its phase to start.
EachPhaseOnce ==
  /\ Commands \subseteq {"start", "pause", "resume"}
  /\ MaxRetries <= 1
  /\ ~SlowDispatch

\* No failure is being healed.
NoHeals ==
  /\ \A p \in Phases : heals[p] = 0 /\ healTimers[p] = 0
  /\ exit.pc # "heal"

\* Before a runbook is loaded there is nothing to do.
NothingBegun ==
  /\ fsm \in {"IDLE", "PARSING"}
  /\ \A S \in Work : dispatches[S] = 0
  /\ \A p \in Phases : launches[p] = 0
  /\ \A p \in Phases, v \in Verdicts : reports[p, v] = 0
  /\ workers = {}
  /\ exit.pc = "idle"

\* The runbook is loaded once.
LoadsOnce ==
  /\ ~loaded => NothingBegun
  /\ awaits["load"] <= 1
  /\ loaded => awaits["load"] = 0

\* The phase is completed, or what will complete it is on its way.
Passed(p) ==
  \/ status[p] = "completed"
  \/ reports[p, "pass"] > 0
  \/ exit.pc = "evaluate" /\ exit.phase = p /\ exit.verdict = "pass"

\* No dispatch has it, and none takes it.
PassedIsOver ==
  \A p \in Phases : Passed(p) =>
    /\ status[p] # "pending"
    /\ \A S \in Work : p \in S => dispatches[S] = 0

\* A phase with a worker, or with one on its way, has been marked.
LaunchedIsMarked == \A p \in Phases : p \in workers \/ launches[p] > 0 => status[p] # "pending"

\* The phase under evaluation is running.
JudgedIsRunning == exit.pc = "evaluate" => status[exit.phase] = "running"

\* No phase that has passed is started again.
PassedInv == PassedIsOver /\ LaunchedIsMarked /\ JudgedIsRunning

-----------------------------------------------------------------------------

\* The commands that are left.
LEMMA FewCommands ==
  ASSUME EachPhaseOnce, UserStep
  PROVE  Start \/ Pause \/ ResumePending
BY DEF EachPhaseOnce, UserStep, Abort, Reset, Retry, RestartPhase, SkipPhase, UserCommand

\* canRetryWithPhase says no after the first attempt.
LEMMA NoRetry ==
  ASSUME EachPhaseOnce, TypeOK, NEW p \in Phases
  PROVE  ~CanRetry(p)
BY MaxRetriesAssumption DEF EachPhaseOnce, TypeOK, CanRetry

\* Without retries nothing is healed.
LEMMA NoHealsStep ==
  ASSUME EachPhaseOnce, TypeOK, NoHeals, [Next]_vars
  PROVE  NoHeals'
<1> USE DEF engineVars, healVars, lockVars, workerVars
<1>1. UNCHANGED <<heals, healTimers, exit>> => NoHeals'
  BY DEF NoHeals
<1>2. UserStep => NoHeals'
  BY <1>1, FewCommands DEF Start, Pause, ResumePending
<1>3. ASSUME NEW p \in Phases PROVE ~FailureSaved(p) /\ ~HealTimerFires(p) /\ ~FailureSaveFails(p)
  BY DEF NoHeals, FailureSaved, HealTimerFires, FailureSaveFails
<1>4. ~ArmHealTimer
  BY DEF NoHeals, ArmHealTimer
<1>5. ASSUME NEW p \in Phases, NEW v \in Verdicts, WorkerExited(p, v) PROVE NoHeals'
  BY <1>5 DEF NoHeals, WorkerExited, Holding
<1>6. ASSUME NEW p \in Phases, NEW v \in Verdicts, WorkerFailed(p, v) PROVE NoHeals'
  BY <1>6, NoRetry DEF NoHeals, WorkerFailed, Holding
<1>7. CASE PassLast \/ PassInPlace
  BY <1>7 DEF TypeOK, NoHeals, PassLast, PassInPlace
<1>8. CASE FailLast \/ FailInPlace
  <2>1. exit.phase \in Phases
    BY DEF TypeOK
  <2>2. ~CanRetry(exit.phase)
    BY <2>1, NoRetry
  <2> QED
    BY <1>8, <2>2 DEF TypeOK, NoHeals, FailLast, FailInPlace, NoExit
<1>9. CASE VerdictLost \/ Advance \/ DispatchInPlace \/ ReleaseLock
  BY <1>9 DEF NoHeals, VerdictLost, Advance, DispatchInPlace, ReleaseLock, NoExit
<1>10. SystemStep => NoHeals'
  BY <1>1, <1>3, <1>4, <1>5, <1>6, <1>7, <1>8, <1>9
     DEF SystemStep, Callback, LoadRunbook, RunbookLoaded, StartSaved, AbortSaved, RestartSaved, SkipSaved,
         DispatchPhase, SpawnWorker, WorkerReports, ReportDropped, StallRedispatch, StallEnds
<1>11. CallbackSaveFails => NoHeals'
  BY DEF NoHeals, CallbackSaveFails, NoExit
<1>12. EnvironmentFails => NoHeals'
  BY <1>1, <1>3, <1>11 DEF EnvironmentFails, LaunchFails, CommandSaveFails
<1> QED
  BY <1>1, <1>2, <1>10, <1>12 DEF Next, vars

\* A counter at zero is not above it.
LEMMA ZeroIsNone ==
  ASSUME NEW n, n = 0
  PROVE  ~(n > 0)
OBVIOUS

\* Where nothing has begun, it takes one of these variables to begin something.
LEMMA StillNothing ==
  ASSUME NothingBegun, UNCHANGED <<dispatches, launches, reports, workers, exit>>, fsm' \in {"IDLE", "PARSING"}
  PROVE  NothingBegun'
BY DEF NothingBegun

\* Before a runbook is loaded no step but the load changes what the run consists of.
LEMMA BeforeLoad ==
  ASSUME EachPhaseOnce, TypeOK, NothingBegun, ~loaded, [Next]_vars, ~LoadRunbook, ~RunbookLoaded, NoSkipSaved, NoHeals
  PROVE  UNCHANGED <<loaded, fsm, dispatches, launches, reports, workers, exit, awaits["load"]>>
<1> DEFINE Same == UNCHANGED <<loaded, fsm, dispatches, launches, reports, workers, exit, awaits["load"]>>
<1> USE DEF engineVars, healVars, lockVars, workerVars
<1>1. ASSUME NEW c \in Awaiting \ {"load"} PROVE Inc(awaits, c)["load"] = awaits["load"] /\ Dec(awaits, c)["load"] = awaits["load"]
  BY DEF TypeOK, Inc, Dec, Awaiting
<1>2. UserStep => Same
  BY FewCommands DEF Start, Pause, ResumePending
<1>3. StartSaved \/ AbortSaved \/ RestartSaved => Same
  BY <1>1, AwaitingElements DEF StartSaved, AbortSaved, RestartSaved, DispatchReady
<1>4. ~SkipSaved
  BY DEF SkipSaved, NoSkipSaved
<1>5. ASSUME NEW p \in Phases PROVE ~FailureSaved(p) /\ ~HealTimerFires(p) /\ ~FailureSaveFails(p)
  BY DEF NoHeals, FailureSaved, HealTimerFires, FailureSaveFails
<1>6. ASSUME NEW p \in Phases PROVE ~SpawnWorker(p) /\ ~LaunchFails(p)
  <2>1. launches[p] = 0
    BY DEF NothingBegun
  <2> QED
    BY <2>1 DEF SpawnWorker, LaunchFails
<1>7. ASSUME NEW S \in Work PROVE ~DispatchPhase(S)
  <2>1. dispatches[S] = 0
    BY DEF NothingBegun
  <2> QED
    BY <2>1 DEF DispatchPhase
<1>8. ASSUME NEW p \in Phases, NEW v \in Verdicts
      PROVE  ~WorkerReports(p, v) /\ ~ReportDropped(p, v) /\ ~WorkerExited(p, v) /\ ~WorkerFailed(p, v)
  <2>1. reports[p, v] = 0 /\ p \notin workers
    BY DEF NothingBegun
  <2>2. ~(reports[p, v] > 0) /\ p \notin workers
    BY <2>1, ZeroIsNone
  <2>3. ~WorkerReports(p, v)
    BY <2>2 DEF WorkerReports
  <2>4. ~ReportDropped(p, v)
    BY <2>2, Zenon DEF ReportDropped
  <2>5. ~ReportAccepted(p, v)
    BY <2>2, Zenon DEF ReportAccepted
  <2> QED
    BY <2>3, <2>4, <2>5, Zenon DEF WorkerExited, WorkerFailed
<1>9. ~Callback /\ ~CallbackSaveFails
  BY DEF NothingBegun, Callback, PassLast, PassInPlace, FailLast, FailInPlace, VerdictLost, Advance,
         DispatchInPlace, ArmHealTimer, ReleaseLock, Evaluated, CallbackSaveFails
<1>10. ~StallRedispatch /\ ~StallEnds
  BY DEF StallRedispatch, StallEnds, Stalled
<1>11. SystemStep => Same
  BY <1>3, <1>4, <1>5, <1>6, <1>7, <1>8, <1>9, <1>10 DEF SystemStep
<1>12. ASSUME NEW c \in Awaiting, CommandSaveFails(c) PROVE Same
  BY <1>1, <1>12 DEF CommandSaveFails
<1>13. EnvironmentFails => Same
  BY <1>5, <1>6, <1>9, <1>12 DEF EnvironmentFails
<1> QED
  BY <1>2, <1>11, <1>13 DEF Next, vars

\* A runbook is loaded once, into an engine at rest.
LEMMA LoadsOnceStep ==
  ASSUME EachPhaseOnce, TypeOK, LoadsOnce, NoSkipSaved, NoHeals, [Next]_vars
  PROVE  LoadsOnce'
<1> USE DEF engineVars, healVars, lockVars, workerVars
<1>1. CASE LoadRunbook
  <2>1. fsm' = "PARSING"
    BY <1>1 DEF LoadRunbook, Fire, Accepts, Transitions
  <2>2. awaits'["load"] = 1
    BY <1>1 DEF TypeOK, LoadRunbook, Inc, Awaiting
  <2>3. ~loaded /\ NothingBegun
    BY <1>1 DEF LoadsOnce, LoadRunbook
  <2>4. NothingBegun'
    BY <1>1, <2>1, <2>3, StillNothing DEF LoadRunbook
  <2> QED
    BY <1>1, <2>2, <2>3, <2>4 DEF LoadsOnce, LoadRunbook
<1>2. CASE RunbookLoaded
  <2>1. ~loaded /\ awaits'["load"] = 0
    BY <1>2 DEF TypeOK, LoadsOnce, RunbookLoaded, Dec, Awaiting
  <2>2. CASE loaded' = TRUE
    BY <2>1, <2>2 DEF LoadsOnce
  <2>3. NothingBegun
    BY <2>1 DEF LoadsOnce
  <2>4. CASE fsm' = Fire(fsm, "PARSE_FAILURE") /\ UNCHANGED loaded
    <3>1. fsm' = "IDLE"
      <4>1. fsm \in {"IDLE", "PARSING"}
        BY <2>3 DEF NothingBegun
      <4> QED
        BY <2>4, <4>1 DEF Fire, Accepts, Transitions
    <3>2. NothingBegun'
      BY <1>2, <2>3, <3>1, StillNothing DEF RunbookLoaded
    <3> QED
      BY <2>1, <2>4, <3>2 DEF LoadsOnce
  <2> QED
    BY <1>2, <2>2, <2>4 DEF RunbookLoaded
<1>3. CASE ~LoadRunbook /\ ~RunbookLoaded /\ ~loaded
  <2>1. NothingBegun
    BY <1>3 DEF LoadsOnce
  <2>2. UNCHANGED <<loaded, fsm, dispatches, launches, reports, workers, exit, awaits["load"]>>
    BY <1>3, <2>1, BeforeLoad
  <2>3. fsm' \in {"IDLE", "PARSING"}
    BY <2>1, <2>2 DEF NothingBegun
  <2>4. NothingBegun'
    BY <2>1, <2>2, <2>3, StillNothing
  <2> QED
    BY <1>3, <2>2, <2>4 DEF LoadsOnce
<1>4. CASE ~LoadRunbook /\ ~RunbookLoaded /\ loaded
  <2>1. UNCHANGED <<loaded, awaits["load"]>>
    <3>1. ASSUME NEW c \in Awaiting \ {"load"}
          PROVE  Inc(awaits, c)["load"] = awaits["load"] /\ Dec(awaits, c)["load"] = awaits["load"]
      BY DEF TypeOK, Inc, Dec, Awaiting
    <3>2. UserStep => UNCHANGED <<loaded, awaits["load"]>>
      <4>1. Start \/ Pause => UNCHANGED <<loaded, awaits["load"]>>
        BY <3>1, AwaitingElements DEF Start, Pause
      <4>2. ResumePending => UNCHANGED <<loaded, awaits["load"]>>
        BY <3>1, AwaitingElements DEF ResumePending
      <4> QED
        BY <4>1, <4>2, FewCommands
    <3>3. StartSaved \/ AbortSaved \/ RestartSaved => UNCHANGED <<loaded, awaits["load"]>>
      BY <3>1, AwaitingElements DEF StartSaved, AbortSaved, RestartSaved
    <3>4. ~SkipSaved
      BY DEF SkipSaved, NoSkipSaved
    <3>5. ASSUME NEW c \in Awaiting, CommandSaveFails(c) PROVE UNCHANGED <<loaded, awaits["load"]>>
      BY <3>1, <3>5 DEF CommandSaveFails
    <3>6. UNCHANGED <<loaded, awaits>> => UNCHANGED <<loaded, awaits["load"]>>
      OBVIOUS
    <3>7. Callback => UNCHANGED <<loaded, awaits["load"]>>
      BY DEF Callback, PassLast, PassInPlace, FailLast, FailInPlace, VerdictLost, Advance,
             DispatchInPlace, ArmHealTimer, ReleaseLock
    <3>8. SystemStep => UNCHANGED <<loaded, awaits["load"]>>
      BY <1>4, <3>3, <3>4, <3>6, <3>7
         DEF SystemStep, DispatchPhase, SpawnWorker, FailureSaved, HealTimerFires,
             WorkerReports, ReportDropped, WorkerExited, WorkerFailed, StallRedispatch, StallEnds
    <3>9. EnvironmentFails => UNCHANGED <<loaded, awaits["load"]>>
      BY <3>5, <3>6 DEF EnvironmentFails, LaunchFails, FailureSaveFails, CallbackSaveFails
    <3> QED
      BY <3>2, <3>8, <3>9 DEF Next, vars
  <2> QED
    BY <1>4, <2>1 DEF LoadsOnce
<1> QED
  BY <1>1, <1>2, <1>3, <1>4

-----------------------------------------------------------------------------

\* A step that leaves all of it alone, but for what it takes away.
LEMMA PassedKept ==
  ASSUME TypeOK, PassedInv, UNCHANGED <<status, dispatches, launches, workers, reports>>,
         exit' = exit \/ exit'.pc # "evaluate"
  PROVE  PassedInv'
<1>1. \A p \in Phases : Passed(p)' => Passed(p)
  BY DEF Passed
<1> QED
  BY <1>1 DEF PassedInv, PassedIsOver, LaunchedIsMarked, JudgedIsRunning

\* A dispatch takes pending phases, none of which has passed.
LEMMA PassedDispatch ==
  ASSUME TypeOK, PassedInv, DispatchReady, UNCHANGED <<status, launches, workers, reports>>,
         exit' = exit \/ exit'.pc # "evaluate"
  PROVE  PassedInv'
<1>1. \A p \in Phases : Passed(p)' => Passed(p)
  BY DEF Passed
<1>2. ASSUME NEW p \in Phases, Passed(p), NEW S \in Work, p \in S
      PROVE  dispatches'[S] = 0
  <2>1. status[p] # "pending" /\ dispatches[S] = 0
    BY <1>2 DEF PassedInv, PassedIsOver
  <2>2. S # ReadyPhases(status')
    BY <1>2, <2>1, ReadyPhasesReady
  <2> QED
    BY <2>1, <2>2 DEF TypeOK, DispatchReady, Inc
<1>3. PassedIsOver'
  BY <1>1, <1>2 DEF PassedInv, PassedIsOver
<1> QED
  BY <1>3 DEF PassedInv, LaunchedIsMarked, JudgedIsRunning

\* What a dispatch marks has not passed.
LEMMA PassedMark ==
  ASSUME TypeOK, PassedInv, NEW S \in Work, DispatchPhase(S), NoHeals
  PROVE  PassedInv'
<1>1. PICK p \in FirstOf(S, 1) :
        /\ status' = [status EXCEPT ![p] = "running"]
        /\ dispatches' = IF S = {p} THEN Dec(dispatches, S) ELSE Inc(Dec(dispatches, S), S \ {p})
        /\ ExecutePhase(p)
  BY DEF DispatchPhase
<1>2. p \in S /\ p \in Phases
  BY FirstOfOne
<1>3. UNCHANGED <<workers, reports, exit>> /\ dispatches[S] > 0
  BY DEF DispatchPhase, lockVars
<1>4. \A q \in Phases : q # p => status'[q] = status[q]
  BY <1>1 DEF TypeOK
<1>5. status'[p] = "running"
  BY <1>1, <1>2 DEF TypeOK
<1>6. \A q \in S : ~Passed(q)
  BY <1>3 DEF PassedInv, PassedIsOver, Work
<1>7. \A q \in Phases : Passed(q)' => Passed(q) /\ q \notin S
  <2> SUFFICES ASSUME NEW q \in Phases, Passed(q)' PROVE Passed(q)
    BY <1>6
  <2> QED
    BY <1>3, <1>4, <1>5 DEF Passed
<1>8. ASSUME NEW q \in Phases, Passed(q)', NEW T \in Work, q \in T PROVE dispatches'[T] = 0
  <2>1. q \notin S /\ dispatches[T] = 0
    BY <1>7, <1>8 DEF PassedInv, PassedIsOver
  <2>2. T # S /\ T # S \ {p}
    BY <1>8, <2>1
  <2> QED
    BY <1>1, <2>1, <2>2 DEF TypeOK, Inc, Dec
<1>9. PassedIsOver'
  <2>1. \A q \in Phases : Passed(q)' => status'[q] # "pending"
    BY <1>4, <1>5, <1>7 DEF PassedInv, PassedIsOver
  <2> QED
    BY <1>8, <2>1 DEF PassedIsOver
<1>10. LaunchedIsMarked'
  <2>1. \A q \in Phases : q # p => (launches'[q] > 0 => launches[q] > 0)
    BY <1>1 DEF TypeOK, ExecutePhase, Inc
  <2> QED
    BY <1>3, <1>4, <1>5, <2>1 DEF PassedInv, LaunchedIsMarked
<1>11. JudgedIsRunning'
  BY <1>3, <1>4, <1>5 DEF TypeOK, PassedInv, JudgedIsRunning
<1> QED
  BY <1>9, <1>10, <1>11 DEF PassedInv

\* A verdict: its phase leaves "running", for "completed" only if it has passed.
LEMMA PassedVerdict ==
  ASSUME TypeOK, PassedInv, NEW p \in Phases, NEW s \in {"completed", "failed"},
         status' = [status EXCEPT ![p] = s], UNCHANGED <<dispatches, launches, workers>>,
         \A q \in Phases : reports'[q, "pass"] > 0 => reports[q, "pass"] > 0,
         s = "completed" => Passed(p), exit'.pc # "evaluate"
  PROVE  PassedInv'
<1>1. \A q \in Phases : Passed(q)' => Passed(q)
  BY DEF TypeOK, Passed
<1>2. \A q \in Phases : status[q] # "pending" => status'[q] # "pending"
  BY DEF TypeOK
<1> QED
  BY <1>1, <1>2 DEF PassedInv, PassedIsOver, LaunchedIsMarked, JudgedIsRunning

\* Each action keeps what has passed out of every dispatch.
LEMMA PassedStep ==
  ASSUME EachPhaseOnce, TypeOK, LoadsOnce, NoSkipSaved, NoHeals, PassedInv, [Next]_vars
  PROVE  PassedInv'
<1> DEFINE Quiet == UNCHANGED <<status, dispatches, launches, workers, reports, exit>>
<1> USE DEF engineVars, healVars, lockVars, workerVars
<1>1. Quiet => PassedInv'
  BY PassedKept
<1>2. UserStep => PassedInv'
  BY <1>1, FewCommands DEF Start, Pause, ResumePending
<1>3. CASE RunbookLoaded
  <2>1. ~loaded
    BY <1>3 DEF TypeOK, LoadsOnce, RunbookLoaded, Awaiting
  <2>2. NothingBegun
    BY <2>1 DEF LoadsOnce
  <2>3. UNCHANGED <<dispatches, launches, reports, workers, exit>>
    BY <1>3 DEF RunbookLoaded
  <2>4. /\ \A S \in Work : dispatches'[S] = 0
        /\ \A p \in Phases : launches'[p] = 0 /\ reports'[p, "pass"] = 0 /\ p \notin workers'
        /\ exit'.pc = "idle"
    BY <2>2, <2>3 DEF NothingBegun, Verdicts
  <2>5. \A p \in Phases : Passed(p)' => status'[p] = "completed"
    <3>1. \A p \in Phases : ~(reports'[p, "pass"] > 0)
      BY <2>4, ZeroIsNone
    <3> QED
      BY <2>4, <3>1 DEF Passed
  <2>6. \A p \in Phases : ~(launches'[p] > 0)
    BY <2>4, ZeroIsNone
  <2>7. PassedIsOver'
    BY <2>4, <2>5 DEF PassedIsOver
  <2> QED
    BY <2>4, <2>6, <2>7 DEF PassedInv, LaunchedIsMarked, JudgedIsRunning
<1>4. StartSaved \/ RestartSaved => PassedInv'
  BY PassedDispatch DEF StartSaved, RestartSaved
<1>5. CASE Advance
  <2>1. exit'.pc # "evaluate" /\ UNCHANGED <<status, launches, workers, reports>>
    BY <1>5 DEF Advance, NoExit
  <2>2. DispatchReady \/ UNCHANGED dispatches
    BY <1>5 DEF Advance
  <2> QED
    BY <2>1, <2>2, PassedKept, PassedDispatch
<1>6. CASE DispatchInPlace
  BY <1>6, PassedDispatch DEF DispatchInPlace, NoExit
<1>7. CASE StallRedispatch
  BY <1>7, PassedDispatch DEF StallRedispatch, Stalled, DispatchReady
<1>8. ~SkipSaved
  BY DEF SkipSaved, NoSkipSaved
<1>9. ASSUME NEW p \in Phases PROVE ~FailureSaved(p) /\ ~HealTimerFires(p) /\ ~FailureSaveFails(p)
  BY DEF NoHeals, FailureSaved, HealTimerFires, FailureSaveFails
<1>10. ~ArmHealTimer
  BY DEF NoHeals, ArmHealTimer
<1>11. ASSUME NEW p \in Phases, SpawnWorker(p) PROVE PassedInv'
  <2>1. \A q \in Phases : Passed(q)' => Passed(q)
    BY <1>11 DEF Passed, SpawnWorker
  <2>2. \A q \in Phases : q \in workers' \/ launches'[q] > 0 => q \in workers \/ launches[q] > 0
    BY <1>11 DEF TypeOK, SpawnWorker, Dec
  <2>3. UNCHANGED <<status, dispatches, exit>>
    BY <1>11 DEF SpawnWorker
  <2> QED
    BY <2>1, <2>2, <2>3 DEF PassedInv, PassedIsOver, LaunchedIsMarked, JudgedIsRunning
<1>12. ASSUME NEW p \in Phases, LaunchFails(p) PROVE PassedInv'
  <2>1. \A q \in Phases : reports'[q, "pass"] = reports[q, "pass"]
    BY <1>12 DEF TypeOK, LaunchFails, Inc, Verdicts
  <2>2. \A q \in Phases : Passed(q)' => Passed(q)
    BY <1>12, <2>1 DEF Passed, LaunchFails
  <2>3. \A q \in Phases : q \in workers' \/ launches'[q] > 0 => q \in workers \/ launches[q] > 0
    BY <1>12 DEF TypeOK, LaunchFails, Dec
  <2>4. UNCHANGED <<status, dispatches, exit>>
    BY <1>12 DEF LaunchFails
  <2> QED
    BY <2>2, <2>3, <2>4 DEF PassedInv, PassedIsOver, LaunchedIsMarked, JudgedIsRunning
<1>13. ASSUME NEW p \in Phases, NEW v \in Verdicts, WorkerReports(p, v) PROVE PassedInv'
  <2>1. UNCHANGED <<status, dispatches, launches, exit>> /\ workers' \subseteq workers
    BY <1>13 DEF WorkerReports
  <2>2. \A q \in Phases : q # p => reports'[q, "pass"] = reports[q, "pass"]
    BY <1>13 DEF TypeOK, WorkerReports, Inc, Verdicts
  <2>3. \A q \in Phases : Passed(q)' => Passed(q) \/ q = p
    BY <2>1, <2>2 DEF Passed
  <2>4. status[p] # "pending" /\ \A S \in Work : p \in S => dispatches[S] = 0
    BY <1>13 DEF EachPhaseOnce, WorkerReports, PassedInv, LaunchedIsMarked
  <2> QED
    BY <2>1, <2>3, <2>4 DEF PassedInv, PassedIsOver, LaunchedIsMarked, JudgedIsRunning
<1>14. ASSUME NEW p \in Phases, NEW v \in Verdicts,
              reports[p, v] > 0, reports' = Dec(reports, <<p, v>>)
       PROVE  \A q \in Phases : reports'[q, "pass"] > 0 => reports[q, "pass"] > 0
  BY <1>14 DEF TypeOK, Dec, Verdicts
<1>15. ASSUME NEW p \in Phases, NEW v \in Verdicts, ReportDropped(p, v) PROVE PassedInv'
  <2>1. \A q \in Phases : Passed(q)' => Passed(q)
    BY <1>14, <1>15 DEF Passed, ReportDropped
  <2> QED
    BY <1>15, <2>1 DEF PassedInv, PassedIsOver, LaunchedIsMarked, JudgedIsRunning, ReportDropped
<1>16. ASSUME NEW p \in Phases, NEW v \in Verdicts, WorkerExited(p, v) PROVE PassedInv'
  <2>1. exit'.pc = "evaluate" /\ exit'.phase = p /\ exit'.verdict = v
    BY <1>16 DEF WorkerExited, Holding
  <2>2. UNCHANGED <<status, dispatches, launches, workers>> /\ status[p] = "running" /\ reports[p, v] > 0
    BY <1>16 DEF WorkerExited, ReportAccepted
  <2>3. \A q \in Phases : reports'[q, "pass"] > 0 => reports[q, "pass"] > 0
    BY <1>14, <1>16 DEF WorkerExited, ReportAccepted
  <2>4. \A q \in Phases : Passed(q)' => Passed(q)
    BY <2>1, <2>2, <2>3 DEF Passed
  <2> QED
    BY <2>1, <2>2, <2>4 DEF PassedInv, PassedIsOver, LaunchedIsMarked, JudgedIsRunning
<1>17. ASSUME NEW p \in Phases, NEW v \in Verdicts, WorkerFailed(p, v) PROVE PassedInv'
  <2>1. status' = [status EXCEPT ![p] = "failed"] /\ UNCHANGED <<dispatches, launches, workers>>
    BY <1>17, NoRetry DEF WorkerFailed
  <2>2. \A q \in Phases : reports'[q, "pass"] > 0 => reports[q, "pass"] > 0
    BY <1>14, <1>17 DEF WorkerFailed, ReportAccepted
  <2>3. exit'.pc # "evaluate"
    BY <1>17 DEF WorkerFailed, Holding
  <2> QED
    BY <2>1, <2>2, <2>3, PassedVerdict
<1>18. CASE PassLast \/ PassInPlace
  <2>1. /\ status' = [status EXCEPT ![exit.phase] = "completed"]
        /\ UNCHANGED <<dispatches, launches, workers, reports>>
    BY <1>18 DEF PassLast, PassInPlace, Complete
  <2>2. Passed(exit.phase) /\ exit.phase \in Phases
    BY <1>18 DEF TypeOK, PassLast, PassInPlace, Evaluated, Passed
  <2>3. exit'.pc # "evaluate"
    BY <1>18 DEF TypeOK, PassLast, PassInPlace
  <2> QED
    BY <2>1, <2>2, <2>3, PassedVerdict
<1>19. CASE FailLast \/ FailInPlace
  <2>1. exit.phase \in Phases
    BY DEF TypeOK
  <2>2. ~CanRetry(exit.phase)
    BY <2>1, NoRetry
  <2>3. /\ status' = [status EXCEPT ![exit.phase] = "failed"]
        /\ UNCHANGED <<dispatches, launches, workers, reports>>
    BY <1>19, <2>2 DEF FailLast, FailInPlace
  <2>4. exit'.pc # "evaluate"
    BY <1>19 DEF TypeOK, FailLast, FailInPlace, NoExit
  <2> QED
    BY <2>1, <2>3, <2>4, PassedVerdict
<1>20. VerdictLost \/ ReleaseLock \/ CallbackSaveFails => PassedInv'
  BY PassedKept DEF VerdictLost, ReleaseLock, CallbackSaveFails, NoExit
<1>21. SystemStep => PassedInv'
  BY <1>1, <1>3, <1>4, <1>5, <1>6, <1>7, <1>8, <1>9, <1>10, <1>11, <1>13, <1>15, <1>16, <1>17, <1>18,
     <1>19, <1>20, PassedMark
     DEF SystemStep, Callback, LoadRunbook, AbortSaved, StallEnds
<1>22. EnvironmentFails => PassedInv'
  BY <1>1, <1>9, <1>12, <1>20 DEF EnvironmentFails, CommandSaveFails
<1> QED
  BY <1>1, <1>2, <1>21, <1>22 DEF Next, vars

\* COMPLETED lists none of the events of a run.
LEMMA CompletedStays ==
  ASSUME NEW e, e # "RESET"
  PROVE  Fire("COMPLETED", e) = "COMPLETED"
BY DEF Fire, Accepts, Transitions

\* Only ALL_PHASES_PASS leads there.
LEMMA CompletedReached ==
  ASSUME NEW s \in EngineStates, NEW e, Fire(s, e) = "COMPLETED", s # "COMPLETED"
  PROVE  e = "ALL_PHASES_PASS"
<1>1. CASE s = "IDLE"
  BY <1>1 DEF Fire, Accepts, Transitions
<1>2. CASE s = "PLANNING"
  BY <1>2 DEF Fire, Accepts, Transitions
<1>3. CASE s = "PLAN_REVIEW"
  BY <1>3 DEF Fire, Accepts, Transitions
<1>4. CASE s = "PARSING"
  BY <1>4 DEF Fire, Accepts, Transitions
<1>5. CASE s = "READY"
  BY <1>5 DEF Fire, Accepts, Transitions
<1>6. CASE s = "EXECUTING_WORKER"
  BY <1>6 DEF Fire, Accepts, Transitions
<1>7. CASE s = "EVALUATING"
  BY <1>7 DEF Fire, Accepts, Transitions
<1>8. CASE s = "ERROR_PAUSED"
  BY <1>8 DEF Fire, Accepts, Transitions
<1> QED
  BY <1>1, <1>2, <1>3, <1>4, <1>5, <1>6, <1>7, <1>8 DEF EngineStates

\* Nor do two events lead to COMPLETED without it.
LEMMA CompletedReachedBoth ==
  ASSUME NEW s \in EngineStates, NEW e1, NEW e2, FireBoth(s, e1, e2) = "COMPLETED", s # "COMPLETED",
         e1 # "ALL_PHASES_PASS", e2 # "ALL_PHASES_PASS"
  PROVE  FALSE
<1>1. Fire(s, e1) \in EngineStates /\ Fire(s, e1) # "COMPLETED"
  BY FireType, CompletedReached
<1> QED
  BY <1>1, CompletedReached DEF FireBoth

\* A runbook with no phase pending, running or failed is completed.
LEMMA AllDoneCompleted ==
  ASSUME NEW st \in [Phases -> PhaseStatus], IsAllDone(st), ~HasFailed(st)
  PROVE  \A p \in Phases : st[p] = "completed"
BY DEF IsAllDone, HasFailed, WithStatus, PhaseStatus

\* COMPLETED is entered when all is completed, and then no phase changes.
LEMMA CompletedStep ==
  ASSUME EachPhaseOnce, TypeOK, TypeOK', LoadsOnce, NoSkipSaved, NoHeals, PassedInv,
         CompletedMeansAllCompleted, [Next]_vars
  PROVE  CompletedMeansAllCompleted'
<1> USE DEF engineVars, healVars, lockVars, workerVars
<1>1. ASSUME UNCHANGED status, fsm' = "COMPLETED" => fsm = "COMPLETED"
      PROVE  CompletedMeansAllCompleted'
  BY <1>1 DEF CompletedMeansAllCompleted
<1>2. ASSUME NEW e, e # "ALL_PHASES_PASS", fsm' \in {Fire(fsm, e), fsm}
      PROVE  fsm' = "COMPLETED" => fsm = "COMPLETED"
  BY <1>2, CompletedReached DEF TypeOK
<1>3. UserStep => CompletedMeansAllCompleted'
  BY <1>1, <1>2, FewCommands DEF Start, Pause, ResumePending
<1>4. CASE LoadRunbook
  BY <1>1, <1>2, <1>4 DEF LoadRunbook
<1>5. CASE RunbookLoaded
  <2>1. ~loaded
    BY <1>5 DEF TypeOK, LoadsOnce, RunbookLoaded, Awaiting
  <2>2. fsm # "COMPLETED"
    BY <2>1 DEF LoadsOnce, NothingBegun
  <2>3. fsm' # "COMPLETED"
    BY <1>2, <1>5, <2>2 DEF RunbookLoaded
  <2> QED
    BY <2>3 DEF CompletedMeansAllCompleted
<1>6. ASSUME NEW S \in Work, DispatchPhase(S) PROVE CompletedMeansAllCompleted'
  <2>1. PICK p \in FirstOf(S, 1) : ExecutePhase(p)
    BY <1>6 DEF DispatchPhase
  <2>2. p \in S /\ p \in Phases
    BY FirstOfOne
  <2>3. status[p] # "completed"
    <3>1. ~(dispatches[S] = 0)
      BY <1>6, ZeroIsNone DEF DispatchPhase
    <3> QED
      BY <2>2, <3>1 DEF PassedInv, PassedIsOver, Passed
  <2>4. fsm # "COMPLETED"
    BY <2>2, <2>3 DEF CompletedMeansAllCompleted
  <2>5. fsm' # "COMPLETED"
    BY <1>2, <2>1, <2>4 DEF ExecutePhase
  <2> QED
    BY <2>5 DEF CompletedMeansAllCompleted
<1>7. ~SkipSaved
  BY DEF SkipSaved, NoSkipSaved
<1>8. ASSUME NEW p \in Phases PROVE ~HealTimerFires(p)
  BY DEF NoHeals, HealTimerFires
<1>9. ASSUME NEW p \in Phases, NEW v \in Verdicts, WorkerFailed(p, v) PROVE CompletedMeansAllCompleted'
  <2>1. fsm # "COMPLETED"
    BY <1>9 DEF WorkerFailed, ReportAccepted, CompletedMeansAllCompleted
  <2>2. fsm' # "COMPLETED"
    BY <1>2, <1>9, <2>1 DEF WorkerFailed
  <2> QED
    BY <2>2 DEF CompletedMeansAllCompleted
<1>10. ASSUME exit.pc = "evaluate" PROVE fsm # "COMPLETED"
  BY <1>10 DEF TypeOK, PassedInv, JudgedIsRunning, CompletedMeansAllCompleted
<1>11. CASE PassLast
  <2>1. fsm # "COMPLETED" /\ fsm \in EngineStates
    BY <1>10, <1>11 DEF TypeOK, PassLast, Evaluated
  <2>2. CASE IsAllDone(status') /\ ~HasFailed(status')
    BY <2>2, AllDoneCompleted DEF TypeOK, CompletedMeansAllCompleted
  <2>3. CASE fsm' \in {FireBoth(fsm, "WORKER_EXITED", "PHASE_FAIL"), FireBoth(fsm, "WORKER_EXITED", "PHASE_PASS")}
    <3>1. fsm' # "COMPLETED"
      BY <2>1, <2>3, CompletedReachedBoth
    <3> QED
      BY <3>1 DEF CompletedMeansAllCompleted
  <2> QED
    BY <1>11, <2>2, <2>3 DEF PassLast
<1>12. CASE PassInPlace \/ FailInPlace
  <2>1. fsm' # "COMPLETED"
    BY <1>10, <1>12 DEF PassInPlace, FailInPlace, Evaluated
  <2> QED
    BY <2>1 DEF CompletedMeansAllCompleted
<1>13. CASE FailLast
  <2>1. fsm # "COMPLETED" /\ fsm \in EngineStates
    BY <1>10, <1>13 DEF TypeOK, FailLast, Evaluated
  <2>2. fsm' = FireBoth(fsm, "WORKER_EXITED", "PHASE_FAIL")
    BY <1>13 DEF FailLast
  <2>3. fsm' # "COMPLETED"
    BY <2>1, <2>2, CompletedReachedBoth
  <2> QED
    BY <2>3 DEF CompletedMeansAllCompleted
<1>14. CASE VerdictLost
  BY <1>1, <1>2, <1>14 DEF VerdictLost
<1>15. CASE StallEnds
  <2>1. fsm = "EXECUTING_WORKER" /\ UNCHANGED status
    BY <1>15 DEF StallEnds, Stalled
  <2>2. CASE IsAllDone(status) /\ ~HasFailed(status)
    BY <2>1, <2>2, AllDoneCompleted DEF TypeOK, CompletedMeansAllCompleted
  <2>3. CASE fsm' = FireBoth(fsm, "WORKER_EXITED", "PHASE_FAIL")
    <3>1. fsm' # "COMPLETED"
      BY <2>1, <2>3, CompletedReachedBoth DEF EngineStates
    <3> QED
      BY <3>1 DEF CompletedMeansAllCompleted
  <2> QED
    BY <1>15, <2>2, <2>3 DEF StallEnds
<1>16. UNCHANGED <<fsm, status>> => CompletedMeansAllCompleted'
  BY <1>1
<1>17. Callback => CompletedMeansAllCompleted'
  BY <1>11, <1>12, <1>13, <1>14, <1>16 DEF Callback, Advance, DispatchInPlace, ArmHealTimer, ReleaseLock
<1>18. SystemStep => CompletedMeansAllCompleted'
  BY <1>4, <1>5, <1>6, <1>7, <1>8, <1>9, <1>15, <1>16, <1>17
     DEF SystemStep, StartSaved, AbortSaved, RestartSaved, SpawnWorker, FailureSaved, WorkerReports,
         ReportDropped, WorkerExited, StallRedispatch
<1>19. EnvironmentFails => CompletedMeansAllCompleted'
  BY <1>16 DEF EnvironmentFails, LaunchFails, FailureSaveFails, CommandSaveFails, CallbackSaveFails
<1> QED
  BY <1>3, <1>16, <1>18, <1>19 DEF Next, vars

\* The invariant behind CompletedMeansAllCompleted.
EndInv == NoHeals /\ LoadsOnce /\ PassedInv /\ CompletedMeansAllCompleted

LEMMA EndInit == Init => EndInv
<1> SUFFICES ASSUME Init PROVE EndInv
  OBVIOUS
<1>1. exit.pc = "idle"
  BY DEF Init, NoExit
<1>2. /\ \A p \in Phases : heals[p] = 0 /\ healTimers[p] = 0 /\ launches[p] = 0 /\ status[p] = "pending"
      /\ \A S \in Work : dispatches[S] = 0
      /\ \A p \in Phases, v \in Verdicts : reports[p, v] = 0
      /\ awaits["load"] = 0 /\ workers = {} /\ fsm = "IDLE" /\ loaded = FALSE
  BY DEF Init, None, Awaiting
<1>3. \A p \in Phases : ~(launches[p] > 0)
  BY <1>2, ZeroIsNone
<1>4. NoHeals
  BY <1>1, <1>2 DEF NoHeals
<1>5. LoadsOnce
  <2>1. NothingBegun
    BY <1>1, <1>2 DEF NothingBegun
  <2>2. awaits["load"] = 0 /\ ~loaded
    BY <1>2
  <2>3. awaits["load"] <= 1
    BY <2>2
  <2> QED
    BY <2>1, <2>2, <2>3 DEF LoadsOnce
<1>6. \A p \in Phases : ~Passed(p)
  <2>1. \A p \in Phases : ~(reports[p, "pass"] > 0)
    BY <1>2, ZeroIsNone DEF Verdicts
  <2> QED
    BY <1>1, <1>2, <2>1 DEF Passed
<1>7. PassedInv
  BY <1>1, <1>2, <1>6, <1>3 DEF PassedInv, PassedIsOver, LaunchedIsMarked, JudgedIsRunning
<1>8. CompletedMeansAllCompleted
  BY <1>2 DEF CompletedMeansAllCompleted
<1> QED
  BY <1>4, <1>5, <1>7, <1>8 DEF EndInv

\* The invariant of a run that starts each phase once.
LEMMA EndInvHolds ==
  ASSUME EachPhaseOnce
  PROVE  Spec => []EndInv
<1>1. Spec => []NoSkipSaved
  BY NoSkipHolds DEF EachPhaseOnce
<1>2. TypeOK /\ TypeOK' /\ NoSkipSaved /\ EndInv /\ [Next]_vars => EndInv'
  BY NoHealsStep, LoadsOnceStep, PassedStep, CompletedStep DEF EndInv
<1> QED
  BY <1>1, <1>2, EndInit, TypeCorrect, PTL DEF Spec

\* Engine.transition to COMPLETED tells the user that the work is done, and from then on
\* nothing is started or judged again: in every graph, with every limit, failure, pause
\* and rejected save.
THEOREM CompletedMeansAllCompletedHolds ==
  ASSUME EachPhaseOnce
  PROVE  Spec => []CompletedMeansAllCompleted
<1>1. EndInv => CompletedMeansAllCompleted
  BY DEF EndInv
<1> QED
  BY <1>1, EndInvHolds, PTL

-----------------------------------------------------------------------------
(* The engine's run is a run of DagRun, step by step.  DagRun starts a phase *)
(* on what is completed now, the engine on a ready set of some awaits ago:   *)
(* what was completed then still is, as a phase that passed is never started *)
(* again.                                                                    *)

\* The runbook is new, and the user starts and pauses.  (A resumed run would go on from
\* "failed" without a step of a phase, which DagRun does not have.)
FreshRun ==
  /\ EachPhaseOnce
  /\ Commands \subseteq {"start", "pause"}
  /\ \A rb \in Runbooks : rb.status = [p \in Phases |-> "pending"]

\* The run has not been started.
Waiting == fsm \in {"IDLE", "PARSING", "READY"}

\* The engine's states in a run.  (EVALUATING is left in the step that enters it.)
FsmOfRun == Waiting \/ fsm \in {"EXECUTING_WORKER", "ERROR_PAUSED", "COMPLETED"}

\* Until it is started there is nothing under way.
WaitingIsQuiet == Waiting =>
  /\ status = [p \in Phases |-> "pending"]
  /\ \A S \in Work : dispatches[S] = 0
  /\ awaits["start"] = 0 /\ awaits["restart"] = 0
  /\ exit.pc = "idle"

\* What a dispatch will start has its dependencies, still.
DispatchesReady == \A S \in Work : dispatches[S] > 0 =>
  \A p \in S : \A d \in Deps[p] : d \in Phases /\ status[d] = "completed"

\* The invariant behind the refinement.
RunInv == FsmOfRun /\ WaitingIsQuiet /\ DispatchesReady

\* The stages of DagRun.
LEMMA StageIs ==
  /\ Waiting => Stage = "idle"
  /\ fsm = "EXECUTING_WORKER" => Stage = "running"
  /\ fsm = "ERROR_PAUSED" => Stage = "failed"
  /\ fsm = "COMPLETED" => Stage = "succeeded"
BY DEF Waiting, Stage

\* The engine starts where DagRun starts.
LEMMA RunInitIs == Init => Run!Init
<1> SUFFICES ASSUME Init PROVE Run!Init
  OBVIOUS
<1>1. Waiting
  BY DEF Init, Waiting
<1> QED
  BY <1>1, StageIs DEF Init, Run!Init


\* The engine's transitions during a run.
LEMMA RunFire ==
  /\ \A e \in {"START"} : Waiting => Fire(fsm, e) \in {fsm, "EXECUTING_WORKER"}
  /\ ~Waiting /\ FsmOfRun => ~Accepts(fsm, "START")
  /\ \A e \in {"LOAD_RUNBOOK", "PARSE_SUCCESS", "PARSE_FAILURE"} :
       Waiting => Fire(fsm, e) \in {"IDLE", "PARSING", "READY"}
  /\ Fire("ERROR_PAUSED", "RETRY") = "EXECUTING_WORKER"
  /\ \A e \in {"WORKER_TIMEOUT", "WORKER_CRASH"} :
       /\ Fire("EXECUTING_WORKER", e) = "ERROR_PAUSED"
       /\ Fire("ERROR_PAUSED", e) = "ERROR_PAUSED"
  /\ FireBoth("EXECUTING_WORKER", "WORKER_EXITED", "PHASE_FAIL") = "ERROR_PAUSED"
  /\ FireBoth("EXECUTING_WORKER", "WORKER_EXITED", "PHASE_PASS") = "EXECUTING_WORKER"
  /\ FireBoth("EXECUTING_WORKER", "WORKER_EXITED", "ALL_PHASES_PASS") = "COMPLETED"
  /\ \A e \in {"PHASE_FAIL", "PHASE_PASS", "ALL_PHASES_PASS"} :
       FireBoth("ERROR_PAUSED", "WORKER_EXITED", e) = "ERROR_PAUSED"
BY DEF Waiting, FsmOfRun, Fire, FireBoth, Accepts, Transitions

\* While a phase runs, the run is under way or held up by a failure.
LEMMA RunningMeans ==
  ASSUME RunInv, CompletedMeansAllCompleted, NEW p \in Phases, status[p] = "running"
  PROVE  fsm \in {"EXECUTING_WORKER", "ERROR_PAUSED"}
BY DEF RunInv, FsmOfRun, WaitingIsQuiet, CompletedMeansAllCompleted

\* Dispatches keep their dependencies completed as long as nothing completed is undone.
LEMMA ReadyKept ==
  ASSUME TypeOK, TypeOK', DispatchesReady,
         \A p \in Phases : status[p] = "completed" => status'[p] = "completed",
         UNCHANGED dispatches \/ (DispatchReady /\ UNCHANGED status)
  PROVE  DispatchesReady'
<1>1. ASSUME NEW S \in Work, dispatches'[S] > 0, NEW p \in S, NEW d \in Deps[p]
      PROVE  d \in Phases /\ status'[d] = "completed"
  <2>1. CASE dispatches[S] > 0
    BY <1>1, <2>1 DEF DispatchesReady
  <2>2. CASE ~(dispatches[S] > 0)
    <3>1. UNCHANGED status /\ S = ReadyPhases(status')
      BY <1>1, <2>2 DEF TypeOK, DispatchReady, Inc
    <3> QED
      BY <1>1, <3>1, ReadyPhasesReady
  <2> QED
    BY <2>1, <2>2
<1> QED
  BY <1>1 DEF DispatchesReady

\* A step that moves neither a phase nor the engine.
LEMMA RunKept ==
  ASSUME TypeOK, TypeOK', RunInv, UNCHANGED <<fsm, status>>,
         UNCHANGED dispatches \/ DispatchReady,
         Waiting => UNCHANGED <<dispatches, exit, awaits["start"], awaits["restart"]>>
  PROVE  RunInv' /\ UNCHANGED <<status, Stage>>
<1>1. DispatchesReady'
  BY ReadyKept DEF RunInv
<1>2. FsmOfRun' /\ Waiting' = Waiting /\ Stage' = Stage
  BY DEF RunInv, FsmOfRun, Waiting, Stage
<1>3. WaitingIsQuiet'
  BY <1>2 DEF RunInv, WaitingIsQuiet
<1> QED
  BY <1>1, <1>2, <1>3 DEF RunInv

\* Loading the runbook.
LEMMA RunLoads ==
  ASSUME FreshRun, TypeOK, TypeOK', EndInv, RunInv, LoadRunbook \/ RunbookLoaded
  PROVE  RunInv' /\ UNCHANGED <<status, Stage>>
<1> USE DEF engineVars, healVars, lockVars, workerVars
<1>1. Waiting
  <2>1. CASE LoadRunbook
    BY <2>1 DEF LoadRunbook, Waiting
  <2>2. CASE RunbookLoaded
    <3>1. ~loaded
      BY <2>2 DEF TypeOK, EndInv, LoadsOnce, RunbookLoaded, Awaiting
    <3> QED
      BY <3>1 DEF EndInv, LoadsOnce, NothingBegun, Waiting
  <2> QED
    BY <2>1, <2>2
<1>2. Waiting'
  BY <1>1, RunFire DEF LoadRunbook, RunbookLoaded, Waiting
<1>3. UNCHANGED status
  <2>1. \A rb \in Runbooks : rb.status = [p \in Phases |-> "pending"]
    BY DEF FreshRun
  <2>2. status = [p \in Phases |-> "pending"]
    BY <1>1 DEF RunInv, WaitingIsQuiet
  <2> QED
    BY <2>1, <2>2 DEF LoadRunbook, RunbookLoaded
<1>4. awaits'["start"] = awaits["start"] /\ awaits'["restart"] = awaits["restart"]
  BY DEF TypeOK, LoadRunbook, RunbookLoaded, Inc, Dec, Awaiting
<1>5. UNCHANGED <<dispatches, exit>>
  BY DEF LoadRunbook, RunbookLoaded
<1>6. DispatchesReady'
  BY <1>3, <1>5 DEF RunInv, DispatchesReady
<1>7. WaitingIsQuiet'
  BY <1>1, <1>3, <1>4, <1>5 DEF RunInv, WaitingIsQuiet
<1>8. Stage' = Stage
  <2>1. Stage = "idle"
    BY <1>1, StageIs
  <2>2. Stage' = "idle"
    BY <1>2 DEF Waiting, Stage
  <2> QED
    BY <2>1, <2>2
<1> QED
  BY <1>2, <1>3, <1>6, <1>7, <1>8 DEF RunInv, FsmOfRun

\* The start of the run.
LEMMA RunStarts ==
  ASSUME TypeOK, TypeOK', RunInv, Start, Accepts(fsm, "START")
  PROVE  RunInv' /\ (Run!Begin \/ UNCHANGED <<status, Stage>>)
<1> USE DEF engineVars, healVars, lockVars, workerVars
<1>1. Waiting
  BY RunFire DEF RunInv
<1>2. UNCHANGED <<status, dispatches, exit>> /\ fsm' = Fire(fsm, "START")
  BY DEF Start
<1>3. fsm' = "EXECUTING_WORKER"
  BY <1>1, <1>2 DEF Waiting, Fire, Accepts, Transitions
<1>4. ~Waiting' /\ FsmOfRun'
  BY <1>3 DEF Waiting, FsmOfRun
<1>5. DispatchesReady'
  BY <1>2 DEF RunInv, DispatchesReady
<1>6. Stage = "idle"
  BY <1>1, StageIs
<1>7. Stage' = "running"
  BY <1>3 DEF Stage
<1>8. Run!Begin
  BY <1>2, <1>6, <1>7 DEF Run!Begin, Run!Under
<1> QED
  BY <1>4, <1>5, <1>8 DEF RunInv, WaitingIsQuiet

\* The start of a phase.
LEMMA RunDispatches ==
  ASSUME TypeOK, TypeOK', EndInv, RunInv, NEW S \in Work, DispatchPhase(S)
  PROVE  RunInv' /\ \E p \in Phases : Run!StartPhase(p)
<1>1. PICK p \in FirstOf(S, 1) :
        /\ status' = [status EXCEPT ![p] = "running"]
        /\ dispatches' = IF S = {p} THEN Dec(dispatches, S) ELSE Inc(Dec(dispatches, S), S \ {p})
        /\ ExecutePhase(p)
  BY DEF DispatchPhase
<1>2. p \in S /\ p \in Phases
  BY FirstOfOne
<1>3. dispatches[S] > 0 /\ ~(dispatches[S] = 0)
  BY ZeroIsNone DEF DispatchPhase
<1>4. ~Passed(p)
  BY <1>2, <1>3 DEF EndInv, PassedInv, PassedIsOver
<1>5. status[p] # "completed"
  BY <1>4 DEF Passed
<1>6. fsm \in {"EXECUTING_WORKER", "ERROR_PAUSED"}
  BY <1>2, <1>3, <1>5 DEF RunInv, FsmOfRun, WaitingIsQuiet, EndInv, CompletedMeansAllCompleted
<1>7. fsm' = "EXECUTING_WORKER"
  BY <1>1, <1>6, RunFire DEF ExecutePhase
<1>8. Stage \in {"running", "failed"} /\ Stage' = "running"
  BY <1>6, <1>7, StageIs DEF Stage
<1>9. \A q \in S : \A d \in Deps[q] : d \in Phases /\ status[d] = "completed"
  BY <1>3 DEF RunInv, DispatchesReady
<1>10. Run!StartPhase(p)
  BY <1>1, <1>2, <1>5, <1>8, <1>9 DEF Run!StartPhase
<1>11. \A q \in Phases : status[q] = "completed" => status'[q] = "completed"
  BY <1>1, <1>5 DEF TypeOK
<1>12. ASSUME NEW T \in Work, dispatches'[T] > 0
       PROVE  \A q \in T : \A d \in Deps[q] : d \in Phases /\ status'[d] = "completed"
  <2>1. CASE T = S \ {p}
    BY <1>9, <1>11, <2>1
  <2>2. CASE T # S \ {p}
    <3>1. dispatches'[T] <= dispatches[T]
      BY <1>1, <2>2 DEF TypeOK, Inc, Dec
    <3>2. dispatches[T] > 0
      BY <1>12, <3>1 DEF TypeOK
    <3> QED
      BY <1>11, <3>2 DEF RunInv, DispatchesReady
  <2> QED
    BY <2>1, <2>2
<1>13. DispatchesReady'
  BY <1>12 DEF DispatchesReady
<1> QED
  BY <1>2, <1>7, <1>10, <1>13 DEF RunInv, FsmOfRun, WaitingIsQuiet, Waiting

\* A verdict.
LEMMA RunVerdict ==
  ASSUME TypeOK, TypeOK', RunInv, NEW p \in Phases, status[p] = "running", NEW s \in {"completed", "failed"},
         status' = [status EXCEPT ![p] = s], UNCHANGED dispatches,
         fsm \in {"EXECUTING_WORKER", "ERROR_PAUSED"},
         \/ UNCHANGED fsm
         \/ s = "failed" /\ fsm' = "ERROR_PAUSED"
         \/ /\ s = "completed"
            /\ fsm' = IF \A q \in Phases : status'[q] = "completed" THEN "COMPLETED" ELSE "ERROR_PAUSED"
  PROVE  RunInv' /\ Run!EndPhase(p, s)
<1>1. Stage \in {"running", "failed"}
  BY StageIs
<1>2. UNCHANGED fsm => UNCHANGED Stage
  BY DEF Stage
<1>3. /\ fsm' = "COMPLETED" => Stage' = "succeeded"
      /\ fsm' = "ERROR_PAUSED" => Stage' = "failed"
  BY DEF Stage
<1>4. Run!EndPhase(p, s)
  BY <1>1, <1>2, <1>3 DEF Run!EndPhase
<1>5. \A q \in Phases : status[q] = "completed" => status'[q] = "completed"
  BY DEF TypeOK
<1>6. DispatchesReady'
  BY <1>5, ReadyKept DEF RunInv
<1>7. ~Waiting' /\ FsmOfRun'
  BY DEF Waiting, FsmOfRun
<1> QED
  BY <1>4, <1>6, <1>7 DEF RunInv, WaitingIsQuiet

\* Each action is a step of DagRun or leaves it alone.
LEMMA RunStep ==
  ASSUME FreshRun, TypeOK, TypeOK', NoSkipSaved, EndInv, RunInv, [Next]_vars
  PROVE  RunInv' /\ (Run!Next \/ UNCHANGED <<status, Stage>>)
<1> DEFINE Goal == RunInv' /\ (Run!Next \/ UNCHANGED <<status, Stage>>)
<1> USE DEF engineVars, healVars, lockVars, workerVars
<1>1. UNCHANGED <<fsm, status, dispatches, exit, awaits["start"], awaits["restart"]>> => Goal
  BY RunKept
<1>2. UNCHANGED <<fsm, status, dispatches, exit, awaits>> => Goal
  BY <1>1
<1>3. UserStep => Goal
  <2>1. Start /\ Accepts(fsm, "START") => Goal
    BY RunStarts DEF Run!Next
  <2>2. (Start /\ ~Accepts(fsm, "START")) \/ Pause => Goal
    BY <1>2 DEF Start, Pause
  <2>3. UserStep => Start \/ Pause
    BY FewCommands DEF FreshRun, ResumePending, UserCommand
  <2> QED
    BY <2>1, <2>2, <2>3
<1>4. LoadRunbook \/ RunbookLoaded => Goal
  BY RunLoads DEF FreshRun
<1>5. StartSaved \/ RestartSaved => Goal
  <2>1. StartSaved \/ RestartSaved => ~Waiting
    BY ZeroIsNone DEF StartSaved, RestartSaved, RunInv, WaitingIsQuiet
  <2> QED
    BY <2>1, RunKept DEF StartSaved, RestartSaved
<1>6. ASSUME NEW c \in Awaiting, awaits' = Dec(awaits, c), awaits[c] > 0, UNCHANGED <<fsm, status, dispatches, exit>>
      PROVE  Goal
  <2>1. CASE Waiting
    <3>1. c # "start" /\ c # "restart"
      BY <1>6, <2>1, ZeroIsNone DEF RunInv, WaitingIsQuiet
    <3>2. awaits'["start"] = awaits["start"] /\ awaits'["restart"] = awaits["restart"]
      BY <1>6, <3>1 DEF TypeOK, Dec, Awaiting
    <3> QED
      BY <1>1, <1>6, <3>2
  <2>2. CASE ~Waiting
    BY <1>6, <2>2, RunKept
  <2> QED
    BY <2>1, <2>2
<1>7. AbortSaved => Goal
  BY <1>6, AwaitingElements DEF AbortSaved
<1>8. ~SkipSaved
  BY DEF SkipSaved, NoSkipSaved
<1>9. ASSUME NEW S \in Work, DispatchPhase(S) PROVE Goal
  BY <1>9, RunDispatches DEF Run!Next
<1>10. ASSUME NEW p \in Phases PROVE ~FailureSaved(p) /\ ~HealTimerFires(p) /\ ~FailureSaveFails(p)
  BY DEF EndInv, NoHeals, FailureSaved, HealTimerFires, FailureSaveFails
<1>11. ~ArmHealTimer
  BY DEF EndInv, NoHeals, ArmHealTimer
<1>12. exit.pc # "idle" => ~Waiting
  BY DEF RunInv, WaitingIsQuiet
<1>13. ASSUME exit.pc = "evaluate"
       PROVE  exit.phase \in Phases /\ status[exit.phase] = "running" /\ fsm \in {"EXECUTING_WORKER", "ERROR_PAUSED"}
  <2>1. exit.phase \in Phases /\ status[exit.phase] = "running"
    BY <1>13 DEF TypeOK, EndInv, PassedInv, JudgedIsRunning
  <2> QED
    BY <2>1, RunningMeans DEF EndInv
<1>14. ASSUME NEW p \in Phases, NEW v \in Verdicts, WorkerExited(p, v) PROVE Goal
  <2>1. status[p] = "running"
    BY <1>14 DEF WorkerExited, ReportAccepted
  <2>2. ~Waiting
    BY <2>1, RunningMeans DEF EndInv, Waiting
  <2> QED
    BY <1>14, <2>2, RunKept DEF WorkerExited
<1>15. ASSUME NEW p \in Phases, NEW v \in Verdicts, WorkerFailed(p, v) PROVE Goal
  <2>1. status[p] = "running"
    BY <1>15 DEF WorkerFailed, ReportAccepted
  <2>2. fsm \in {"EXECUTING_WORKER", "ERROR_PAUSED"}
    BY <2>1, RunningMeans DEF EndInv
  <2>3. status' = [status EXCEPT ![p] = "failed"] /\ UNCHANGED dispatches
    BY <1>15, NoRetry DEF FreshRun, WorkerFailed
  <2>4. fsm' = fsm \/ fsm' = "ERROR_PAUSED"
    BY <1>15, <2>2, RunFire DEF WorkerFailed
  <2>5. RunInv' /\ Run!EndPhase(p, "failed")
    BY <2>1, <2>2, <2>3, <2>4, RunVerdict
  <2> QED
    BY <2>5 DEF Run!Next
<1>16. CASE PassLast \/ PassInPlace
  <2>1. exit.pc = "evaluate"
    BY <1>16 DEF PassLast, PassInPlace, Evaluated
  <2>2. status' = [status EXCEPT ![exit.phase] = "completed"] /\ UNCHANGED dispatches
    BY <1>16 DEF PassLast, PassInPlace, Complete
  <2>3. fsm' = fsm \/ fsm' = IF \A q \in Phases : status'[q] = "completed" THEN "COMPLETED" ELSE "ERROR_PAUSED"
    <3>1. CASE IsAllDone(status') /\ ~HasFailed(status')
      <4>1. \A q \in Phases : status'[q] = "completed"
        BY <3>1, AllDoneCompleted DEF TypeOK
      <4>2. fsm' = fsm \/ fsm' = "COMPLETED"
        BY <1>13, <1>16, <2>1, <3>1, RunFire DEF PassLast, PassInPlace
      <4> QED
        BY <4>1, <4>2
    <3>2. CASE IsAllDone(status') /\ HasFailed(status')
      <4>1. ~\A q \in Phases : status'[q] = "completed"
        BY <3>2 DEF HasFailed, WithStatus
      <4>2. fsm' = fsm \/ fsm' = "ERROR_PAUSED"
        BY <1>13, <1>16, <2>1, <3>2, RunFire DEF PassLast, PassInPlace
      <4> QED
        BY <4>1, <4>2
    <3>3. CASE ~IsAllDone(status')
      BY <1>13, <1>16, <2>1, <3>3, RunFire DEF PassLast, PassInPlace
    <3> QED
      BY <3>1, <3>2, <3>3
  <2>4. RunInv' /\ Run!EndPhase(exit.phase, "completed")
    BY <1>13, <2>1, <2>2, <2>3, RunVerdict
  <2> QED
    BY <1>13, <2>1, <2>4 DEF Run!Next
<1>17. CASE FailLast \/ FailInPlace
  <2>1. exit.pc = "evaluate"
    BY <1>17 DEF FailLast, FailInPlace, Evaluated
  <2>2. ~CanRetry(exit.phase)
    BY <1>13, <2>1, NoRetry DEF FreshRun
  <2>3. status' = [status EXCEPT ![exit.phase] = "failed"] /\ UNCHANGED dispatches
    BY <1>17, <2>2 DEF FailLast, FailInPlace
  <2>4. fsm' = fsm \/ fsm' = "ERROR_PAUSED"
    BY <1>13, <1>17, <2>1, RunFire DEF FailLast, FailInPlace
  <2>5. RunInv' /\ Run!EndPhase(exit.phase, "failed")
    BY <1>13, <2>1, <2>3, <2>4, RunVerdict
  <2> QED
    BY <1>13, <2>1, <2>5 DEF Run!Next
<1>18. ~VerdictLost
  BY <1>13 DEF VerdictLost, EndInv, LoadsOnce, NothingBegun
<1>19. CASE Advance \/ DispatchInPlace
  <2>1. ~Waiting /\ UNCHANGED <<fsm, status>>
    BY <1>12, <1>19 DEF Advance, DispatchInPlace
  <2>2. UNCHANGED dispatches \/ DispatchReady
    BY <1>19 DEF Advance, DispatchInPlace
  <2> QED
    BY <2>1, <2>2, RunKept
<1>20. ReleaseLock \/ CallbackSaveFails => Goal
  <2>1. ReleaseLock \/ CallbackSaveFails => ~Waiting
    BY <1>12 DEF ReleaseLock, CallbackSaveFails
  <2> QED
    BY <2>1, RunKept DEF ReleaseLock, CallbackSaveFails
<1>21. Stalled => ~Waiting /\ fsm = "EXECUTING_WORKER"
  BY DEF Stalled, Waiting
<1>22. StallRedispatch => Goal
  <2>1. StallRedispatch => ~Waiting /\ UNCHANGED <<fsm, status>> /\ DispatchReady
    BY <1>21 DEF StallRedispatch, Stalled, DispatchReady
  <2> QED
    BY <2>1, RunKept
<1>23. CASE StallEnds
  <2>1. fsm = "EXECUTING_WORKER" /\ UNCHANGED <<status, dispatches>>
    BY <1>21, <1>23 DEF StallEnds
  <2>2. fsm' = IF \A q \in Phases : status[q] = "completed" THEN "COMPLETED" ELSE "ERROR_PAUSED"
    <3>1. CASE IsAllDone(status) /\ ~HasFailed(status)
      <4>1. \A q \in Phases : status[q] = "completed"
        BY <3>1, AllDoneCompleted DEF TypeOK
      <4> QED
        BY <1>23, <2>1, <3>1, <4>1, RunFire DEF StallEnds
    <3>2. CASE ~IsAllDone(status) \/ HasFailed(status)
      <4>1. ~\A q \in Phases : status[q] = "completed"
        BY <3>2 DEF HasFailed, IsAllDone, WithStatus
      <4> QED
        BY <1>23, <2>1, <3>2, <4>1, RunFire DEF StallEnds
    <3> QED
      BY <3>1, <3>2
  <2>3. Stage = "running" /\ Stage' = IF \A q \in Phases : status[q] = "completed" THEN "succeeded" ELSE "failed"
    BY <2>1, <2>2, StageIs DEF Stage
  <2>4. Run!End
    BY <2>1, <2>3 DEF Run!End, Run!Under
  <2>5. ~Waiting' /\ FsmOfRun'
    BY <2>2 DEF Waiting, FsmOfRun
  <2>6. DispatchesReady'
    BY <2>1 DEF RunInv, DispatchesReady
  <2> QED
    BY <2>4, <2>5, <2>6 DEF RunInv, WaitingIsQuiet, Run!Next
<1>24. SystemStep => Goal
  BY <1>2, <1>4, <1>5, <1>7, <1>8, <1>9, <1>10, <1>11, <1>14, <1>15, <1>16, <1>17, <1>18, <1>19, <1>20,
     <1>22, <1>23
     DEF SystemStep, Callback, SpawnWorker, WorkerReports, ReportDropped
<1>25. ASSUME NEW c \in Awaiting, CommandSaveFails(c) PROVE Goal
  BY <1>6, <1>25 DEF CommandSaveFails
<1>26. EnvironmentFails => Goal
  BY <1>2, <1>10, <1>20, <1>25 DEF EnvironmentFails, LaunchFails
<1> QED
  BY <1>2, <1>3, <1>24, <1>26 DEF Next, vars

LEMMA RunInvInit == Init => RunInv
<1> SUFFICES ASSUME Init PROVE RunInv
  OBVIOUS
<1>1. /\ \A S \in Work : dispatches[S] = 0
      /\ awaits["start"] = 0 /\ awaits["restart"] = 0
      /\ exit.pc = "idle" /\ fsm = "IDLE" /\ status = [p \in Phases |-> "pending"]
  BY DEF Init, None, Awaiting, NoExit
<1>2. \A S \in Work : ~(dispatches[S] > 0)
  BY <1>1, ZeroIsNone
<1> QED
  BY <1>1, <1>2 DEF RunInv, FsmOfRun, Waiting, WaitingIsQuiet, DispatchesReady

\* What Engine does to phases and to its state is what DagRun allows, in every step: the
\* safety part of ImplementsDagRun, for every graph and limit and all failures.
THEOREM RunIsDagRun ==
  ASSUME FreshRun
  PROVE  Spec => Run!Init /\ [][Run!Next]_(Run!vars)
<1>1. EachPhaseOnce
  BY DEF FreshRun
<1>2. Spec => []NoSkipSaved
  BY <1>1, NoSkipHolds DEF EachPhaseOnce
<1>3. Spec => []EndInv
  BY <1>1, EndInvHolds
<1>4. TypeOK /\ TypeOK' /\ NoSkipSaved /\ EndInv /\ RunInv /\ [Next]_vars => RunInv'
  BY RunStep
<1>5. TypeOK /\ TypeOK' /\ NoSkipSaved /\ EndInv /\ RunInv /\ [Next]_vars => [Run!Next]_(Run!vars)
  BY RunStep DEF Run!vars
<1> QED
  BY <1>2, <1>3, <1>4, <1>5, RunInvInit, RunInitIs, TypeCorrect, PTL DEF Spec
=============================================================================
