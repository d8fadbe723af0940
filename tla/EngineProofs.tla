---------------------------- MODULE EngineProofs ----------------------------
(***************************************************************************)
(* Type correctness of the engine, that no phase is started before the     *)
(* phases it depends on, and that an abort is final.  A dispatch carries   *)
(* its ready set through several awaits, so the invariant says of every    *)
(* set of phases still to be started that their dependencies have been     *)
(* completed once.                                                         *)
(***************************************************************************)
EXTENDS Engine, TLAPS, FiniteSetTheorems

-----------------------------------------------------------------------------
(* Lemmas about the operators of the model *)

\* Engine.transition stays inside the nine states, whatever event it is given.
LEMMA FireType ==
  ASSUME NEW s \in EngineStates, NEW e
  PROVE  Fire(s, e) \in EngineStates
<1>1. CASE s = "IDLE"
  BY <1>1 DEF Fire, Accepts, Transitions, EngineStates
<1>2. CASE s = "PLANNING"
  BY <1>2 DEF Fire, Accepts, Transitions, EngineStates
<1>3. CASE s = "PLAN_REVIEW"
  BY <1>3 DEF Fire, Accepts, Transitions, EngineStates
<1>4. CASE s = "PARSING"
  BY <1>4 DEF Fire, Accepts, Transitions, EngineStates
<1>5. CASE s = "READY"
  BY <1>5 DEF Fire, Accepts, Transitions, EngineStates
<1>6. CASE s = "EXECUTING_WORKER"
  BY <1>6 DEF Fire, Accepts, Transitions, EngineStates
<1>7. CASE s = "EVALUATING"
  BY <1>7 DEF Fire, Accepts, Transitions, EngineStates
<1>8. CASE s = "ERROR_PAUSED"
  BY <1>8 DEF Fire, Accepts, Transitions, EngineStates
<1>9. CASE s = "COMPLETED"
  BY <1>9 DEF Fire, Accepts, Transitions, EngineStates
<1> QED
  BY <1>1, <1>2, <1>3, <1>4, <1>5, <1>6, <1>7, <1>8, <1>9 DEF EngineStates

LEMMA FireBothType ==
  ASSUME NEW s \in EngineStates, NEW e1, NEW e2
  PROVE  FireBoth(s, e1, e2) \in EngineStates
BY FireType DEF FireBoth

LEMMA IncType ==
  ASSUME NEW D, NEW f \in [D -> Nat], NEW x \in D
  PROVE  Inc(f, x) \in [D -> Nat]
BY DEF Inc

LEMMA DecType ==
  ASSUME NEW D, NEW f \in [D -> Nat], NEW x \in D, f[x] > 0
  PROVE  Dec(f, x) \in [D -> Nat]
BY DEF Dec

LEMMA NoneType ==
  ASSUME NEW D
  PROVE  None(D) \in [D -> Nat]
BY DEF None

\* getReadyPhases returns pending phases all of whose dependencies are
\* completed.
LEMMA ReadyPhasesReady ==
  ASSUME NEW st, NEW p \in ReadyPhases(st)
  PROVE  /\ p \in Phases
         /\ st[p] = "pending"
         /\ \A d \in Deps[p] : d \in Phases /\ st[d] = "completed"
<1>1. CASE IsDAGMode
  BY <1>1 DEF ReadyPhases, FirstOf, WithStatus, DepsCompleted
<1>2. CASE ~IsDAGMode
  BY <1>2 DEF ReadyPhases, FirstOf, WithStatus, IsDAGMode
<1> QED
  BY <1>1, <1>2

LEMMA ReadyPhasesType ==
  ASSUME NEW st
  PROVE  ReadyPhases(st) \in SUBSET Phases
BY ReadyPhasesReady

\* dispatchReadyPhases adds a call to the ones under way, or does nothing.
LEMMA DispatchReadyType ==
  ASSUME TypeOK, DispatchReady
  PROVE  dispatches' \in [Work -> Nat]
<1>1. ReadyPhases(status') # {} => ReadyPhases(status') \in Work
  BY ReadyPhasesType DEF Work
<1> QED
  BY <1>1, IncType DEF DispatchReady, TypeOK

-----------------------------------------------------------------------------
(* Type correctness *)

LEMMA SurvivingType ==
  ASSUME TypeOK
  PROVE  SurvivingWorkers \in Nat
<1>1. IsFiniteSet(1..N)
  BY NAssumption, FS_Interval
<1>2. IsFiniteSet(WithStatus(status, "running"))
  BY <1>1, FS_Subset DEF WithStatus, Phases
<1> QED
  BY <1>2, FS_CardinalityType DEF SurvivingWorkers

LEMMA NoExitType == NoExit \in [pc : ExitPc, phase : Phases, verdict : Verdicts, last : BOOLEAN]
BY NAssumption DEF NoExit, ExitPc, Phases, Verdicts

LEMMA AwaitingElements ==
  {"load", "start", "restart", "skip", "abort"} \subseteq Awaiting
BY DEF Awaiting

LEMMA TypeInit == Init => TypeOK
<1> SUFFICES ASSUME Init PROVE TypeOK
  OBVIOUS
<1>1. exit \in [pc : ExitPc, phase : Phases, verdict : Verdicts, last : BOOLEAN]
  BY NoExitType DEF Init
<1>2. /\ attempts \in [Phases -> Nat] /\ healTimers \in [Phases -> Nat]
      /\ heals \in [Phases -> Nat] /\ launches \in [Phases -> Nat]
      /\ awaits \in [Awaiting -> Nat] /\ dispatches \in [Work -> Nat]
      /\ reports \in [Phases \X Verdicts -> Nat] /\ used \in [Bounds -> Nat]
  BY NoneType DEF Init
<1> QED
  BY <1>1, <1>2 DEF Init, TypeOK, EngineStates, RunbookStatus, PhaseStatus

LEMMA TypeUserStep ==
  ASSUME TypeOK, UserStep
  PROVE  TypeOK'
<1> USE DEF engineVars, healVars, lockVars, workerVars
<1>1. CASE Start
  <2>1. used' \in [Bounds -> Nat]
    BY <1>1, IncType DEF TypeOK, Start, UserCommand, Bounds
  <2>2. CASE Accepts(fsm, "START")
    <3>1. awaits' \in [Awaiting -> Nat]
      BY <1>1, <2>2, IncType, AwaitingElements DEF TypeOK, Start
    <3>2. fsm' \in EngineStates
      BY <1>1, <2>2, FireType DEF TypeOK, Start
    <3> QED
      BY <1>1, <2>1, <2>2, <3>1, <3>2 DEF TypeOK, Start, RunbookStatus
  <2>3. CASE ~Accepts(fsm, "START")
    BY <1>1, <2>1, <2>3 DEF TypeOK, Start
  <2> QED
    BY <2>2, <2>3
<1>2. CASE Pause
  BY <1>2, IncType DEF TypeOK, Pause, UserCommand, Bounds
<1>3. CASE Abort
  <2>1. used' \in [Bounds -> Nat] /\ fsm' \in EngineStates /\ healTimers' \in [Phases -> Nat]
    BY <1>3, IncType, FireType, NoneType DEF TypeOK, Abort, UserCommand, Bounds
  <2>2. CASE loaded
    <3>1. status' \in [Phases -> PhaseStatus]
      BY <1>3, <2>2 DEF TypeOK, Abort, PhaseStatus
    <3>2. Inc(awaits, "abort") \in [Awaiting -> Nat]
      BY IncType, AwaitingElements DEF TypeOK
    <3>3. awaits' = Inc(awaits, "abort") /\ rbStatus' = "idle" /\ UNCHANGED activeWorkerCount
      BY <1>3, <2>2 DEF Abort
    <3> QED
      BY <1>3, <2>1, <3>1, <3>2, <3>3 DEF TypeOK, Abort, RunbookStatus
  <2>3. CASE ~loaded
    <3>1. activeWorkerCount' = 0 /\ UNCHANGED <<status, rbStatus, awaits>>
      BY <1>3, <2>3 DEF Abort
    <3> QED
      BY <1>3, <2>1, <3>1 DEF TypeOK, Abort
  <2> QED
    BY <2>2, <2>3
<1>4. CASE Reset
  BY <1>4, FireType, IncType, NoneType DEF TypeOK, Reset, UserCommand, Bounds
<1>5. CASE ResumePending
  BY <1>5, FireType, IncType, SurvivingType DEF TypeOK, ResumePending, UserCommand, RunbookStatus, Awaiting, Bounds
<1>6. ASSUME NEW p \in Phases, Retry(p) PROVE TypeOK'
  BY <1>6, FireType, IncType DEF TypeOK, Retry, UserCommand, RunbookStatus, PhaseStatus, Awaiting, Bounds
<1>7. ASSUME NEW p \in Phases, RestartPhase(p) PROVE TypeOK'
  <2>1. used' \in [Bounds -> Nat] /\ awaits' \in [Awaiting -> Nat]
    BY <1>7, IncType DEF TypeOK, RestartPhase, UserCommand, Bounds, Awaiting
  <2>2. fsm' \in EngineStates
    BY <1>7, FireType DEF TypeOK, RestartPhase
  <2> QED
    BY <1>7, <2>1, <2>2 DEF TypeOK, RestartPhase, PhaseStatus, RunbookStatus
<1>8. ASSUME NEW p \in Phases, SkipPhase(p) PROVE TypeOK'
  BY <1>8, FireType, IncType DEF TypeOK, SkipPhase, UserCommand, PhaseStatus, Awaiting, Bounds
<1> QED
  BY <1>1, <1>2, <1>3, <1>4, <1>5, <1>6, <1>7, <1>8 DEF UserStep

LEMMA FirstOfOne ==
  ASSUME NEW S \in Work, NEW p \in FirstOf(S, 1)
  PROVE  /\ p \in S /\ p \in Phases
         /\ S # {p} => S \ {p} \in Work
BY DEF FirstOf, Work

LEMMA ExecutePhaseType ==
  ASSUME TypeOK, NEW p \in Phases, ExecutePhase(p)
  PROVE  fsm' \in EngineStates /\ launches' \in [Phases -> Nat]
BY FireType, IncType DEF TypeOK, ExecutePhase

LEMMA RetireType ==
  ASSUME TypeOK
  PROVE  Retire \in Nat
BY DEF TypeOK, Retire

LEMMA TypeCallback ==
  ASSUME TypeOK, Callback
  PROVE  TypeOK'
<1> USE DEF engineVars, healVars, lockVars, workerVars
<1>1. CASE PassLast
  BY <1>1, FireBothType DEF TypeOK, PassLast, Evaluated, Complete, PhaseStatus, RunbookStatus, ExitPc
<1>2. CASE PassInPlace
  BY <1>2 DEF TypeOK, PassInPlace, Evaluated, Complete, PhaseStatus, ExitPc
<1>3. CASE FailLast
  <2>1. /\ exit.phase \in Phases
        /\ attempts' \in [Phases -> Nat]
        /\ fsm' \in EngineStates
        /\ exit' \in [pc : ExitPc, phase : Phases, verdict : Verdicts, last : BOOLEAN]
    BY <1>3, FireBothType, IncType, NoExitType DEF TypeOK, FailLast
  <2>2. Inc(heals, exit.phase) \in [Phases -> Nat]
    BY <2>1, IncType DEF TypeOK
  <2>3. heals' \in [Phases -> Nat]
    BY <1>3, <2>2 DEF TypeOK, FailLast
  <2>4. status' \in [Phases -> PhaseStatus] /\ rbStatus' \in RunbookStatus
    BY <1>3, <2>1 DEF TypeOK, FailLast, PhaseStatus, RunbookStatus
  <2> QED
    BY <1>3, <2>1, <2>4, <2>3 DEF TypeOK, FailLast
<1>4. CASE FailInPlace
  BY <1>4, IncType DEF TypeOK, FailInPlace, Evaluated, PhaseStatus, ExitPc
<1>5. CASE VerdictLost
  BY <1>5, FireType, NoExitType DEF TypeOK, VerdictLost
<1>6. CASE Advance
  BY <1>6, DispatchReadyType, NoExitType DEF TypeOK, Advance, RunbookStatus
<1>7. CASE DispatchInPlace
  BY <1>7, DispatchReadyType, NoExitType DEF TypeOK, DispatchInPlace
<1>8. CASE ArmHealTimer
  BY <1>8, IncType, NoExitType DEF TypeOK, ArmHealTimer
<1>9. CASE ReleaseLock
  BY <1>9, NoExitType DEF TypeOK, ReleaseLock
<1> QED
  BY <1>1, <1>2, <1>3, <1>4, <1>5, <1>6, <1>7, <1>8, <1>9 DEF Callback

LEMMA TypeSystemStep ==
  ASSUME TypeOK, SystemStep
  PROVE  TypeOK'
<1> USE DEF engineVars, healVars, lockVars, workerVars
<1>1. CASE LoadRunbook
  BY <1>1, FireType, IncType DEF TypeOK, LoadRunbook, Awaiting
<1>2. CASE RunbookLoaded
  <2>1. awaits' \in [Awaiting -> Nat]
    BY <1>2, DecType, AwaitingElements DEF TypeOK, RunbookLoaded
  <2>2. fsm' \in EngineStates
    BY <1>2, FireType DEF TypeOK, RunbookLoaded
  <2>3. ASSUME NEW rb \in Runbooks,
               status' = rb.status, rbStatus' = rb.rbStatus,
               everCompleted' = everCompleted \cup WithStatus(rb.status, "completed"),
               loaded' = TRUE
        PROVE  /\ status' \in [Phases -> PhaseStatus] /\ rbStatus' \in RunbookStatus
               /\ everCompleted' \in SUBSET Phases /\ loaded' \in BOOLEAN
    BY <2>3, RunbooksAssumption DEF TypeOK, WithStatus
  <2>4. CASE UNCHANGED <<loaded, rbStatus, status, everCompleted>>
    BY <1>2, <2>1, <2>2, <2>4 DEF TypeOK, RunbookLoaded
  <2> QED
    BY <1>2, <2>1, <2>2, <2>3, <2>4 DEF TypeOK, RunbookLoaded
<1>3. CASE StartSaved
  BY <1>3, DispatchReadyType, DecType DEF TypeOK, StartSaved, Awaiting
<1>4. CASE AbortSaved
  BY <1>4, DecType DEF TypeOK, AbortSaved, Awaiting
<1>5. CASE RestartSaved
  BY <1>5, DispatchReadyType, DecType DEF TypeOK, RestartSaved, Awaiting
<1>6. CASE SkipSaved
  <2>1. Dec(awaits, "skip") \in [Awaiting -> Nat]
    BY <1>6, DecType DEF TypeOK, SkipSaved, Awaiting
  <2>2. awaits' \in [Awaiting -> Nat]
    BY <1>6, <2>1, IncType DEF SkipSaved, Awaiting
  <2>3. fsm' \in EngineStates
    BY <1>6, FireType, FireBothType DEF TypeOK, SkipSaved
  <2>4. rbStatus' \in RunbookStatus
    BY <1>6 DEF TypeOK, SkipSaved, RunbookStatus
  <2> QED
    BY <1>6, <2>2, <2>3, <2>4 DEF TypeOK, SkipSaved
<1>7. ASSUME NEW S \in Work, DispatchPhase(S) PROVE TypeOK'
  <2>1. Dec(dispatches, S) \in [Work -> Nat]
    BY <1>7, DecType DEF TypeOK, DispatchPhase
  <2>2. PICK p \in FirstOf(S, 1) :
          /\ status' = [status EXCEPT ![p] = "running"]
          /\ activeWorkerCount' = activeWorkerCount + 1
          /\ dispatches' = IF S = {p} THEN Dec(dispatches, S) ELSE Inc(Dec(dispatches, S), S \ {p})
          /\ ExecutePhase(p)
    BY <1>7 DEF DispatchPhase
  <2>3. dispatches' \in [Work -> Nat]
    BY <1>7, <2>1, <2>2, FirstOfOne, IncType
  <2>4. fsm' \in EngineStates /\ launches' \in [Phases -> Nat]
    BY <1>7, <2>2, FirstOfOne, ExecutePhaseType
  <2>5. [status EXCEPT ![p] = "running"] \in [Phases -> PhaseStatus]
    BY DEF TypeOK, PhaseStatus
  <2>6. status' \in [Phases -> PhaseStatus]
    BY <2>2, <2>5
  <2>7. activeWorkerCount' \in Nat
    BY <2>2 DEF TypeOK
  <2> QED
    BY <1>7, <2>3, <2>4, <2>6, <2>7 DEF TypeOK, DispatchPhase
<1>8. ASSUME NEW p \in Phases, SpawnWorker(p) PROVE TypeOK'
  BY <1>8, DecType DEF TypeOK, SpawnWorker
<1>9. ASSUME NEW p \in Phases, FailureSaved(p) PROVE TypeOK'
  BY <1>9, IncType, DecType DEF TypeOK, FailureSaved
<1>10. ASSUME NEW p \in Phases, HealTimerFires(p) PROVE TypeOK'
  BY <1>10, DecType, ExecutePhaseType DEF TypeOK, HealTimerFires
<1>11. ASSUME NEW p \in Phases, NEW v \in Verdicts, WorkerReports(p,v) PROVE TypeOK'
  BY <1>11, IncType DEF TypeOK, WorkerReports, Bounds
<1>12. ASSUME NEW p \in Phases, NEW v \in Verdicts, ReportDropped(p,v) PROVE TypeOK'
  BY <1>12, DecType DEF TypeOK, ReportDropped
<1>13. ASSUME NEW p \in Phases, NEW v \in Verdicts, WorkerExited(p,v) PROVE TypeOK'
  BY <1>13, DecType, RetireType DEF TypeOK, WorkerExited, ReportAccepted, Holding, ExitPc
<1>14. ASSUME NEW p \in Phases, NEW v \in Verdicts, WorkerFailed(p,v) PROVE TypeOK'
  <2>1. reports' \in [Phases \X Verdicts -> Nat] /\ activeWorkerCount' \in Nat
    BY <1>14, DecType, RetireType DEF TypeOK, WorkerFailed, ReportAccepted
  <2>2. attempts' \in [Phases -> Nat] /\ fsm' \in EngineStates /\ stallWatchdog' \in BOOLEAN
    BY <1>14, IncType, FireType DEF TypeOK, WorkerFailed
  <2>3. PICK pc \in ExitPc : exit' = Holding(pc, p, v)
    BY <1>14 DEF WorkerFailed, ExitPc
  <2>4. status' \in [Phases -> PhaseStatus] /\ rbStatus' \in RunbookStatus
    BY <1>14 DEF TypeOK, WorkerFailed, PhaseStatus, RunbookStatus
  <2> QED
    BY <1>14, <2>1, <2>2, <2>3, <2>4 DEF TypeOK, WorkerFailed, Holding
<1>15. CASE StallRedispatch
  BY <1>15, IncType, ReadyPhasesType DEF TypeOK, StallRedispatch, Work
<1>16. CASE StallEnds
  <2>1. fsm' \in EngineStates
    BY <1>16, FireBothType DEF TypeOK, StallEnds
  <2> QED
    BY <1>16, <2>1 DEF TypeOK, StallEnds, RunbookStatus
<1> QED
  BY TypeCallback, <1>1, <1>2, <1>3, <1>4, <1>5, <1>6, <1>7, <1>8, <1>9, <1>10, <1>11, <1>12, <1>13, <1>14, <1>15, <1>16 DEF SystemStep

LEMMA TypeEnvironment ==
  ASSUME TypeOK, EnvironmentFails
  PROVE  TypeOK'
<1> USE DEF engineVars, healVars, lockVars, workerVars
<1>1. ASSUME NEW p \in Phases, LaunchFails(p) PROVE TypeOK'
  BY <1>1, IncType, DecType DEF TypeOK, LaunchFails, Verdicts, Bounds
<1>2. ASSUME NEW p \in Phases, FailureSaveFails(p) PROVE TypeOK'
  BY <1>2, IncType, DecType DEF TypeOK, FailureSaveFails, SaveError, Bounds
<1>3. ASSUME NEW c \in Awaiting, CommandSaveFails(c) PROVE TypeOK'
  BY <1>3, IncType, DecType DEF TypeOK, CommandSaveFails, SaveError, Bounds
<1>4. CASE CallbackSaveFails
  BY <1>4, IncType, NoExitType DEF TypeOK, CallbackSaveFails, SaveError, Bounds
<1> QED
  BY <1>1, <1>2, <1>3, <1>4 DEF EnvironmentFails

LEMMA TypeStep == TypeOK /\ [Next]_vars => TypeOK'
<1>1. ASSUME TypeOK, UNCHANGED vars PROVE TypeOK'
  BY <1>1 DEF TypeOK, vars, engineVars, healVars, lockVars, workerVars
<1> QED
  BY <1>1, TypeUserStep, TypeSystemStep, TypeEnvironment DEF Next

\* Every variable keeps its type in every behaviour of the engine, for every
\* runbook graph and every setting of the limits.
THEOREM TypeCorrect == Spec => []TypeOK
BY TypeInit, TypeStep, PTL DEF Spec

-----------------------------------------------------------------------------
(* StartsAfterDeps.  It is not inductive by itself: the ready set of a       *)
(* dispatch was computed some steps before its phases are started, and the   *)
(* statuses it was computed from may have changed since.  What carries over  *)
(* is that dependencies which were completed then have been completed once.  *)

CompletedIsRecorded == \A p \in Phases : status[p] = "completed" => p \in everCompleted

DispatchesAreSafe ==
  \A S \in Work : dispatches[S] > 0 => \A p \in S : Deps[p] \subseteq everCompleted

SafetyInv == CompletedIsRecorded /\ DispatchesAreSafe

\* No step but the load of a stored runbook and one of dispatchReadyPhases
\* marks a phase running, and whatever is completed is recorded as such.
LEMMA StatusStep ==
  ASSUME TypeOK, [Next]_vars
  PROVE  /\ everCompleted \subseteq everCompleted'
         /\ \A p \in Phases :
              status'[p] = "completed" => status[p] = "completed" \/ p \in everCompleted'
         /\ \A p \in Phases :
              status'[p] = "running" =>
                \/ status[p] = "running"
                \/ RunbookLoaded
                \/ \E S \in Work : DispatchPhase(S) /\ p \in S
<1> DEFINE
      Goal == /\ everCompleted \subseteq everCompleted'
              /\ \A p \in Phases :
                   status'[p] = "completed" => status[p] = "completed" \/ p \in everCompleted'
              /\ \A p \in Phases :
                   status'[p] = "running" =>
                     \/ status[p] = "running"
                     \/ RunbookLoaded
                     \/ \E S \in Work : DispatchPhase(S) /\ p \in S
<1>1. CASE UNCHANGED <<status, everCompleted>>
  BY <1>1
<1>2. ASSUME NEW p \in Phases, Retry(p) PROVE Goal
  BY <1>2 DEF TypeOK, Retry
<1>3. CASE Abort
  BY <1>3 DEF TypeOK, Abort
<1>4. ASSUME NEW p \in Phases, RestartPhase(p) PROVE Goal
  BY <1>4 DEF TypeOK, RestartPhase
<1>5. ASSUME NEW p \in Phases, SkipPhase(p) PROVE Goal
  BY <1>5 DEF TypeOK, SkipPhase
<1>6. CASE RunbookLoaded
  BY <1>6, RunbooksAssumption DEF TypeOK, RunbookLoaded, WithStatus
<1>7. ASSUME NEW S \in Work, DispatchPhase(S) PROVE Goal
  <2>1. PICK p \in FirstOf(S, 1) : status' = [status EXCEPT ![p] = "running"]
    BY <1>7 DEF DispatchPhase
  <2>2. p \in S /\ p \in Phases
    BY <2>1, FirstOfOne
  <2>3. \A q \in Phases : q # p => status'[q] = status[q]
    BY <2>1 DEF TypeOK
  <2>4. status'[p] = "running" /\ everCompleted' = everCompleted
    BY <1>7, <2>1, <2>2 DEF TypeOK, DispatchPhase
  <2> QED
    BY <1>7, <2>2, <2>3, <2>4
<1>8. ASSUME NEW p \in Phases, NEW v \in Verdicts, WorkerFailed(p, v) PROVE Goal
  BY <1>8 DEF TypeOK, WorkerFailed
<1>9. CASE PassLast
  BY <1>9 DEF TypeOK, PassLast, Complete
<1>10. CASE PassInPlace
  BY <1>10 DEF TypeOK, PassInPlace, Complete
<1>11. CASE FailLast
  BY <1>11 DEF TypeOK, FailLast
<1>12. CASE FailInPlace
  BY <1>12 DEF TypeOK, FailInPlace
<1>13. CASE UserStep
  BY <1>1, <1>2, <1>3, <1>4, <1>5, <1>13 DEF UserStep, Start, Pause, Reset, ResumePending
<1>14. CASE Callback
  BY <1>1, <1>9, <1>10, <1>11, <1>12, <1>14
     DEF Callback, VerdictLost, Advance, DispatchInPlace, ArmHealTimer, ReleaseLock
<1>15. CASE SystemStep
  BY <1>1, <1>6, <1>7, <1>8, <1>14, <1>15
     DEF SystemStep, LoadRunbook, StartSaved, AbortSaved, RestartSaved, SkipSaved, SpawnWorker,
         FailureSaved, HealTimerFires, WorkerReports, ReportDropped, WorkerExited,
         StallRedispatch, StallEnds
<1>16. CASE EnvironmentFails
  BY <1>1, <1>16
     DEF EnvironmentFails, LaunchFails, FailureSaveFails, CommandSaveFails, CallbackSaveFails
<1> QED
  BY <1>1, <1>13, <1>15, <1>16 DEF Next, vars

\* A dispatch that starts now was computed from the present statuses.
LEMMA DispatchReadySafe ==
  ASSUME TypeOK, SafetyInv, DispatchReady, UNCHANGED status, UNCHANGED everCompleted
  PROVE  DispatchesAreSafe'
<1> DEFINE ready == ReadyPhases(status')
<1>1. CASE UNCHANGED dispatches
  BY <1>1 DEF SafetyInv, DispatchesAreSafe
<1>2. CASE dispatches' = Inc(dispatches, ready)
  <2>1. \A p \in ready : Deps[p] \subseteq everCompleted'
    BY ReadyPhasesReady DEF SafetyInv, CompletedIsRecorded
  <2>2. \A S \in Work : S # ready => dispatches'[S] = dispatches[S]
    BY <1>2 DEF TypeOK, Inc
  <2> QED
    BY <2>1, <2>2 DEF SafetyInv, DispatchesAreSafe
<1> QED
  BY <1>1, <1>2 DEF DispatchReady

\* No step makes dispatchReadyPhases start a phase too early.
LEMMA DispatchStep ==
  ASSUME TypeOK, SafetyInv, [Next]_vars
  PROVE  DispatchesAreSafe'
<1>1. everCompleted \subseteq everCompleted'
  BY StatusStep
<1>2. CASE UNCHANGED dispatches
  BY <1>1, <1>2 DEF SafetyInv, DispatchesAreSafe
<1>3. CASE StartSaved
  BY <1>3, DispatchReadySafe DEF StartSaved
<1>4. CASE RestartSaved
  BY <1>4, DispatchReadySafe DEF RestartSaved
<1>5. CASE Advance
  <2>1. CASE UNCHANGED dispatches
    BY <2>1, <1>2
  <2>2. CASE DispatchReady
    BY <1>5, <2>2, DispatchReadySafe DEF Advance
  <2> QED
    BY <1>5, <2>1, <2>2 DEF Advance
<1>6. CASE DispatchInPlace
  BY <1>6, DispatchReadySafe DEF DispatchInPlace
<1>7. ASSUME NEW S \in Work, DispatchPhase(S) PROVE DispatchesAreSafe'
  <2>1. PICK p \in FirstOf(S, 1) :
          dispatches' = IF S = {p} THEN Dec(dispatches, S) ELSE Inc(Dec(dispatches, S), S \ {p})
    BY <1>7 DEF DispatchPhase
  <2>2. \A T \in Work : T # S \ {p} => dispatches'[T] <= dispatches[T]
    BY <2>1 DEF TypeOK, Inc, Dec
  <2>3. \A q \in S : Deps[q] \subseteq everCompleted
    BY <1>7 DEF SafetyInv, DispatchesAreSafe, DispatchPhase
  <2>4. ASSUME NEW T \in Work, dispatches'[T] > 0
        PROVE  \A q \in T : Deps[q] \subseteq everCompleted'
    <3>1. CASE T = S \ {p}
      BY <3>1, <2>3, <1>1
    <3>2. CASE T # S \ {p}
      <4>1. dispatches'[T] \in Nat /\ dispatches[T] \in Nat
        BY TypeStep DEF TypeOK
      <4> QED
        BY <1>1, <2>2, <2>4, <3>2, <4>1 DEF SafetyInv, DispatchesAreSafe
    <3> QED
      BY <3>1, <3>2
  <2> QED
    BY <2>4 DEF DispatchesAreSafe
<1>8. CASE StallRedispatch
  BY <1>8, DispatchReadySafe DEF StallRedispatch, DispatchReady, Stalled
<1>9. CASE UserStep
  BY <1>2, <1>9 DEF UserStep, Start, Pause, Abort, Reset, ResumePending, Retry, RestartPhase, SkipPhase
<1>10. CASE Callback
  BY <1>2, <1>5, <1>6, <1>10
     DEF Callback, PassLast, PassInPlace, FailLast, FailInPlace, VerdictLost, ArmHealTimer, ReleaseLock
<1>11. CASE SystemStep
  BY <1>2, <1>3, <1>4, <1>7, <1>8, <1>10, <1>11
     DEF SystemStep, LoadRunbook, RunbookLoaded, AbortSaved, SkipSaved, SpawnWorker, FailureSaved,
         HealTimerFires, WorkerReports, ReportDropped, WorkerExited, WorkerFailed, StallEnds
<1>12. CASE EnvironmentFails
  BY <1>2, <1>12
     DEF EnvironmentFails, LaunchFails, FailureSaveFails, CommandSaveFails, CallbackSaveFails
<1> QED
  BY <1>2, <1>9, <1>11, <1>12 DEF Next, vars

LEMMA SafetyInit == Init => SafetyInv
BY DEF Init, SafetyInv, CompletedIsRecorded, DispatchesAreSafe, None

LEMMA SafetyStep == TypeOK /\ SafetyInv /\ [Next]_vars => SafetyInv'
BY StatusStep, DispatchStep DEF SafetyInv, CompletedIsRecorded

THEOREM SafetyHolds == Spec => []SafetyInv
BY SafetyInit, SafetyStep, TypeCorrect, PTL DEF Spec

\* For every runbook graph, limit, command sequence and failure: a phase is
\* marked running only after each of its dependencies has been completed.
THEOREM StartsAfterDepsHolds == Spec => StartsAfterDeps
<1> DEFINE
      Started(p) == status[p] # "running" /\ status'[p] = "running" /\ awaits'["load"] >= awaits["load"]
<1>1. ASSUME TypeOK, SafetyInv, [Next]_vars, NEW p \in Phases, Started(p)
      PROVE  Deps[p] \subseteq everCompleted
  <2>1. ~RunbookLoaded
    BY <1>1, AwaitingElements DEF TypeOK, RunbookLoaded, Dec
  <2>2. PICK S \in Work : DispatchPhase(S) /\ p \in S
    BY <1>1, <2>1, StatusStep
  <2> QED
    BY <1>1, <2>2 DEF SafetyInv, DispatchesAreSafe, DispatchPhase
<1>2. TypeOK /\ SafetyInv /\ [Next]_vars => [\A p \in Phases : Started(p) => Deps[p] \subseteq everCompleted]_vars
  BY <1>1
<1> QED
  BY <1>2, TypeCorrect, SafetyHolds, PTL DEF Spec, StartsAfterDeps

-----------------------------------------------------------------------------
(* AbortIsFinal.  An abort leaves the engine in IDLE, whose only ways out    *)
(* are a load and the user's commands; what workers, timers, dispatches and  *)
(* the watchdog fire is not listed there.  The exception is skipPhase, which *)
(* fires START after its persist(): aborted meanwhile, it starts the run     *)
(* again.  The theorem is for users who do not skip.                         *)

\* The events the workers' callbacks, the watchdog and a load's end fire.
LateEvents == {"PARSE_SUCCESS", "PARSE_FAILURE", "WORKER_EXITED", "WORKER_TIMEOUT", "WORKER_CRASH",
               "PHASE_PASS", "PHASE_FAIL", "ALL_PHASES_PASS"}

LEMMA IdleStays ==
  ASSUME NEW e \in LateEvents
  PROVE  Fire("IDLE", e) = "IDLE"
BY DEF LateEvents, Fire, Accepts, Transitions

LEMMA IdleStaysBoth ==
  ASSUME NEW e1 \in LateEvents, NEW e2 \in LateEvents
  PROVE  FireBoth("IDLE", e1, e2) = "IDLE"
BY IdleStays DEF FireBoth

NoSkipSaved == awaits["skip"] = 0

LEMMA NoSkipStep ==
  ASSUME "skip" \notin Commands, TypeOK, NoSkipSaved, [Next]_vars
  PROVE  NoSkipSaved'
<1> USE DEF engineVars, healVars, lockVars, workerVars, NoSkipSaved
<1>1. ASSUME NEW p \in Phases, SkipPhase(p) PROVE FALSE
  BY <1>1 DEF SkipPhase, UserCommand
<1>2. UserStep => awaits'["skip"] = 0
  BY <1>1 DEF TypeOK, Awaiting, Inc, UserStep, Start, Pause, Abort, Reset, ResumePending, Retry, RestartPhase
<1>3. Callback => awaits'["skip"] = 0
  BY DEF Callback, PassLast, PassInPlace, FailLast, FailInPlace, VerdictLost, Advance,
         DispatchInPlace, ArmHealTimer, ReleaseLock
<1>4. ASSUME NEW c \in Awaiting \ {"skip"}, awaits' \in {Inc(awaits, c), Dec(awaits, c), awaits}
      PROVE  awaits'["skip"] = 0
  BY <1>4, AwaitingElements DEF TypeOK, Inc, Dec
<1>5. LoadRunbook \/ RunbookLoaded => awaits'["skip"] = 0
  BY <1>4, AwaitingElements DEF LoadRunbook, RunbookLoaded
<1>6. StartSaved \/ RestartSaved \/ AbortSaved => awaits'["skip"] = 0
  BY <1>4, AwaitingElements DEF StartSaved, RestartSaved, AbortSaved
<1>7. ~SkipSaved
  BY DEF SkipSaved
<1>8. ASSUME NEW c \in Awaiting, CommandSaveFails(c) PROVE awaits'["skip"] = 0
  BY <1>4, <1>8 DEF CommandSaveFails
<1>9. UNCHANGED awaits => awaits'["skip"] = 0
  OBVIOUS
<1>10. SystemStep => awaits'["skip"] = 0
  BY <1>3, <1>5, <1>6, <1>7, <1>9
     DEF SystemStep, DispatchPhase, SpawnWorker, FailureSaved, HealTimerFires,
         WorkerReports, ReportDropped, WorkerExited, WorkerFailed, StallRedispatch, StallEnds
<1>11. EnvironmentFails => awaits'["skip"] = 0
  BY <1>8, <1>9 DEF EnvironmentFails, LaunchFails, FailureSaveFails, CallbackSaveFails
<1> QED
  BY <1>2, <1>10, <1>11 DEF Next, vars

LEMMA NoSkipHolds ==
  ASSUME "skip" \notin Commands
  PROVE  Spec => []NoSkipSaved
<1>1. Init => NoSkipSaved
  BY DEF Init, NoSkipSaved, None, Awaiting
<1>2. TypeOK /\ NoSkipSaved /\ [Next]_vars => NoSkipSaved'
  BY NoSkipStep
<1> QED
  BY <1>1, <1>2, TypeCorrect, PTL DEF Spec

\* A user's command is counted.
LEMMA CommandCounts ==
  ASSUME TypeOK, UserStep
  PROVE  used'["command"] > used["command"]
<1>1. ASSUME NEW c, UserCommand(c) PROVE used'["command"] > used["command"]
  BY <1>1 DEF TypeOK, UserCommand, Inc, Bounds
<1> QED
  BY <1>1 DEF UserStep, Start, Pause, Abort, Reset, ResumePending, Retry, RestartPhase, SkipPhase

\* No verdict, timer, dispatch or watchdog tick makes the engine leave IDLE.
LEMMA IdleStep ==
  ASSUME TypeOK, NoSkipSaved, SystemStep \/ EnvironmentFails, fsm = "IDLE",
         ~(awaits'["load"] > awaits["load"])
  PROVE  fsm' = "IDLE"
<1> USE DEF engineVars, healVars, lockVars, workerVars
<1>1. ~LoadRunbook
  BY DEF TypeOK, LoadRunbook, Inc, Awaiting
<1>2. ~SkipSaved
  BY DEF SkipSaved, NoSkipSaved
<1>3. RunbookLoaded => fsm' = "IDLE"
  BY IdleStays DEF RunbookLoaded, LateEvents
<1>4. ASSUME NEW p \in Phases, ExecutePhase(p) PROVE fsm' = "IDLE"
  BY <1>4 DEF ExecutePhase
<1>5. ASSUME NEW S \in Work, DispatchPhase(S) PROVE fsm' = "IDLE"
  BY <1>4, <1>5, FirstOfOne DEF DispatchPhase
<1>6. ASSUME NEW p \in Phases, HealTimerFires(p) PROVE fsm' = "IDLE"
  BY <1>4, <1>6 DEF HealTimerFires
<1>7. ASSUME NEW p \in Phases, NEW v \in Verdicts, WorkerFailed(p, v) PROVE fsm' = "IDLE"
  BY <1>7, IdleStays DEF WorkerFailed, LateEvents
<1>8. Callback => fsm' = "IDLE"
  BY IdleStays, IdleStaysBoth
     DEF LateEvents, Callback, PassLast, PassInPlace, FailLast, FailInPlace, VerdictLost, Advance,
         DispatchInPlace, ArmHealTimer, ReleaseLock
<1>9. StallEnds => fsm' = "IDLE"
  BY IdleStaysBoth DEF StallEnds, LateEvents
<1>10. SystemStep => fsm' = "IDLE"
  BY <1>1, <1>2, <1>3, <1>5, <1>6, <1>7, <1>8, <1>9
     DEF SystemStep, StartSaved, AbortSaved, RestartSaved, SpawnWorker, FailureSaved, WorkerReports,
         ReportDropped, WorkerExited, StallRedispatch
<1>11. EnvironmentFails => fsm' = "IDLE"
  BY DEF EnvironmentFails, LaunchFails, FailureSaveFails, CommandSaveFails, CallbackSaveFails
<1> QED
  BY <1>10, <1>11

\* Engine.abort is final: in every graph, with every limit and interleaving, what
\* was under way when the user aborted does not make the engine leave IDLE.
THEOREM AbortIsFinalHolds ==
  ASSUME "skip" \notin Commands
  PROVE  Spec => AbortIsFinal
<1> DEFINE
      Left == fsm = "IDLE" /\ fsm' # "IDLE"
      Asked == used'["command"] > used["command"] \/ awaits'["load"] > awaits["load"]
<1>1. TypeOK /\ NoSkipSaved /\ [Next]_vars => [Left => Asked]_vars
  BY CommandCounts, IdleStep DEF Next, vars, engineVars
<1> QED
  BY <1>1, NoSkipHolds, TypeCorrect, PTL DEF Spec, AbortIsFinal
=============================================================================
