---------------------------- MODULE Consolidation ----------------------------
(***************************************************************************)
(* After a run: EngineWiring starts a worker in a conversation of its own  *)
(* that is to submit the report; when it is not to be had, or the report   *)
(* is not, ConsolidationAgent writes one in process.                       *)
(*                                                                         *)
(* A run is a number; its report carries the number.  The task is the one  *)
(* of the session that is open, which the user may change at any time, as  *)
(* he may the conversation mode.                                           *)
(***************************************************************************)
EXTENDS Naturals, FiniteSets

CONSTANTS
  Tasks,   \* sessions
  Runs,    \* bound: completed runs, numbered from 1
  Modes,   \* conversation modes
  Isolated \* the mode consolidation asks for

ASSUME RunsAssumption == Runs \subseteq Nat \ {0}
ASSUME ModesAssumption == Isolated \in Modes

VARIABLES
  openTask, \* getSessionDirName()
  mode,     \* adkController.conversationSettings.mode
  chosen,   \* history: the modes the user has chosen
  overlap,  \* history: a consolidation began while another one was being spawned
  cons,     \* per run: [step, task, saved]
  report    \* per task: the run whose report is stored, or 0

consVars == <<openTask, mode, chosen, overlap, cons, report>>

Steps == {"none", "spawning", "running", "reading", "generating", "saving", "shown", "failed"}

ConsTypeOK ==
  /\ openTask \in Tasks /\ mode \in Modes /\ chosen \in SUBSET Modes /\ overlap \in BOOLEAN
  /\ cons \in [Runs -> [step : Steps, task : Tasks, saved : Modes]]
  /\ report \in [Tasks -> Runs \cup {0}]

ConsInit ==
  /\ openTask \in Tasks
  /\ mode \in Modes /\ chosen = {mode} /\ overlap = FALSE
  /\ cons = [r \in Runs |-> [step |-> "none", task |-> openTask, saved |-> mode]]
  /\ report = [t \in Tasks |-> 0]

At(r, step) == cons[r].step = step
Go(r, step) == cons' = [cons EXCEPT ![r].step = step]
Spawning == {r \in Runs : At(r, "spawning")}

SetConversationMode ==
  /\ \E m \in Modes : mode' = m /\ chosen' = chosen \cup {m}
  /\ UNCHANGED <<openTask, overlap, cons, report>>

OpenSession ==
  /\ \E t \in Tasks : openTask' = t
  /\ UNCHANGED <<mode, chosen, overlap, cons, report>>

\* run:consolidate of the next run, up to the await of spawnWorker.
StartConsolidation(r) ==
  /\ At(r, "none") /\ \A q \in Runs : q < r => ~At(q, "none")
  /\ cons' = [cons EXCEPT ![r] = [step |-> "spawning", task |-> openTask, saved |-> mode]]
  /\ mode' = Isolated
  /\ overlap' = (overlap \/ Spawning # {})
  /\ UNCHANGED <<openTask, chosen, report>>

\* Mutant: a spawn that fails leaves the override.
SpawnSettlesOnce(r) ==
  /\ At(r, "spawning")
  /\ \/ mode' = cons[r].saved /\ Go(r, "running")
     \/ UNCHANGED mode /\ Go(r, "generating")
  /\ UNCHANGED <<openTask, chosen, overlap, report>>

\* A worker, or none: at the limit of workers, or after an error.
SpawnSettles(r) ==
  /\ At(r, "spawning")
  /\ mode' = cons[r].saved
  /\ Go(r, "running") \/ Go(r, "generating")
  /\ UNCHANGED <<openTask, chosen, overlap, report>>

\* The worker calls submit_consolidation_report.
WorkerSubmits(r) ==
  /\ At(r, "running")
  /\ report' = [report EXCEPT ![cons[r].task] = r]
  /\ UNCHANGED <<openTask, mode, chosen, overlap, cons>>

\* worker:exited of phase 9999, whatever its code: the report of the session that
\* is open now is read.
ConsolidatorExits(r) ==
  /\ At(r, "running")
  /\ cons' = [cons EXCEPT ![r].step = "reading", ![r].task = openTask]
  /\ UNCHANGED <<openTask, mode, chosen, overlap, report>>

\* worker:timeout and worker:crash are only logged.
ConsolidatorFails(r) ==
  /\ At(r, "running")
  /\ Go(r, "failed")
  /\ UNCHANGED <<openTask, mode, chosen, overlap, report>>

\* Mutant: nothing follows a report that cannot be read.
ReadReportOnly(r) ==
  /\ At(r, "reading") /\ report[cons[r].task] # 0
  /\ Go(r, "shown")
  /\ UNCHANGED <<openTask, mode, chosen, overlap, report>>

\* readResource throws when no report is stored: the fallback.
ReadReport(r) ==
  /\ At(r, "reading")
  /\ Go(r, IF report[cons[r].task] # 0 THEN "shown" ELSE "generating")
  /\ UNCHANGED <<openTask, mode, chosen, overlap, report>>

\* generateReport reads the handoffs, each that is missing being passed over.
GenerateReport(r) ==
  /\ At(r, "generating")
  /\ Go(r, "saving")
  /\ UNCHANGED <<openTask, mode, chosen, overlap, report>>

\* saveReport; a report over the tool's limit is refused, and shown all the same.
SaveReport(r) ==
  /\ At(r, "saving")
  /\ report' \in {report, [report EXCEPT ![cons[r].task] = r]}
  /\ Go(r, "shown")
  /\ UNCHANGED <<openTask, mode, chosen, overlap>>

Advances(r) == SpawnSettles(r) \/ ReadReport(r) \/ GenerateReport(r) \/ SaveReport(r)

ConsNext ==
  \/ SetConversationMode \/ OpenSession
  \/ \E r \in Runs :
       \/ StartConsolidation(r) \/ SpawnSettles(r)
       \/ WorkerSubmits(r) \/ ConsolidatorExits(r) \/ ConsolidatorFails(r)
       \/ ReadReport(r) \/ GenerateReport(r) \/ SaveReport(r)

\* Every call settles, and the controller's timers end every worker.
ConsFairness ==
  \A r \in Runs :
    /\ WF_consVars(Advances(r))
    /\ WF_consVars(ConsolidatorExits(r) \/ ConsolidatorFails(r))

ConsSpec == ConsInit /\ [][ConsNext]_consVars /\ ConsFairness

-----------------------------------------------------------------------------
(* Properties                                                              *)

\* The override ends with the spawn, whether that succeeds or not: outside of one, the
\* mode is one the user has chosen (two consolidations at once keep each other's override).
OverrideEnds == Spawning = {} /\ ~overlap => mode \in chosen

\* A run that is over gets a report on the panel, whichever of the worker, its spawn and
\* the reading of its report fails, unless the worker times out or crashes.
ReportIsShown ==
  \A r \in Runs : At(r, "spawning") ~> At(r, "shown") \/ At(r, "failed")
=============================================================================
