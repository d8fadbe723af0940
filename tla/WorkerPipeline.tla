---------------------------- MODULE WorkerPipeline ----------------------------
(***************************************************************************)
(* From phase:execute to the verdict: executePhase, WorkerLauncher, the    *)
(* output handlers of EngineWiring with the output buffers, and            *)
(* WorkerResultProcessor with the handoff tool it calls.                   *)
(*                                                                         *)
(* An attempt at a phase is a number.  Output is the set of the attempts   *)
(* that wrote it; json is the attempt whose handoff block is the last one  *)
(* in it, and it is the block that a pattern of the criterion matches.     *)
(* The engine and the sessions are reduced to what reaches this code:      *)
(* phases run when their parents have completed, fail and are healed       *)
(* (Engine), and a session is stopped without an event when another worker *)
(* takes its phase (AdkController).  A session writes nothing once it is   *)
(* cancelled.  The cap that cuts the middle out of an output keeps its     *)
(* last block, and is left out.                                            *)
(***************************************************************************)
EXTENDS Naturals, FiniteSets, Evaluators, ToolPolicy

CONSTANTS
  PhaseSet,
  DependsOn,   \* per phase: depends_on
  Judged,      \* per phase: [criterion, evaluator, evaluators]
  PolicyOf,    \* per phase: allowed_tools_policy of the profile that fits it best
  Enforcement, \* enforcementMode of the workspace policy
  MaxAttempts, \* bound: executePhase calls per phase
  MaxAborts    \* bound: aborts of the run

ASSUME DependsOnAssumption == DependsOn \in [PhaseSet -> SUBSET PhaseSet]
ASSUME MaxAttemptsAssumption == MaxAttempts \in Nat \ {0}
ASSUME MaxAbortsAssumption == MaxAborts \in Nat

VARIABLES
  status,    \* phase.status
  attempts,  \* executePhase calls so far
  launching, \* per phase: its executePhase calls before spawnWorker, <<attempt, step>>
  worker,    \* activeWorkers: the attempt that is running, or 0
  output,    \* workerOutputAccumulator: [by, json]
  buffer,    \* OutputBuffer: what the panel has not been sent
  interval,  \* phases with an entry in flushIntervals
  stored,    \* worker_outputs: the attempts in the stored output
  jobs,      \* results on their way through WorkerResultProcessor
  handoff,   \* the stored handoff: the attempt that wrote it, 0 a sentinel or an empty one
  plan,      \* the stored implementation plan: the attempt it is of, or 0
  missing,   \* history: <<child, parent>> where a launch found no handoff of the parent
  noReport,  \* history: <<phase, why>> of attempts whose handoff was not stored
  replaced,  \* history: phases with a worker that another one has taken the place of
  workerCtx, \* currentWorkerCtx: the last attempt launched, <<phase, attempt>>, or NoWorker
  aborts

outputVars == <<output, buffer, interval>>
dbVars == <<stored, handoff, plan>>
historyVars == <<missing, noReport, replaced>>
pipelineVars == <<status, attempts, launching, worker, outputVars, jobs, dbVars, historyVars, workerCtx, aborts>>

Attempts == 1..MaxAttempts
NoHandoff == MaxAttempts + 1
Silence == [by |-> {}, json |-> 0]
Ends == {"zero", "one", "failure"}
JobSteps == {"submit", "plan", "report"}
NoWorker == <<>>
Reasons == {"refused", "nonzero", "denied", "own"}
Jobs == [phase : PhaseSet, attempt : 0..MaxAttempts, end : Ends, by : SUBSET Attempts,
         json : 0..MaxAttempts, step : JobSteps]

PipelineTypeOK ==
  /\ status \in [PhaseSet -> {"pending", "running", "completed", "failed"}]
  /\ attempts \in [PhaseSet -> 0..MaxAttempts]
  /\ launching \in [PhaseSet -> SUBSET (Attempts \X {"assemble", "build", "spawn"})]
  /\ worker \in [PhaseSet -> 0..MaxAttempts]
  /\ output \in [PhaseSet -> [by : SUBSET Attempts, json : 0..MaxAttempts]]
  /\ buffer \in [PhaseSet -> SUBSET Attempts]
  /\ interval \in SUBSET PhaseSet
  /\ stored \in [PhaseSet -> SUBSET Attempts]
  /\ jobs \in SUBSET Jobs
  /\ handoff \in [PhaseSet -> 0..NoHandoff]
  /\ plan \in [PhaseSet -> 0..MaxAttempts]
  /\ missing \in SUBSET (PhaseSet \X PhaseSet)
  /\ noReport \in SUBSET (PhaseSet \X Reasons) /\ replaced \in SUBSET PhaseSet
  /\ workerCtx \in (PhaseSet \X Attempts) \cup {NoWorker}
  /\ aborts \in 0..MaxAborts

PipelineInit ==
  /\ status = [p \in PhaseSet |-> "pending"]
  /\ attempts = [p \in PhaseSet |-> 0]
  /\ launching = [p \in PhaseSet |-> {}]
  /\ worker = [p \in PhaseSet |-> 0]
  /\ output = [p \in PhaseSet |-> Silence]
  /\ buffer = [p \in PhaseSet |-> {}]
  /\ interval = {}
  /\ stored = [p \in PhaseSet |-> {}]
  /\ jobs = {}
  /\ handoff = [p \in PhaseSet |-> NoHandoff]
  /\ plan = [p \in PhaseSet |-> 0]
  /\ missing = {} /\ noReport = {} /\ replaced = {}
  /\ workerCtx = NoWorker
  /\ aborts = 0

-----------------------------------------------------------------------------
(* Launch *)

\* phase:execute or phase:heal, up to the awaits of executePhase.
ExecutePhase(p) ==
  /\ \/ status[p] = "pending" /\ \A q \in DependsOn[p] : status[q] = "completed"
     \/ status[p] = "failed"
  /\ attempts[p] < MaxAttempts
  /\ status' = [status EXCEPT ![p] = "running"]
  /\ attempts' = [attempts EXCEPT ![p] = @ + 1]
  /\ launching' = [launching EXCEPT ![p] = @ \cup {<<attempts'[p], "assemble">>}]
  /\ UNCHANGED <<worker, outputVars, jobs, dbVars, historyVars, workerCtx, aborts>>

\* onWorkerFailed acts on a running phase only.
FailedStatus(p) == [status EXCEPT ![p] = IF @ = "running" THEN "failed" ELSE @]

\* assembleContext: over the token budget, the phase fails without a worker.
AssembleContext(p) ==
  \E l \in launching[p] :
    /\ l[2] = "assemble"
    /\ \/ /\ launching' = [launching EXCEPT ![p] = (@ \ {l}) \cup {<<l[1], "build">>}]
          /\ UNCHANGED status
       \/ /\ launching' = [launching EXCEPT ![p] = @ \ {l}]
          /\ status' = FailedStatus(p)
    /\ UNCHANGED <<attempts, worker, outputVars, jobs, dbVars, historyVars, workerCtx, aborts>>

\* buildNextContext: the parents whose section says that no report was found.
NoReportFound(p) == {q \in DependsOn[p] : handoff[q] = NoHandoff}

\* WorkerLauncher.launch reads the parents' handoffs, builds the prompt and sets the context
\* by which tool calls are judged; the profiles are loaded by then.
Launch(p) ==
  \E l \in launching[p] :
    /\ l[2] = "build"
    /\ missing' = missing \cup ({p} \X NoReportFound(p))
    /\ launching' = [launching EXCEPT ![p] = (@ \ {l}) \cup {<<l[1], "spawn">>}]
    /\ workerCtx' = <<p, l[1]>>
    /\ UNCHANGED <<status, attempts, worker, outputVars, jobs, dbVars, noReport, replaced, aborts>>

\* spawnWorker terminates the phase's old worker; no event tells the wiring.
SpawnWorker(p) ==
  \E l \in launching[p] :
    /\ l[2] = "spawn"
    /\ launching' = [launching EXCEPT ![p] = @ \ {l}]
    /\ worker' = [worker EXCEPT ![p] = l[1]]
    /\ replaced' = IF worker[p] = 0 THEN replaced ELSE replaced \cup {p}
    /\ UNCHANGED <<status, attempts, outputVars, jobs, dbVars, missing, noReport, workerCtx, aborts>>

\* The workers of an aborted run go on; their results find no running phase.
Abort ==
  /\ aborts < MaxAborts
  /\ aborts' = aborts + 1
  /\ status' = [p \in PhaseSet |-> IF status[p] = "running" THEN "pending" ELSE status[p]]
  /\ UNCHANGED <<attempts, launching, worker, outputVars, jobs, dbVars, historyVars, workerCtx>>

-----------------------------------------------------------------------------
(* Output *)

WorkerOutput(p) ==
  /\ worker[p] # 0
  /\ \E json \in {output[p].json, worker[p]} :
       output' = [output EXCEPT ![p] = [by |-> @.by \cup {worker[p]}, json |-> json]]
  /\ buffer' = [buffer EXCEPT ![p] = @ \cup {worker[p]}]
  /\ interval' = interval \cup {p}
  /\ UNCHANGED <<status, attempts, launching, worker, jobs, dbVars, historyVars, workerCtx, aborts>>

\* OutputBuffer.flush: its timer, or 4096 characters.
FlushBuffer(p) ==
  /\ buffer[p] # {}
  /\ buffer' = [buffer EXCEPT ![p] = {}]
  /\ UNCHANGED <<status, attempts, launching, worker, output, interval, jobs, dbVars, historyVars, workerCtx, aborts>>

IncrementalFlush(p) ==
  /\ p \in interval
  /\ output[p].by # {}
  /\ stored' = [stored EXCEPT ![p] = output[p].by]
  /\ UNCHANGED <<status, attempts, launching, worker, outputVars, jobs, handoff, plan, historyVars, workerCtx, aborts>>

\* Mutants of Drain: what was accumulated, buffered or scheduled is left behind.
DrainKeepsOutput(p) ==
  /\ buffer' = [buffer EXCEPT ![p] = {}] /\ interval' = interval \ {p} /\ UNCHANGED output

\* OutputBufferRegistry.flushAndRemove
FlushAndRemove(p) == buffer' = [buffer EXCEPT ![p] = {}]

\* drainWorkerAccumulators
Drain(p) ==
  /\ interval' = interval \ {p}
  /\ FlushAndRemove(p)
  /\ output' = [output EXCEPT ![p] = Silence]

-----------------------------------------------------------------------------
(* The end of a worker *)

Job(p, end, step) ==
  [phase |-> p, attempt |-> worker[p], end |-> end, by |-> output[p].by, json |-> output[p].json, step |-> step]

StoreOutput(p) == stored' = IF output[p].by = {} THEN stored ELSE [stored EXCEPT ![p] = output[p].by]

\* processWorkerExit up to its first await.  Only an exit with zero stores the output and
\* is followed by a handoff.
ProcessWorkerExit(p) ==
  /\ worker[p] # 0
  /\ \/ /\ jobs' = jobs \cup {Job(p, "zero", "submit")}
        /\ StoreOutput(p)
        /\ UNCHANGED noReport
     \/ /\ jobs' = jobs \cup {Job(p, "one", "report")}
        /\ noReport' = noReport \cup {<<p, "nonzero">>}
        /\ UNCHANGED stored
  /\ worker' = [worker EXCEPT ![p] = 0]
  /\ Drain(p)
  /\ UNCHANGED <<status, attempts, launching, handoff, plan, missing, replaced, aborts>>

\* Mutant of WorkerExits: the context stays.
WorkerExitsKeepsContext(p) == ProcessWorkerExit(p) /\ UNCHANGED workerCtx

\* worker:exited: the context is cleared, whoever's it is.
WorkerExits(p) == ProcessWorkerExit(p) /\ workerCtx' = NoWorker

\* worker:timeout or worker:crash, which are handled alike, and processWorkerFailure up to
\* its first await.  The context stays.
WorkerFails(p) ==
  /\ worker[p] # 0
  /\ jobs' = jobs \cup {Job(p, "failure", "submit")}
  /\ StoreOutput(p)
  /\ worker' = [worker EXCEPT ![p] = 0]
  /\ Drain(p)
  /\ UNCHANGED <<status, attempts, launching, handoff, plan, historyVars, workerCtx, aborts>>

\* extractHandoff: the last block of the output, or an empty report.
Extracted(j) == j.json

\* After a timeout or a crash only the files of that report are kept.
Sentinel == 0

\* The limits of MCPValidator and WorkerOutputValidator on numbers, lengths and
\* characters: only a report that a worker has written can break them.
MayBeInvalid(j) == j.json # 0

\* What the bridge sends for the phase.
Submitted(j) == IF j.end = "zero" THEN Extracted(j) ELSE Sentinel

\* submit_phase_handoff stores the report and flushes.
HandoffStored(j) ==
  /\ handoff' = [handoff EXCEPT ![j.phase] = Submitted(j)]
  /\ UNCHANGED noReport

\* Or its validation throws: the tool answers with isError, which callTool returns like
\* any other result.
HandoffRefused(j) ==
  /\ MayBeInvalid(j)
  /\ noReport' = noReport \cup {<<j.phase, "refused">>}
  /\ UNCHANGED handoff

\* The gateway judges a call of the host by the context that is set at the moment.
Judge == IF workerCtx = NoWorker THEN NoPolicy ELSE PolicyOf[workerCtx[1]]
Permits(tool) == EvaluateInvocation(Judge, Enforcement, tool)

\* Is the worker that has exited still the one by whose policy calls are judged?
OutlivesExit(j) == j.end = "zero" /\ workerCtx = <<j.phase, j.attempt>>

\* A denial is a result with isError as well.
HandoffDenied(j) ==
  /\ noReport' = noReport \cup {<<j.phase, IF OutlivesExit(j) THEN "own" ELSE "denied">>}
  /\ UNCHANGED handoff

Proceed(j, step) == jobs' = (jobs \ {j}) \cup {[j EXCEPT !.step = step]}

SubmitPhaseHandoff(j) ==
  /\ j.step = "submit"
  /\ IF Permits("submit_phase_handoff") THEN HandoffStored(j) \/ HandoffRefused(j) ELSE HandoffDenied(j)
  /\ Proceed(j, IF j.end = "zero" THEN "plan" ELSE "report")
  /\ UNCHANGED <<status, attempts, launching, worker, outputVars, stored, plan, missing, replaced, workerCtx, aborts>>

\* extractImplementationPlan: none when the phase has one, so a retry does not replace it.
PlanFound(j) == j.by # {} /\ plan[j.phase] = 0

\* submit_execution_plan of what was found; it is refused or denied as a handoff is.
SubmitPlan(j) ==
  /\ j.step = "plan"
  /\ Proceed(j, "report")
  /\ \/ UNCHANGED plan
     \/ PlanFound(j) /\ Permits("submit_execution_plan") /\ plan' = [plan EXCEPT ![j.phase] = j.attempt]
  /\ UNCHANGED <<status, attempts, launching, worker, outputVars, stored, handoff, historyVars, workerCtx, aborts>>

\* onWorkerExited is given the exit code alone: the evaluators see no output.
Verdict(j) ==
  \E command \in CommandEnds :
    status' = [status EXCEPT ![j.phase] =
      IF @ # "running" THEN @
      ELSE IF Passes(Judged[j.phase], IF j.end = "zero" THEN 0 ELSE 1, {}, command)
           THEN "completed" ELSE "failed"]

WriteReport(j) ==
  /\ j.step = "report"
  /\ IF j.end \in {"zero", "one"} THEN Verdict(j) ELSE status' = FailedStatus(j.phase)
  /\ jobs' = jobs \ {j}
  /\ UNCHANGED <<attempts, launching, worker, outputVars, dbVars, historyVars, workerCtx, aborts>>

PipelineNext ==
  \/ \E p \in PhaseSet :
       \/ ExecutePhase(p) \/ AssembleContext(p) \/ Launch(p) \/ SpawnWorker(p)
       \/ WorkerOutput(p) \/ FlushBuffer(p) \/ IncrementalFlush(p) \/ WorkerExits(p) \/ WorkerFails(p)
  \/ \E j \in jobs : SubmitPhaseHandoff(j) \/ SubmitPlan(j) \/ WriteReport(j)
  \/ Abort

PipelineSpec == PipelineInit /\ [][PipelineNext]_pipelineVars

-----------------------------------------------------------------------------
(* Properties                                                              *)

\* Whatever timeouts, crashes and retries follow each other on a phase, the output and
\* the handoff block that are processed for an attempt are its own; only a worker that
\* was replaced, of whose end no event tells, leaves its output to the next one. When a
\* worker has ended the panel has been sent all it wrote, and no interval is left to
\* overwrite what a later attempt has stored.
OutputIsOwn ==
  /\ \A j \in jobs : j.phase \in replaced \/ (j.by \subseteq {j.attempt} /\ j.json \in {0, j.attempt})
  /\ \A p \in PhaseSet : worker[p] = 0 => buffer[p] = {} /\ p \notin interval /\ output[p] = Silence

\* A phase is launched with the handoff, or the sentinel, of every parent, but where the
\* tool has refused one, the parent was passed on a non-zero exit, or the tool policy has
\* denied it: the policy of a worker launched since, or of the parent itself after a
\* timeout or a crash.  The policy of a worker that exits never judges its own handoff.
ParentsReported ==
  \A m \in missing : \E why \in Reasons \ {"own"} : <<m[2], why>> \in noReport
=============================================================================
