----------------------------- MODULE WorkerProofs -----------------------------
(***************************************************************************)
(* What a worker's run gives, for any number of phases, files, attempts,   *)
(* faults and aborts: a response read from a file is whole (FileSession);  *)
(* an attempt's output is its own, and a phase starts with something of    *)
(* every parent (WorkerPipeline); the consolidation's change of the        *)
(* conversation mode ends with its spawn (Consolidation); only the planner *)
(* gets a compiled prompt (AgentSelection); the context keeps the phase's  *)
(* own files (Context), and the manifest tells what the pack holds         *)
(* (ContextPack).                                                          *)
(***************************************************************************)
EXTENDS FileSession, WorkerPipeline, Consolidation, AgentSelection, Context, ContextPack,
        TLAPS, FunctionTheorems, FiniteSetTheorems, SequenceTheorems

-----------------------------------------------------------------------------
(* The response of a file session.  What the watcher compares is old: the  *)
(* size was seen when the stat was made, the clock is read when its answer *)
(* comes.  The invariant ties the two: the sample was taken at most        *)
(* MaxDelay ago, and the size it shows, when it is the last one seen and   *)
(* not the whole, was at most MaxGap old.                                  *)

Quick == MaxGap + MaxDelay < Threshold

\* What was seen is not ahead of what is.
SeenIsPast ==
  /\ lastSize <= size /\ sample.size <= size
  /\ lastWrite <= now /\ lastSizeTime <= now /\ sample.at <= now

\* A size that is still the file's was reached before it was seen.
SeenAfterWrite ==
  /\ lastSize = size /\ size > 0 => lastWrite <= lastSizeTime
  /\ sample.size = size => lastWrite <= sample.at

\* The agent's and the stat's deadlines.
Deadlines ==
  /\ size \in 1..(Whole - 1) => now <= lastWrite + MaxGap
  /\ check = "stat" => now <= sample.at + MaxDelay

\* A part of the response that is sampled again was seen no longer than a pause ago.
SampleIsFresh ==
  check = "stat" /\ sample.size = lastSize /\ sample.size \in 1..(Whole - 1)
    => sample.at <= lastSizeTime + MaxGap

ReadsWhole == Quick => (check = "read" => size = Whole)

FileInv == FileTypeOK /\ SeenIsPast /\ SeenAfterWrite /\ Deadlines /\ SampleIsFresh /\ ReadsWhole /\ WholeResponse

\* The invariant of the watcher holds at the start.
LEMMA FileInitInv == FileInit => FileInv
  BY FileAssumption
     DEF FileInit, FileInv, FileTypeOK, SeenIsPast, SeenAfterWrite, Deadlines, SampleIsFresh, ReadsWhole, WholeResponse, Quick

\* Each step of the agent and the watcher keeps the types.
LEMMA FileTypeStep == FileTypeOK /\ [FileNext]_fileVars => FileTypeOK'
  BY FileAssumption
     DEF FileTypeOK, FileNext, fileVars, watchVars, agentVars, Inject, Write, Tick, Stat, Changed, Unchanged, Read, GiveUp

\* The stat came back in time, and the size it shows was no longer than a pause old: it
\* is the whole when it is older than the threshold.
LEMMA StableIsWhole ==
  FileInv /\ Quick /\ Unchanged /\ check' = "read" => size' = Whole
  BY FileAssumption
     DEF FileInv, FileTypeOK, SeenIsPast, Deadlines, SampleIsFresh, Quick, Unchanged, agentVars

\* Each step of the agent and the watcher keeps the invariant.
LEMMA FileStep == FileInv /\ [FileNext]_fileVars => FileInv'
<1> SUFFICES ASSUME FileInv, [FileNext]_fileVars PROVE FileInv'
  OBVIOUS
<1>1. FileTypeOK'
  BY FileTypeStep DEF FileInv
<1> USE FileAssumption DEF FileInv, FileTypeOK
<1>2. CASE Inject
  BY <1>1, <1>2 DEF Inject, SeenIsPast, SeenAfterWrite, Deadlines, SampleIsFresh, ReadsWhole, WholeResponse, Quick, watchVars, agentVars
<1>3. CASE Write
  BY <1>1, <1>3 DEF Write, SeenIsPast, SeenAfterWrite, Deadlines, SampleIsFresh, ReadsWhole, WholeResponse, Quick, watchVars
<1>4. CASE Tick
  BY <1>1, <1>4 DEF Tick, SeenIsPast, SeenAfterWrite, Deadlines, SampleIsFresh, ReadsWhole, WholeResponse, Quick, watchVars
<1>5. CASE Stat
  BY <1>1, <1>5 DEF Stat, SeenIsPast, SeenAfterWrite, Deadlines, SampleIsFresh, ReadsWhole, WholeResponse, Quick, agentVars
<1>6. CASE Changed
  BY <1>1, <1>6 DEF Changed, SeenIsPast, SeenAfterWrite, Deadlines, SampleIsFresh, ReadsWhole, WholeResponse, Quick, agentVars
<1>7. CASE Unchanged
  <2>1. ReadsWhole'
    BY <1>7, StableIsWhole DEF ReadsWhole, Quick, Unchanged, agentVars
  <2>2. QED
    BY <1>1, <1>7, <2>1 DEF Unchanged, SeenIsPast, SeenAfterWrite, Deadlines, SampleIsFresh, WholeResponse, Quick, agentVars
<1>8. CASE Read
  BY <1>1, <1>8 DEF Read, SeenIsPast, SeenAfterWrite, Deadlines, SampleIsFresh, ReadsWhole, WholeResponse, Quick, agentVars
<1>9. CASE GiveUp
  BY <1>1, <1>9 DEF GiveUp, SeenIsPast, SeenAfterWrite, Deadlines, SampleIsFresh, ReadsWhole, WholeResponse, Quick, watchVars, agentVars
<1>10. CASE UNCHANGED fileVars
  BY <1>10 DEF fileVars, SeenIsPast, SeenAfterWrite, Deadlines, SampleIsFresh, ReadsWhole, WholeResponse, Quick
<1>11. QED
  BY <1>2, <1>3, <1>4, <1>5, <1>6, <1>7, <1>8, <1>9, <1>10 DEF FileNext

\* The code behaviour: FileStabilityWatcher resolves with the content only after the
\* threshold has passed without a change; here, that then nothing is missing from it.
THEOREM FileWholeResponse == FileSpec => []WholeResponse
<1>1. FileInv => WholeResponse
  BY DEF FileInv
<1>2. QED
  BY <1>1, FileInitInv, FileStep, PTL DEF FileSpec

-----------------------------------------------------------------------------
(* Consolidation                                                           *)

\* While no two consolidations have been at once: one run at most is between its change
\* of the mode and its return, what it restores is a mode the user has chosen, and the
\* mode is the user's outside of it.
OverrideInv == ~overlap =>
  /\ \A q, r \in Spawning : q = r
  /\ \A r \in Spawning : cons[r].saved \in chosen
  /\ Spawning = {} => mode \in chosen

\* No consolidation, session or setting leaves the types.
LEMMA ConsTypeStep ==
  ASSUME ConsTypeOK, [ConsNext]_consVars
  PROVE  ConsTypeOK'
<1> DEFINE ConsStates == [step : Steps, task : Tasks, saved : Modes]
<1>0. /\ cons \in [Runs -> ConsStates] /\ report \in [Tasks -> Runs \cup {0}]
      /\ openTask \in Tasks /\ mode \in Modes /\ chosen \in SUBSET Modes /\ overlap \in BOOLEAN
  BY DEF ConsTypeOK
<1>1. ASSUME NEW r \in Runs, NEW step \in Steps, Go(r, step) PROVE cons' \in [Runs -> ConsStates]
  BY <1>0, <1>1 DEF Go
<1>2. ASSUME SetConversationMode \/ OpenSession PROVE ConsTypeOK'
  BY <1>0, <1>2 DEF SetConversationMode, OpenSession, ConsTypeOK
<1>3. ASSUME NEW r \in Runs, StartConsolidation(r) PROVE ConsTypeOK'
  <2>1. overlap' \in BOOLEAN
    BY <1>3 DEF StartConsolidation
  <2>2. cons' \in [Runs -> ConsStates]
    BY <1>0, <1>3 DEF StartConsolidation, Steps
  <2> QED
    BY <1>0, <1>3, <2>1, <2>2, ModesAssumption DEF StartConsolidation, ConsTypeOK
<1>4. ASSUME NEW r \in Runs, SpawnSettles(r) PROVE ConsTypeOK'
  <2>1. cons' \in [Runs -> ConsStates] /\ mode' \in Modes
    BY <1>0, <1>1, <1>4 DEF SpawnSettles, Steps
  <2> QED
    BY <1>0, <1>4, <2>1 DEF SpawnSettles, ConsTypeOK
<1>5. ASSUME NEW r \in Runs, WorkerSubmits(r) PROVE ConsTypeOK'
  BY <1>0, <1>5 DEF WorkerSubmits, ConsTypeOK
<1>6. ASSUME NEW r \in Runs, ConsolidatorExits(r) PROVE ConsTypeOK'
  BY <1>0, <1>6 DEF ConsolidatorExits, ConsTypeOK, Steps
<1>7. ASSUME NEW r \in Runs, ConsolidatorFails(r) \/ ReadReport(r) \/ GenerateReport(r) PROVE ConsTypeOK'
  <2>1. cons' \in [Runs -> ConsStates]
    BY <1>1, <1>7 DEF ConsolidatorFails, ReadReport, GenerateReport, Steps
  <2> QED
    BY <1>0, <1>7, <2>1 DEF ConsolidatorFails, ReadReport, GenerateReport, ConsTypeOK
<1>8. ASSUME NEW r \in Runs, SaveReport(r) PROVE ConsTypeOK'
  <2>1. cons' \in [Runs -> ConsStates] /\ report' \in [Tasks -> Runs \cup {0}]
    BY <1>0, <1>1, <1>8 DEF SaveReport, Steps
  <2> QED
    BY <1>0, <1>8, <2>1 DEF SaveReport, ConsTypeOK
<1>9. CASE UNCHANGED consVars
  BY <1>0, <1>9 DEF consVars, ConsTypeOK
<1> QED
  BY <1>2, <1>3, <1>4, <1>5, <1>6, <1>7, <1>8, <1>9 DEF ConsNext

\* A consolidation that starts while another one spawns sets overlap, and the choices of
\* the user are added to those there were.
LEMMA OverrideStep ==
  ASSUME ConsTypeOK, OverrideInv, [ConsNext]_consVars
  PROVE  OverrideInv'
<1> USE DEF OverrideInv, Spawning, At, Go
<1>0. cons \in [Runs -> [step : Steps, task : Tasks, saved : Modes]]
  BY DEF ConsTypeOK
<1>1. ASSUME SetConversationMode \/ OpenSession PROVE OverrideInv'
  BY <1>1 DEF SetConversationMode, OpenSession
<1>2. ASSUME NEW r \in Runs, StartConsolidation(r) PROVE OverrideInv'
  <2> SUFFICES ASSUME ~overlap' PROVE OverrideInv'
    OBVIOUS
  <2>1. ~overlap /\ Spawning = {}
    BY <1>2 DEF StartConsolidation
  <2>2. mode \in chosen
    BY <2>1
  <2>3. \A q \in Runs : cons'[q] = IF q = r THEN [step |-> "spawning", task |-> openTask, saved |-> mode] ELSE cons[q]
    BY <1>0, <1>2 DEF StartConsolidation
  <2>4. \A q \in Runs : cons'[q].step = "spawning" => q = r
    BY <2>1, <2>3
  <2>5. cons'[r].step = "spawning" /\ cons'[r].saved = mode
    BY <2>3
  <2> QED
    BY <1>2, <2>2, <2>4, <2>5 DEF StartConsolidation
<1>3. ASSUME NEW r \in Runs, SpawnSettles(r) PROVE OverrideInv'
  <2> SUFFICES ASSUME ~overlap' PROVE OverrideInv'
    OBVIOUS
  <2>1. ~overlap /\ r \in Spawning /\ mode' = cons[r].saved /\ chosen' = chosen
    BY <1>3 DEF SpawnSettles
  <2>2. \A q \in Runs \ {r} : cons'[q] = cons[q]
    BY <1>0, <1>3 DEF SpawnSettles
  <2>3. cons'[r].step \in {"running", "generating"}
    BY <1>0, <1>3 DEF SpawnSettles
  <2>4. \A q \in Runs : cons'[q].step # "spawning"
    BY <2>1, <2>2, <2>3
  <2> QED
    BY <2>1, <2>4
<1>4. ASSUME NEW r \in Runs, WorkerSubmits(r) PROVE OverrideInv'
  BY <1>4 DEF WorkerSubmits
<1>5. ASSUME NEW r \in Runs,
             ConsolidatorExits(r) \/ ConsolidatorFails(r) \/ ReadReport(r) \/ GenerateReport(r) \/ SaveReport(r)
      PROVE  OverrideInv'
  <2>1. \A q \in Runs \ {r} : cons'[q] = cons[q]
    BY <1>0, <1>5 DEF ConsolidatorExits, ConsolidatorFails, ReadReport, GenerateReport, SaveReport
  <2>2. cons'[r].step # "spawning" /\ cons[r].step # "spawning"
    BY <1>0, <1>5 DEF ConsolidatorExits, ConsolidatorFails, ReadReport, GenerateReport, SaveReport
  <2>3. mode' = mode /\ chosen' = chosen /\ overlap' = overlap
    BY <1>5 DEF ConsolidatorExits, ConsolidatorFails, ReadReport, GenerateReport, SaveReport
  <2> QED
    BY <2>1, <2>2, <2>3
<1>6. CASE UNCHANGED consVars
  BY <1>6 DEF consVars
<1> QED
  BY <1>1, <1>2, <1>3, <1>4, <1>5, <1>6 DEF ConsNext

\* The types hold at the start.
LEMMA ConsTypeInit == ConsInit => ConsTypeOK
<1> SUFFICES ASSUME ConsInit PROVE ConsTypeOK
  OBVIOUS
<1> QED
  BY DEF ConsInit, ConsTypeOK, Steps

\* The code behaviour: consolidations, sessions and the settings in any order keep the
\* bookkeeping around run:consolidate in its types.
THEOREM ConsTypeCorrect == ConsSpec => []ConsTypeOK
  BY ConsTypeInit, ConsTypeStep, PTL DEF ConsSpec

\* The code behaviour: run:consolidate takes the settings before it overrides them, and
\* both ways the spawn can end give them back.
THEOREM OverrideEndsHolds == ConsSpec => []OverrideEnds
<1>1. ConsInit => ConsTypeOK /\ OverrideInv
  <2> SUFFICES ASSUME ConsInit PROVE ConsTypeOK /\ OverrideInv
    OBVIOUS
  <2>1. ConsTypeOK
    BY ConsTypeInit
  <2>2. Spawning = {}
    BY DEF ConsInit, Spawning, At
  <2> QED
    BY <2>1, <2>2 DEF ConsInit, OverrideInv
<1>2. ConsTypeOK /\ OverrideInv /\ [ConsNext]_consVars => (ConsTypeOK /\ OverrideInv)'
  BY ConsTypeStep, OverrideStep
<1>3. OverrideInv => OverrideEnds
  BY DEF OverrideInv, OverrideEnds
<1> QED
  BY <1>1, <1>2, <1>3, PTL DEF ConsSpec

-----------------------------------------------------------------------------
(* Type correctness of the pipeline                                        *)

\* What the bound on the attempts gives of arithmetic: NoHandoff is no attempt.
LEMMA BoundsType ==
  /\ Attempts = 1..MaxAttempts /\ MaxAttempts \in Nat \ {0}
  /\ NoHandoff \in 0..NoHandoff /\ 0..MaxAttempts \subseteq 0..NoHandoff
  /\ NoHandoff \notin 0..MaxAttempts
BY MaxAttemptsAssumption DEF Attempts, NoHandoff

\* A flush leaves buffers and outputs typed.
LEMMA DrainType ==
  ASSUME PipelineTypeOK, NEW p \in PhaseSet, Drain(p)
  PROVE  /\ interval' \in SUBSET PhaseSet
         /\ buffer' \in [PhaseSet -> SUBSET Attempts]
         /\ output' \in [PhaseSet -> [by : SUBSET Attempts, json : 0..MaxAttempts]]
<1>1. Silence \in [by : SUBSET Attempts, json : 0..MaxAttempts]
  BY BoundsType DEF Silence
<1> QED
  BY <1>1 DEF PipelineTypeOK, Drain, FlushAndRemove

\* A worker's end makes a job.
LEMMA JobType ==
  ASSUME PipelineTypeOK, NEW p \in PhaseSet, NEW end \in Ends, NEW step \in JobSteps
  PROVE  Job(p, end, step) \in Jobs
BY DEF PipelineTypeOK, Job, Jobs

\* A job that goes on to its next step is a job.
LEMMA ProceedType ==
  ASSUME PipelineTypeOK, NEW j \in jobs, NEW step \in JobSteps, Proceed(j, step)
  PROVE  jobs' \in SUBSET Jobs
BY DEF PipelineTypeOK, Proceed, Jobs

\* What is stored is of attempts.
LEMMA StoreOutputType ==
  ASSUME PipelineTypeOK, NEW p \in PhaseSet, StoreOutput(p)
  PROVE  stored' \in [PhaseSet -> SUBSET Attempts]
BY DEF PipelineTypeOK, StoreOutput

\* Each step of the pipeline keeps the types.
LEMMA PipelineTypeStep ==
  ASSUME PipelineTypeOK, [PipelineNext]_pipelineVars
  PROVE  PipelineTypeOK'
<1> USE BoundsType
<1> DEFINE Statuses == {"pending", "running", "completed", "failed"}
<1>f. ASSUME NEW p \in PhaseSet PROVE FailedStatus(p) \in [PhaseSet -> Statuses]
  BY DEF PipelineTypeOK, FailedStatus
<1>s. "submit" \in JobSteps /\ "plan" \in JobSteps /\ "report" \in JobSteps
  BY DEF JobSteps
<1>r. "refused" \in Reasons /\ "nonzero" \in Reasons /\ "denied" \in Reasons /\ "own" \in Reasons
  BY DEF Reasons
<1>e. "zero" \in Ends /\ "one" \in Ends /\ "failure" \in Ends
  BY DEF Ends
<1>1. ASSUME NEW p \in PhaseSet, ExecutePhase(p) PROVE PipelineTypeOK'
  <2>1. status' \in [PhaseSet -> Statuses]
    BY <1>1 DEF ExecutePhase, PipelineTypeOK
  <2>2. attempts' \in [PhaseSet -> 0..MaxAttempts] /\ attempts'[p] \in Attempts
    BY <1>1 DEF ExecutePhase, PipelineTypeOK
  <2>3. launching' \in [PhaseSet -> SUBSET (Attempts \X {"assemble", "build", "spawn"})]
    BY <1>1, <2>2 DEF ExecutePhase, PipelineTypeOK
  <2> QED
    BY <1>1, <2>1, <2>2, <2>3 DEF ExecutePhase, PipelineTypeOK, outputVars, dbVars, historyVars
<1>2. ASSUME NEW p \in PhaseSet, AssembleContext(p) PROVE PipelineTypeOK'
  <2>1. status' \in [PhaseSet -> Statuses]
    BY <1>2, <1>f DEF AssembleContext, PipelineTypeOK
  <2>2. launching' \in [PhaseSet -> SUBSET (Attempts \X {"assemble", "build", "spawn"})]
    <3>1. PICK l \in launching[p] :
            \/ launching' = [launching EXCEPT ![p] = (@ \ {l}) \cup {<<l[1], "build">>}]
            \/ launching' = [launching EXCEPT ![p] = @ \ {l}]
      BY <1>2 DEF AssembleContext
    <3> DEFINE Launchings == Attempts \X {"assemble", "build", "spawn"}
    <3>2. launching \in [PhaseSet -> SUBSET Launchings] /\ <<l[1], "build">> \in Launchings
      BY DEF PipelineTypeOK
    <3> HIDE DEF Launchings
    <3>3. launching' \in [PhaseSet -> SUBSET Launchings]
      BY <3>1, <3>2
    <3> QED
      BY <3>3 DEF Launchings
  <2> QED
    BY <1>2, <2>1, <2>2 DEF AssembleContext, PipelineTypeOK, outputVars, dbVars, historyVars
<1>3. ASSUME NEW p \in PhaseSet, Launch(p) PROVE PipelineTypeOK'
  <2>1. launching' \in [PhaseSet -> SUBSET (Attempts \X {"assemble", "build", "spawn"})]
    BY <1>3 DEF Launch, PipelineTypeOK
  <2>2. workerCtx' \in (PhaseSet \X Attempts) \cup {NoWorker}
    BY <1>3 DEF Launch, PipelineTypeOK
  <2>3. missing' \in SUBSET (PhaseSet \X PhaseSet)
    BY <1>3, DependsOnAssumption DEF Launch, PipelineTypeOK, NoReportFound
  <2> QED
    BY <1>3, <2>1, <2>2, <2>3 DEF Launch, PipelineTypeOK, outputVars, dbVars
<1>4. ASSUME NEW p \in PhaseSet, SpawnWorker(p) PROVE PipelineTypeOK'
  <2>1. launching' \in [PhaseSet -> SUBSET (Attempts \X {"assemble", "build", "spawn"})]
    BY <1>4 DEF SpawnWorker, PipelineTypeOK
  <2>2. worker' \in [PhaseSet -> 0..MaxAttempts] /\ replaced' \in SUBSET PhaseSet
    BY <1>4 DEF SpawnWorker, PipelineTypeOK
  <2> QED
    BY <1>4, <2>1, <2>2 DEF SpawnWorker, PipelineTypeOK, outputVars, dbVars
<1>5. CASE Abort
  <2>1. status' \in [PhaseSet -> Statuses] /\ aborts' \in 0..MaxAborts
    BY <1>5, MaxAbortsAssumption DEF Abort, PipelineTypeOK
  <2> QED
    BY <1>5, <2>1 DEF Abort, PipelineTypeOK, outputVars, dbVars, historyVars
<1>6. ASSUME NEW p \in PhaseSet, WorkerOutput(p) PROVE PipelineTypeOK'
  <2>1. worker[p] \in Attempts
    BY <1>6 DEF WorkerOutput, PipelineTypeOK
  <2>2. output' \in [PhaseSet -> [by : SUBSET Attempts, json : 0..MaxAttempts]]
    BY <1>6, <2>1 DEF WorkerOutput, PipelineTypeOK
  <2>3. buffer' \in [PhaseSet -> SUBSET Attempts] /\ interval' \in SUBSET PhaseSet
    BY <1>6, <2>1 DEF WorkerOutput, PipelineTypeOK
  <2> QED
    BY <1>6, <2>2, <2>3 DEF WorkerOutput, PipelineTypeOK, dbVars, historyVars
<1>7. ASSUME NEW p \in PhaseSet, FlushBuffer(p) PROVE PipelineTypeOK'
  BY <1>7 DEF FlushBuffer, PipelineTypeOK, dbVars, historyVars
<1>8. ASSUME NEW p \in PhaseSet, IncrementalFlush(p) PROVE PipelineTypeOK'
  <2>1. stored' \in [PhaseSet -> SUBSET Attempts]
    BY <1>8 DEF IncrementalFlush, PipelineTypeOK
  <2> QED
    BY <1>8, <2>1 DEF IncrementalFlush, PipelineTypeOK, outputVars, historyVars
<1>9. ASSUME NEW p \in PhaseSet, WorkerExits(p) PROVE PipelineTypeOK'
  <2>1. Drain(p) /\ ProcessWorkerExit(p)
    BY <1>9 DEF WorkerExits, ProcessWorkerExit
  <2>2. jobs' \in SUBSET Jobs
    <3>1. Job(p, "zero", "submit") \in Jobs /\ Job(p, "one", "report") \in Jobs
      BY <1>s, <1>e, JobType
    <3>2. jobs' = jobs \cup {Job(p, "zero", "submit")} \/ jobs' = jobs \cup {Job(p, "one", "report")}
      BY <2>1 DEF ProcessWorkerExit
    <3> QED
      BY <3>1, <3>2 DEF PipelineTypeOK
  <2>3. stored' \in [PhaseSet -> SUBSET Attempts]
    BY <2>1, StoreOutputType DEF ProcessWorkerExit, PipelineTypeOK
  <2>4. noReport' \in SUBSET (PhaseSet \X Reasons) /\ worker' \in [PhaseSet -> 0..MaxAttempts]
    BY <1>r, <2>1 DEF ProcessWorkerExit, PipelineTypeOK
  <2> QED
    BY <1>9, <2>1, <2>2, <2>3, <2>4, DrainType DEF WorkerExits, ProcessWorkerExit, PipelineTypeOK
<1>10. ASSUME NEW p \in PhaseSet, WorkerFails(p) PROVE PipelineTypeOK'
  <2>1. Drain(p) /\ stored' \in [PhaseSet -> SUBSET Attempts]
    BY <1>10, StoreOutputType DEF WorkerFails
  <2>2. jobs' \in SUBSET Jobs /\ worker' \in [PhaseSet -> 0..MaxAttempts]
    <3>1. Job(p, "failure", "submit") \in Jobs
      BY <1>s, <1>e, JobType
    <3> QED
      BY <1>10, <3>1 DEF WorkerFails, PipelineTypeOK
  <2> QED
    BY <1>10, <2>1, <2>2, DrainType DEF WorkerFails, PipelineTypeOK, historyVars
<1>11. ASSUME NEW j \in jobs, SubmitPhaseHandoff(j) PROVE PipelineTypeOK'
  <2>1. j \in Jobs
    BY DEF PipelineTypeOK
  <2>2. jobs' \in SUBSET Jobs
    BY <1>s, <1>11, ProceedType DEF SubmitPhaseHandoff
  <2>3. j.phase \in PhaseSet /\ Submitted(j) \in 0..NoHandoff
    BY <2>1 DEF Jobs, Submitted, Extracted, Sentinel
  <2>4. handoff' \in [PhaseSet -> 0..NoHandoff] /\ noReport' \in SUBSET (PhaseSet \X Reasons)
    <3>1. HandoffStored(j) \/ HandoffRefused(j) \/ HandoffDenied(j)
      BY <1>11 DEF SubmitPhaseHandoff
    <3>2. \/ handoff' = [handoff EXCEPT ![j.phase] = Submitted(j)] /\ noReport' = noReport
          \/ handoff' = handoff /\ \E why \in Reasons : noReport' = noReport \cup {<<j.phase, why>>}
      BY <1>r, <3>1, Zenon DEF HandoffStored, HandoffRefused, HandoffDenied
    <3>3. handoff \in [PhaseSet -> 0..NoHandoff] /\ noReport \in SUBSET (PhaseSet \X Reasons)
      BY DEF PipelineTypeOK
    <3>4. [handoff EXCEPT ![j.phase] = Submitted(j)] \in [PhaseSet -> 0..NoHandoff]
      BY <2>3, <3>3
    <3>5. \A why \in Reasons : noReport \cup {<<j.phase, why>>} \in SUBSET (PhaseSet \X Reasons)
      BY <2>3, <3>3
    <3> QED
      BY <3>2, <3>3, <3>4, <3>5
  <2> QED
    BY <1>11, <2>2, <2>4 DEF SubmitPhaseHandoff, PipelineTypeOK, outputVars
<1>12. ASSUME NEW j \in jobs, SubmitPlan(j) PROVE PipelineTypeOK'
  <2>1. j \in Jobs
    BY DEF PipelineTypeOK
  <2>2. jobs' \in SUBSET Jobs
    BY <1>s, <1>12, ProceedType DEF SubmitPlan
  <2>3. plan' \in [PhaseSet -> 0..MaxAttempts]
    BY <1>12, <2>1 DEF SubmitPlan, Jobs, PipelineTypeOK
  <2> QED
    BY <1>12, <2>2, <2>3 DEF SubmitPlan, PipelineTypeOK, outputVars, historyVars
<1>13. ASSUME NEW j \in jobs, WriteReport(j) PROVE PipelineTypeOK'
  <2>1. j.phase \in PhaseSet
    BY DEF PipelineTypeOK, Jobs
  <2>2. status' \in [PhaseSet -> Statuses]
    <3>1. ASSUME Verdict(j) PROVE status' \in [PhaseSet -> Statuses]
      BY <3>1 DEF Verdict, PipelineTypeOK
    <3> QED
      BY <1>f, <1>13, <2>1, <3>1 DEF WriteReport
  <2> QED
    BY <1>13, <2>2 DEF WriteReport, PipelineTypeOK, outputVars, dbVars, historyVars
<1>14. CASE UNCHANGED pipelineVars
  BY <1>14 DEF pipelineVars, outputVars, dbVars, historyVars, PipelineTypeOK
<1> QED
  BY <1>1, <1>2, <1>3, <1>4, <1>5, <1>6, <1>7, <1>8, <1>9, <1>10, <1>11, <1>12, <1>13, <1>14 DEF PipelineNext

-----------------------------------------------------------------------------
(* What an attempt leaves behind                                           *)

\* OutputIsOwn on the way to it: a worker's output, and that of a job it left, is of its
\* attempt unless a worker of the phase was replaced; without a worker nothing is buffered.
OutputInv ==
  /\ \A p \in PhaseSet : worker[p] = 0 => buffer[p] = {} /\ p \notin interval /\ output[p] = Silence
  /\ \A p \in PhaseSet : p \in replaced \/ (output[p].by \subseteq {worker[p]} /\ output[p].json \in {0, worker[p]})
  /\ \A j \in jobs : j.phase \in replaced \/ (j.by \subseteq {j.attempt} /\ j.json \in {0, j.attempt})

\* A worker's end drains its phase's output into its job, so that the next attempt starts
\* with Silence.
LEMMA OutputStep ==
  ASSUME PipelineTypeOK, OutputInv, [PipelineNext]_pipelineVars
  PROVE  OutputInv'
<1> USE DEF OutputInv
<1>0. /\ worker \in [PhaseSet -> 0..MaxAttempts] /\ jobs \in SUBSET Jobs
      /\ output \in [PhaseSet -> [by : SUBSET Attempts, json : 0..MaxAttempts]]
      /\ buffer \in [PhaseSet -> SUBSET Attempts] /\ replaced \in SUBSET PhaseSet
  BY DEF PipelineTypeOK
<1>1. ASSUME NEW p \in PhaseSet, ExecutePhase(p) \/ AssembleContext(p) \/ Launch(p) \/ IncrementalFlush(p) PROVE OutputInv'
  BY <1>1 DEF ExecutePhase, AssembleContext, Launch, IncrementalFlush, outputVars, historyVars
<1>2. ASSUME NEW p \in PhaseSet, SpawnWorker(p) PROVE OutputInv'
  <2>1. /\ UNCHANGED <<jobs, output, buffer, interval>> /\ replaced \subseteq replaced'
        /\ \A q \in PhaseSet \ {p} : worker'[q] = worker[q]
    BY <1>0, <1>2 DEF SpawnWorker, outputVars
  <2>2. worker'[p] # 0
    BY <1>0, <1>2, BoundsType DEF SpawnWorker, PipelineTypeOK
  <2>3. worker[p] = 0 => output[p].by = {} /\ output[p].json = 0
    BY DEF Silence
  <2>4. worker[p] # 0 => p \in replaced'
    BY <1>2 DEF SpawnWorker
  <2> QED
    BY <2>1, <2>2, <2>3, <2>4
<1>3. CASE Abort
  BY <1>3 DEF Abort, outputVars, historyVars
<1>4. ASSUME NEW p \in PhaseSet, WorkerOutput(p) PROVE OutputInv'
  <2>1. PICK json \in {output[p].json, worker[p]} :
          output' = [output EXCEPT ![p] = [by |-> @.by \cup {worker[p]}, json |-> json]]
    BY <1>4 DEF WorkerOutput
  <2>2. output'[p].by = output[p].by \cup {worker[p]} /\ output'[p].json \in {output[p].json, worker[p]}
    BY <1>0, <2>1
  <2>3. \A q \in PhaseSet \ {p} : output'[q] = output[q] /\ buffer'[q] = buffer[q] /\ (q \in interval' <=> q \in interval)
    BY <1>0, <1>4, <2>1 DEF WorkerOutput
  <2>4. worker' = worker /\ jobs' = jobs /\ replaced' = replaced /\ worker[p] # 0
    BY <1>4 DEF WorkerOutput, historyVars
  <2> QED
    BY <2>2, <2>3, <2>4
<1>5. ASSUME NEW p \in PhaseSet, FlushBuffer(p) PROVE OutputInv'
  BY <1>0, <1>5 DEF FlushBuffer, historyVars
<1>6. ASSUME NEW p \in PhaseSet, NEW end \in Ends, NEW step \in JobSteps,
             Drain(p), worker' = [worker EXCEPT ![p] = 0], jobs' = jobs \cup {Job(p, end, step)}, replaced' = replaced
      PROVE  OutputInv'
  <2>1. buffer'[p] = {} /\ p \notin interval' /\ output'[p] = Silence /\ worker'[p] = 0
    BY <1>0, <1>6 DEF Drain, FlushAndRemove
  <2>2. \A q \in PhaseSet \ {p} :
          /\ output'[q] = output[q] /\ buffer'[q] = buffer[q] /\ worker'[q] = worker[q]
          /\ q \in interval' <=> q \in interval
    BY <1>0, <1>6 DEF Drain, FlushAndRemove
  <2>3. LET j == Job(p, end, step)
        IN  j.phase = p /\ j.attempt = worker[p] /\ j.by = output[p].by /\ j.json = output[p].json
    BY DEF Job
  <2>4. \A j \in jobs' : j.phase \in replaced \/ (j.by \subseteq {j.attempt} /\ j.json \in {0, j.attempt})
    BY <1>6, <2>3
  <2> QED
    BY <1>6, <2>1, <2>2, <2>4 DEF Silence
<1>7. ASSUME NEW p \in PhaseSet, WorkerExits(p) PROVE OutputInv'
  <2>1. Drain(p) /\ worker' = [worker EXCEPT ![p] = 0] /\ replaced' = replaced
    BY <1>7 DEF WorkerExits, ProcessWorkerExit
  <2>2. jobs' = jobs \cup {Job(p, "zero", "submit")} \/ jobs' = jobs \cup {Job(p, "one", "report")}
    BY <1>7 DEF WorkerExits, ProcessWorkerExit
  <2> QED
    BY <1>6, <2>1, <2>2 DEF Ends, JobSteps
<1>8. ASSUME NEW p \in PhaseSet, WorkerFails(p) PROVE OutputInv'
  BY <1>6, <1>8 DEF WorkerFails, historyVars, Ends, JobSteps
<1>9. ASSUME NEW j \in jobs, NEW step, Proceed(j, step), UNCHANGED <<worker, outputVars, replaced>> PROVE OutputInv'
  <2>1. j \in Jobs
    BY <1>0
  <2>2. LET k == [j EXCEPT !.step = step]
        IN  k.phase = j.phase /\ k.attempt = j.attempt /\ k.by = j.by /\ k.json = j.json
    BY <2>1 DEF Jobs
  <2> QED
    BY <1>9, <2>2 DEF Proceed, outputVars
<1>10. ASSUME NEW j \in jobs, SubmitPhaseHandoff(j) \/ SubmitPlan(j) PROVE OutputInv'
  BY <1>9, <1>10, Zenon DEF SubmitPhaseHandoff, SubmitPlan, historyVars
<1>11. ASSUME NEW j \in jobs, WriteReport(j) PROVE OutputInv'
  BY <1>11 DEF WriteReport, outputVars, historyVars
<1>12. CASE UNCHANGED pipelineVars
  BY <1>12 DEF pipelineVars, outputVars, historyVars
<1> QED
  BY <1>1, <1>2, <1>3, <1>4, <1>5, <1>7, <1>8, <1>10, <1>11, <1>12 DEF PipelineNext

\* The types hold at the start.
LEMMA PipelineTypeInit == PipelineInit => PipelineTypeOK
BY BoundsType, MaxAbortsAssumption DEF PipelineInit, PipelineTypeOK, Silence

\* The code behaviour: the launch of phases, the output of workers, their ends and what
\* follows them, in any order, keep the attempts, jobs and statuses in their types; with
\* it come the bounds on attempts.
THEOREM PipelineTypeCorrect == PipelineSpec => []PipelineTypeOK
BY PipelineTypeInit, PipelineTypeStep, PTL DEF PipelineSpec

\* The code behaviour: the accumulators of EngineWiring are per phase, not per attempt;
\* worker:exited, worker:timeout and worker:crash each drain them before the engine hears
\* of the end.
THEOREM OutputIsOwnHolds == PipelineSpec => []OutputIsOwn
<1>1. PipelineInit => PipelineTypeOK /\ OutputInv
  BY PipelineTypeInit DEF PipelineInit, OutputInv, Silence
<1>2. PipelineTypeOK /\ OutputInv /\ [PipelineNext]_pipelineVars => (PipelineTypeOK /\ OutputInv)'
  BY PipelineTypeStep, OutputStep
<1>3. OutputInv => OutputIsOwn
  BY DEF OutputInv, OutputIsOwn
<1> QED
  BY <1>1, <1>2, <1>3, PTL DEF PipelineSpec

-----------------------------------------------------------------------------
(* What a phase finds of its parents                                       *)

\* There is a handoff, or a reason why there is none that the property admits.
Reported(q) == handoff[q] # NoHandoff \/ \E why \in Reasons \ {"own"} : <<q, why>> \in noReport

\* A phase that has been executed had all parents completed, and they stay so.
ParentsCompleted == \A p \in PhaseSet :
  /\ status[p] \in {"running", "failed"} \/ launching[p] # {} => attempts[p] > 0
  /\ attempts[p] > 0 => \A q \in DependsOn[p] : status[q] = "completed"

\* An attempt is launched once, and its worker runs after its launch.
AttemptsDiffer == \A p \in PhaseSet :
  /\ \A k, l \in launching[p] : k[1] = l[1] => k = l
  /\ \A l \in launching[p] : l[1] <= attempts[p] /\ l[1] # worker[p]
  /\ worker[p] <= attempts[p]

\* A job is of an attempt that is launched, and no tool call is judged by its policy
\* any more when it ended with an exit of zero.
JobsAreLaunched == \A j \in jobs :
  /\ j.attempt <= attempts[j.phase]
  /\ \A l \in launching[j.phase] : l[1] # j.attempt
  /\ ~OutlivesExit(j)

\* What a job has left to do when nothing is reported yet.
JobsReport == \A j \in jobs :
  /\ j.step = "plan" => j.end = "zero"
  /\ j.step # "submit" /\ j.end # "failure" => Reported(j.phase)

\* A phase is completed with a handoff, or with a reason why there is none.
CompletedReported == \A p \in PhaseSet : status[p] = "completed" => Reported(p)

\* The invariant behind ParentsReported.
ReportInv ==
  ParentsCompleted /\ AttemptsDiffer /\ JobsAreLaunched /\ JobsReport /\ CompletedReported /\ ParentsReported

\* No step takes a completed phase back, and only an execution counts an attempt.
LEMMA StatusStep ==
  ASSUME PipelineTypeOK, [PipelineNext]_pipelineVars, NEW q \in PhaseSet
  PROVE  /\ status[q] = "completed" => status'[q] = "completed"
         /\ attempts'[q] # attempts[q] => \E p \in PhaseSet : ExecutePhase(p)
<1>0. status \in [PhaseSet -> {"pending", "running", "completed", "failed"}] /\ jobs \in SUBSET Jobs
  BY DEF PipelineTypeOK
<1>1. ASSUME NEW p \in PhaseSet, ExecutePhase(p) PROVE status[q] = "completed" => status'[q] = "completed"
  BY <1>0, <1>1 DEF ExecutePhase
<1>2. ASSUME NEW p \in PhaseSet, AssembleContext(p)
      PROVE  (status[q] = "completed" => status'[q] = "completed") /\ attempts' = attempts
  BY <1>0, <1>2 DEF AssembleContext, FailedStatus
<1>3. ASSUME NEW p \in PhaseSet, Launch(p) \/ SpawnWorker(p) PROVE UNCHANGED <<status, attempts>>
  BY <1>3 DEF Launch, SpawnWorker
<1>4. ASSUME NEW p \in PhaseSet, WorkerOutput(p) \/ FlushBuffer(p) \/ IncrementalFlush(p) PROVE UNCHANGED <<status, attempts>>
  BY <1>4 DEF WorkerOutput, FlushBuffer, IncrementalFlush
<1>5. ASSUME NEW p \in PhaseSet, WorkerExits(p) \/ WorkerFails(p) PROVE UNCHANGED <<status, attempts>>
  BY <1>5 DEF WorkerExits, ProcessWorkerExit, WorkerFails
<1>6. ASSUME NEW j \in jobs, SubmitPhaseHandoff(j) \/ SubmitPlan(j) PROVE UNCHANGED <<status, attempts>>
  BY <1>6 DEF SubmitPhaseHandoff, SubmitPlan
<1>7. ASSUME NEW j \in jobs, WriteReport(j)
      PROVE  (status[q] = "completed" => status'[q] = "completed") /\ attempts' = attempts
  <2>1. j.phase \in PhaseSet
    BY <1>0 DEF Jobs
  <2> QED
    BY <1>0, <1>7, <2>1 DEF WriteReport, Verdict, FailedStatus
<1>8. CASE Abort
  BY <1>0, <1>8 DEF Abort
<1>9. CASE UNCHANGED pipelineVars
  BY <1>9 DEF pipelineVars
<1> QED
  BY <1>1, <1>2, <1>3, <1>4, <1>5, <1>6, <1>7, <1>8, <1>9 DEF PipelineNext

\* A handoff, once there, is not taken away, and neither is a reason for its lack.
LEMMA ReportedStays ==
  ASSUME PipelineTypeOK, [PipelineNext]_pipelineVars, NEW q \in PhaseSet, Reported(q)
  PROVE  Reported(q)'
<1>0. handoff \in [PhaseSet -> 0..NoHandoff] /\ jobs \in SUBSET Jobs
  BY DEF PipelineTypeOK
<1>1. ASSUME UNCHANGED handoff, noReport \subseteq noReport' PROVE Reported(q)'
  BY <1>1 DEF Reported
<1>2. ASSUME NEW p \in PhaseSet,
             \/ ExecutePhase(p) \/ AssembleContext(p) \/ Launch(p) \/ SpawnWorker(p)
             \/ WorkerOutput(p) \/ FlushBuffer(p) \/ IncrementalFlush(p) \/ WorkerFails(p)
      PROVE  UNCHANGED <<handoff, noReport>>
  BY <1>2 DEF ExecutePhase, AssembleContext, Launch, SpawnWorker, WorkerOutput, FlushBuffer, IncrementalFlush,
              WorkerFails, dbVars, historyVars
<1>3. ASSUME NEW p \in PhaseSet, WorkerExits(p) PROVE UNCHANGED handoff /\ noReport \subseteq noReport'
  BY <1>3 DEF WorkerExits, ProcessWorkerExit
<1>4. ASSUME NEW j \in jobs, SubmitPhaseHandoff(j) PROVE Reported(q)'
  <2>1. HandoffStored(j) \/ HandoffRefused(j) \/ HandoffDenied(j)
    BY <1>4 DEF SubmitPhaseHandoff
  <2>2. Submitted(j) # NoHandoff
    BY <1>0, BoundsType DEF Jobs, Submitted, Extracted, Sentinel
  <2>3. CASE HandoffStored(j)
    BY <1>0, <2>2, <2>3 DEF HandoffStored, Reported
  <2>4. CASE HandoffRefused(j) \/ HandoffDenied(j)
    BY <1>1, <2>4 DEF HandoffRefused, HandoffDenied
  <2> QED
    BY <2>1, <2>3, <2>4
<1>5. ASSUME NEW j \in jobs, SubmitPlan(j) \/ WriteReport(j) PROVE UNCHANGED <<handoff, noReport>>
  BY <1>5 DEF SubmitPlan, WriteReport, dbVars, historyVars
<1>6. CASE Abort
  BY <1>1, <1>6 DEF Abort, dbVars, historyVars
<1>7. CASE UNCHANGED pipelineVars
  BY <1>1, <1>7 DEF pipelineVars, dbVars, historyVars
<1> QED
  BY <1>1, <1>2, <1>3, <1>4, <1>5, <1>6, <1>7 DEF PipelineNext

\* The engine executes a phase when its parents are completed, and they stay so.
LEMMA ParentsStep ==
  ASSUME PipelineTypeOK, ParentsCompleted, [PipelineNext]_pipelineVars
  PROVE  ParentsCompleted'
<1>0. /\ status \in [PhaseSet -> {"pending", "running", "completed", "failed"}] /\ jobs \in SUBSET Jobs
      /\ attempts \in [PhaseSet -> 0..MaxAttempts] /\ DependsOn \in [PhaseSet -> SUBSET PhaseSet]
      /\ launching \in [PhaseSet -> SUBSET (Attempts \X {"assemble", "build", "spawn"})]
  BY DependsOnAssumption DEF PipelineTypeOK
<1>1. ASSUME NEW p \in PhaseSet, ExecutePhase(p) PROVE ParentsCompleted'
  <2>1. \A q \in DependsOn[p] : status[q] = "completed"
    BY <1>1 DEF ExecutePhase, ParentsCompleted
  <2>2. attempts'[p] > 0 /\ (\A q \in PhaseSet \ {p} :
          attempts'[q] = attempts[q] /\ launching'[q] = launching[q] /\ status'[q] = status[q])
    BY <1>0, <1>1 DEF ExecutePhase
  <2>3. \A q \in PhaseSet : status[q] = "completed" => status'[q] = "completed"
    BY <1>1, StatusStep DEF PipelineNext
  <2> QED
    BY <1>0, <2>1, <2>2, <2>3 DEF ParentsCompleted
<1>2. ASSUME UNCHANGED attempts,
             \A p \in PhaseSet : status'[p] \in {"running", "failed"} => status[p] \in {"running", "failed"},
             \A p \in PhaseSet : launching'[p] # {} => launching[p] # {}
      PROVE  ParentsCompleted'
  <2>1. \A q \in PhaseSet : status[q] = "completed" => status'[q] = "completed"
    BY StatusStep
  <2> QED
    BY <1>0, <1>2, <2>1 DEF ParentsCompleted
<1>3. ASSUME NEW p \in PhaseSet, AssembleContext(p) PROVE ParentsCompleted'
  <2>1. \A q \in PhaseSet : status'[q] \in {"running", "failed"} => status[q] \in {"running", "failed"}
    BY <1>0, <1>3 DEF AssembleContext, FailedStatus
  <2>2. \A q \in PhaseSet : launching'[q] # {} => launching[q] # {}
    BY <1>0, <1>3 DEF AssembleContext
  <2> QED
    BY <1>2, <1>3, <2>1, <2>2 DEF AssembleContext
<1>4. ASSUME NEW p \in PhaseSet, Launch(p) \/ SpawnWorker(p) PROVE ParentsCompleted'
  <2>1. \A q \in PhaseSet : launching'[q] # {} => launching[q] # {}
    BY <1>0, <1>4 DEF Launch, SpawnWorker
  <2> QED
    BY <1>2, <1>4, <2>1 DEF Launch, SpawnWorker
<1>5. ASSUME NEW p \in PhaseSet,
             WorkerOutput(p) \/ FlushBuffer(p) \/ IncrementalFlush(p) \/ WorkerExits(p) \/ WorkerFails(p)
      PROVE  ParentsCompleted'
  BY <1>2, <1>5 DEF WorkerOutput, FlushBuffer, IncrementalFlush, WorkerExits, ProcessWorkerExit, WorkerFails
<1>6. ASSUME NEW j \in jobs, SubmitPhaseHandoff(j) \/ SubmitPlan(j) PROVE ParentsCompleted'
  BY <1>2, <1>6 DEF SubmitPhaseHandoff, SubmitPlan
<1>7. ASSUME NEW j \in jobs, WriteReport(j) PROVE ParentsCompleted'
  <2>1. \A q \in PhaseSet : status'[q] \in {"running", "failed"} => status[q] \in {"running", "failed"}
    BY <1>0, <1>7 DEF WriteReport, Verdict, FailedStatus, Jobs
  <2> QED
    BY <1>2, <1>7, <2>1 DEF WriteReport
<1>8. CASE Abort
  BY <1>0, <1>2, <1>8 DEF Abort
<1>9. CASE UNCHANGED pipelineVars
  BY <1>2, <1>9 DEF pipelineVars
<1> QED
  BY <1>1, <1>3, <1>4, <1>5, <1>6, <1>7, <1>8, <1>9 DEF PipelineNext

\* An execution counts a new attempt; a launch that spawns leaves the launching ones.
LEMMA AttemptsStep ==
  ASSUME PipelineTypeOK, AttemptsDiffer, [PipelineNext]_pipelineVars
  PROVE  AttemptsDiffer'
<1> USE BoundsType DEF AttemptsDiffer
<1> DEFINE Launchings == Attempts \X {"assemble", "build", "spawn"}
<1>0. /\ attempts \in [PhaseSet -> 0..MaxAttempts] /\ worker \in [PhaseSet -> 0..MaxAttempts]
      /\ launching \in [PhaseSet -> SUBSET Launchings]
  BY DEF PipelineTypeOK
<1>1. \A q \in PhaseSet : \A l \in launching[q] : l[1] \in Attempts /\ l = <<l[1], l[2]>>
  BY <1>0
<1> HIDE DEF Launchings
<1>2. ASSUME NEW p \in PhaseSet, ExecutePhase(p) PROVE AttemptsDiffer'
  <2>1. attempts'[p] = attempts[p] + 1 /\ launching'[p] = launching[p] \cup {<<attempts'[p], "assemble">>}
    BY <1>0, <1>2 DEF ExecutePhase
  <2>2. worker' = worker /\ (\A q \in PhaseSet \ {p} : attempts'[q] = attempts[q] /\ launching'[q] = launching[q])
    BY <1>0, <1>2 DEF ExecutePhase
  <2>3. attempts[p] \in Nat /\ worker[p] \in Nat /\ (\A l \in launching[p] : l[1] \in Nat)
    BY <1>0, <1>1
  <2> QED
    BY <2>1, <2>2, <2>3
<1>3. ASSUME NEW p \in PhaseSet, AssembleContext(p) \/ Launch(p) PROVE AttemptsDiffer'
  <2>1. PICK l \in launching[p] :
          \/ \E step \in {"build", "spawn"} : launching' = [launching EXCEPT ![p] = (@ \ {l}) \cup {<<l[1], step>>}]
          \/ launching' = [launching EXCEPT ![p] = @ \ {l}]
    BY <1>3 DEF AssembleContext, Launch
  <2>2. UNCHANGED <<attempts, worker>>
    BY <1>3 DEF AssembleContext, Launch
  <2>3. \A q \in PhaseSet \ {p} : launching'[q] = launching[q]
    BY <1>0, <2>1
  <2>4. \/ \E step \in {"build", "spawn"} : launching'[p] = (launching[p] \ {l}) \cup {<<l[1], step>>}
        \/ launching'[p] = launching[p] \ {l}
    BY <1>0, <2>1
  <2> QED
    BY <2>2, <2>3, <2>4
<1>4. ASSUME NEW p \in PhaseSet, SpawnWorker(p) PROVE AttemptsDiffer'
  <2>1. PICK l \in launching[p] :
          launching' = [launching EXCEPT ![p] = @ \ {l}] /\ worker' = [worker EXCEPT ![p] = l[1]]
    BY <1>4 DEF SpawnWorker
  <2>2. attempts' = attempts
    BY <1>4 DEF SpawnWorker
  <2>3. launching'[p] = launching[p] \ {l} /\ worker'[p] = l[1]
    BY <1>0, <2>1
  <2>4. \A q \in PhaseSet \ {p} : launching'[q] = launching[q] /\ worker'[q] = worker[q]
    BY <1>0, <2>1
  <2> QED
    BY <2>2, <2>3, <2>4
<1>5. ASSUME NEW p \in PhaseSet, WorkerExits(p) \/ WorkerFails(p) PROVE AttemptsDiffer'
  <2>1. worker' = [worker EXCEPT ![p] = 0] /\ UNCHANGED <<attempts, launching>>
    BY <1>5 DEF WorkerExits, ProcessWorkerExit, WorkerFails
  <2>2. \A q \in PhaseSet : worker'[q] \in {0, worker[q]} /\ attempts[q] \in Nat
    BY <1>0, <2>1
  <2>3. \A q \in PhaseSet : \A l \in launching[q] : l[1] # 0
    BY <1>1
  <2> QED
    BY <2>1, <2>2, <2>3
<1>6. ASSUME UNCHANGED <<attempts, launching, worker>> PROVE AttemptsDiffer'
  BY <1>6
<1>7. ASSUME NEW p \in PhaseSet, WorkerOutput(p) \/ FlushBuffer(p) \/ IncrementalFlush(p) PROVE AttemptsDiffer'
  BY <1>6, <1>7 DEF WorkerOutput, FlushBuffer, IncrementalFlush
<1>8. ASSUME NEW j \in jobs, SubmitPhaseHandoff(j) \/ SubmitPlan(j) \/ WriteReport(j) PROVE AttemptsDiffer'
  BY <1>6, <1>8 DEF SubmitPhaseHandoff, SubmitPlan, WriteReport
<1>9. CASE Abort \/ UNCHANGED pipelineVars
  BY <1>6, <1>9 DEF Abort, pipelineVars
<1> QED
  BY <1>2, <1>3, <1>4, <1>5, <1>7, <1>8, <1>9 DEF PipelineNext

\* Jobs are made of workers, and a worker is of an attempt that is launched.  By the time
\* the handoff of a clean exit is judged, its worker is not the judge any more.
LEMMA JobsStep ==
  ASSUME PipelineTypeOK, AttemptsDiffer, JobsAreLaunched, [PipelineNext]_pipelineVars
  PROVE  JobsAreLaunched'
<1> DEFINE Launchings == Attempts \X {"assemble", "build", "spawn"}
<1>0. /\ attempts \in [PhaseSet -> 0..MaxAttempts] /\ worker \in [PhaseSet -> 0..MaxAttempts]
      /\ launching \in [PhaseSet -> SUBSET Launchings] /\ jobs \in SUBSET Jobs
  BY DEF PipelineTypeOK
<1>1. \A q \in PhaseSet : \A l \in launching[q] : l[1] \in Nat
  BY <1>0, BoundsType
<1> HIDE DEF Launchings
<1>2. \A j \in jobs : j.phase \in PhaseSet /\ j.attempt \in Nat
  BY <1>0, BoundsType DEF Jobs
<1> USE DEF JobsAreLaunched
<1>3. ASSUME NEW p \in PhaseSet, ExecutePhase(p) PROVE JobsAreLaunched'
  <2>1. attempts'[p] = attempts[p] + 1 /\ launching'[p] = launching[p] \cup {<<attempts'[p], "assemble">>}
    BY <1>0, <1>3 DEF ExecutePhase
  <2>2. UNCHANGED <<jobs, workerCtx>> /\ (\A q \in PhaseSet \ {p} : attempts'[q] = attempts[q] /\ launching'[q] = launching[q])
    BY <1>0, <1>3 DEF ExecutePhase
  <2>3. attempts[p] \in Nat
    BY <1>0, BoundsType
  <2> QED
    BY <1>2, <2>1, <2>2, <2>3 DEF OutlivesExit
<1>4. ASSUME NEW p \in PhaseSet, AssembleContext(p) PROVE JobsAreLaunched'
  <2>1. PICK l \in launching[p] :
          \/ launching' = [launching EXCEPT ![p] = (@ \ {l}) \cup {<<l[1], "build">>}]
          \/ launching' = [launching EXCEPT ![p] = @ \ {l}]
    BY <1>4 DEF AssembleContext
  <2>2. \A q \in PhaseSet : \A k \in launching'[q] : \E i \in launching[q] : i[1] = k[1]
    BY <1>0, <2>1
  <2>3. UNCHANGED <<jobs, workerCtx, attempts>>
    BY <1>4 DEF AssembleContext
  <2> QED
    BY <1>2, <2>2, <2>3 DEF OutlivesExit
<1>5. ASSUME NEW p \in PhaseSet, Launch(p) PROVE JobsAreLaunched'
  <2>1. PICK l \in launching[p] :
          /\ launching' = [launching EXCEPT ![p] = (@ \ {l}) \cup {<<l[1], "spawn">>}]
          /\ workerCtx' = <<p, l[1]>>
    BY <1>5 DEF Launch
  <2>2. \A q \in PhaseSet : \A k \in launching'[q] : \E i \in launching[q] : i[1] = k[1]
    BY <1>0, <2>1
  <2>3. UNCHANGED <<jobs, attempts>>
    BY <1>5 DEF Launch
  <2>4. \A j \in jobs : workerCtx' # <<j.phase, j.attempt>>
    BY <2>1
  <2> QED
    BY <1>2, <2>2, <2>3, <2>4 DEF OutlivesExit
<1>6. ASSUME NEW p \in PhaseSet, SpawnWorker(p) PROVE JobsAreLaunched'
  <2>1. \A q \in PhaseSet : launching'[q] \subseteq launching[q]
    BY <1>0, <1>6 DEF SpawnWorker
  <2>2. UNCHANGED <<jobs, workerCtx, attempts>>
    BY <1>6 DEF SpawnWorker
  <2> QED
    BY <1>2, <2>1, <2>2 DEF OutlivesExit
<1>7. ASSUME NEW p \in PhaseSet, NEW end \in Ends, NEW step \in JobSteps
      PROVE  LET j == Job(p, end, step)
             IN  /\ j.phase = p /\ j.end = end /\ j.attempt <= attempts[p]
                 /\ \A l \in launching[p] : l[1] # j.attempt
  BY DEF Job, AttemptsDiffer
<1>8. ASSUME NEW p \in PhaseSet, WorkerExits(p) PROVE JobsAreLaunched'
  <2>1. PICK end \in Ends, step \in JobSteps : jobs' = jobs \cup {Job(p, end, step)}
    BY <1>8 DEF WorkerExits, ProcessWorkerExit, Ends, JobSteps
  <2>2. workerCtx' = NoWorker /\ UNCHANGED <<launching, attempts>>
    BY <1>8 DEF WorkerExits, ProcessWorkerExit
  <2>3. \A j : ~OutlivesExit(j)'
    BY <2>2 DEF OutlivesExit, NoWorker
  <2> QED
    BY <1>7, <2>1, <2>2, <2>3
<1>9. ASSUME NEW p \in PhaseSet, WorkerFails(p) PROVE JobsAreLaunched'
  <2>1. jobs' = jobs \cup {Job(p, "failure", "submit")} /\ UNCHANGED <<launching, attempts, workerCtx>>
    BY <1>9 DEF WorkerFails
  <2>2. \A j : j.end = "failure" => ~OutlivesExit(j)'
    BY DEF OutlivesExit
  <2>3. \A j \in jobs : ~OutlivesExit(j)'
    BY <2>1 DEF OutlivesExit
  <2>4. LET j == Job(p, "failure", "submit")
        IN  j.phase = p /\ j.end = "failure" /\ j.attempt <= attempts[p] /\ (\A l \in launching[p] : l[1] # j.attempt)
    BY <1>7 DEF Ends, JobSteps
  <2> QED
    BY <2>1, <2>2, <2>3, <2>4
<1>10. ASSUME NEW j \in jobs, NEW step, Proceed(j, step), UNCHANGED <<launching, attempts, workerCtx>> PROVE JobsAreLaunched'
  <2>1. LET k == [j EXCEPT !.step = step] IN k.phase = j.phase /\ k.attempt = j.attempt /\ k.end = j.end
    BY <1>0 DEF Jobs
  <2> QED
    BY <1>10, <2>1 DEF Proceed, OutlivesExit
<1>11. ASSUME NEW j \in jobs, SubmitPhaseHandoff(j) \/ SubmitPlan(j) PROVE JobsAreLaunched'
  BY <1>10, <1>11, Zenon DEF SubmitPhaseHandoff, SubmitPlan
<1>12. ASSUME jobs' \subseteq jobs, UNCHANGED <<launching, attempts, workerCtx>> PROVE JobsAreLaunched'
  BY <1>12 DEF OutlivesExit
<1>13. ASSUME NEW p \in PhaseSet, WorkerOutput(p) \/ FlushBuffer(p) \/ IncrementalFlush(p) PROVE JobsAreLaunched'
  BY <1>12, <1>13 DEF WorkerOutput, FlushBuffer, IncrementalFlush
<1>14. ASSUME NEW j \in jobs, WriteReport(j) PROVE JobsAreLaunched'
  BY <1>12, <1>14 DEF WriteReport
<1>15. CASE Abort \/ UNCHANGED pipelineVars
  BY <1>12, <1>15 DEF Abort, pipelineVars
<1> QED
  BY <1>3, <1>4, <1>5, <1>6, <1>8, <1>9, <1>11, <1>13, <1>14, <1>15 DEF PipelineNext

\* A reason other than the worker's own policy is one of the property's.
LEMMA ReasonGiven ==
  ASSUME NEW q, NEW why \in Reasons \ {"own"}, <<q, why>> \in noReport'
  PROVE  Reported(q)'
BY DEF Reported

\* A submission stores a handoff, or is refused or denied with a reason, before its job
\* goes on.
LEMMA JobsReportStep ==
  ASSUME PipelineTypeOK, JobsAreLaunched, JobsReport, [PipelineNext]_pipelineVars
  PROVE  JobsReport'
<1>0. jobs \in SUBSET Jobs /\ handoff \in [PhaseSet -> 0..NoHandoff]
  BY DEF PipelineTypeOK
<1> USE DEF JobsReport
<1>1. \A j \in jobs : j.phase \in PhaseSet
  BY <1>0 DEF Jobs
<1>2. ASSUME jobs' \subseteq jobs PROVE JobsReport'
  BY <1>1, <1>2, ReportedStays
<1>3. ASSUME NEW p \in PhaseSet,
             \/ ExecutePhase(p) \/ AssembleContext(p) \/ Launch(p) \/ SpawnWorker(p)
             \/ WorkerOutput(p) \/ FlushBuffer(p) \/ IncrementalFlush(p)
      PROVE  JobsReport'
  BY <1>2, <1>3 DEF ExecutePhase, AssembleContext, Launch, SpawnWorker, WorkerOutput, FlushBuffer, IncrementalFlush
<1>4. ASSUME NEW p \in PhaseSet, WorkerExits(p) PROVE JobsReport'
  <2>1. CASE jobs' = jobs \cup {Job(p, "zero", "submit")}
    BY <1>1, <2>1, ReportedStays DEF Job
  <2>2. CASE jobs' = jobs \cup {Job(p, "one", "report")} /\ noReport' = noReport \cup {<<p, "nonzero">>}
    <3>1. Reported(p)'
      BY <2>2, ReasonGiven DEF Reasons
    <3>2. LET j == Job(p, "one", "report") IN j.phase = p /\ j.step = "report"
      BY DEF Job
    <3> QED
      BY <1>1, <2>2, <3>1, <3>2, ReportedStays
  <2> QED
    BY <1>4, <2>1, <2>2 DEF WorkerExits, ProcessWorkerExit
<1>5. ASSUME NEW p \in PhaseSet, WorkerFails(p) PROVE JobsReport'
  <2>1. jobs' = jobs \cup {Job(p, "failure", "submit")}
    BY <1>5 DEF WorkerFails
  <2> QED
    BY <1>1, <2>1, ReportedStays DEF Job
<1>6. ASSUME NEW j \in jobs, NEW step, Proceed(j, step),
             step = "plan" => j.end = "zero", j.end # "failure" => Reported(j.phase)'
      PROVE  JobsReport'
  <2>1. LET k == [j EXCEPT !.step = step] IN k.phase = j.phase /\ k.end = j.end /\ k.step = step
    BY <1>0 DEF Jobs
  <2>2. \A k \in jobs : Reported(k.phase) => Reported(k.phase)'
    BY <1>1, ReportedStays
  <2> QED
    BY <1>6, <2>1, <2>2 DEF Proceed
<1>7. ASSUME NEW j \in jobs, SubmitPhaseHandoff(j) PROVE JobsReport'
  <2>1. j.phase \in PhaseSet /\ Submitted(j) # NoHandoff
    BY <1>0, BoundsType DEF Jobs, Submitted, Extracted, Sentinel
  <2>2. CASE HandoffStored(j)
    <3>1. handoff'[j.phase] # NoHandoff
      BY <1>0, <2>1, <2>2 DEF HandoffStored
    <3> QED
      BY <1>6, <1>7, <3>1 DEF SubmitPhaseHandoff, Reported
  <2>3. CASE HandoffRefused(j)
    <3>1. Reported(j.phase)'
      BY <2>3, ReasonGiven DEF HandoffRefused, Reasons
    <3> QED
      BY <1>6, <1>7, <3>1 DEF SubmitPhaseHandoff
  <2>4. CASE HandoffDenied(j)
    <3>1. ~OutlivesExit(j)
      BY DEF JobsAreLaunched
    <3>2. <<j.phase, "denied">> \in noReport'
      BY <2>4, <3>1 DEF HandoffDenied
    <3>3. Reported(j.phase)'
      BY <3>2, ReasonGiven DEF Reasons
    <3> QED
      BY <1>6, <1>7, <3>3 DEF SubmitPhaseHandoff
  <2> QED
    BY <1>7, <2>2, <2>3, <2>4 DEF SubmitPhaseHandoff
<1>8. ASSUME NEW j \in jobs, SubmitPlan(j) PROVE JobsReport'
  <2>1. j.end = "zero" /\ Reported(j.phase)
    BY <1>8 DEF SubmitPlan
  <2>2. Reported(j.phase)'
    BY <1>1, <2>1, ReportedStays
  <2> QED
    BY <1>6, <1>8, <2>1, <2>2 DEF SubmitPlan
<1>9. ASSUME NEW j \in jobs, WriteReport(j) PROVE JobsReport'
  BY <1>2, <1>9 DEF WriteReport
<1>10. CASE Abort \/ UNCHANGED pipelineVars
  BY <1>2, <1>10 DEF Abort, pipelineVars
<1> QED
  BY <1>3, <1>4, <1>5, <1>7, <1>8, <1>9, <1>10 DEF PipelineNext

\* Only a job's report completes a phase, and it comes after the submission.
LEMMA CompletedStep ==
  ASSUME PipelineTypeOK, JobsReport, CompletedReported, [PipelineNext]_pipelineVars
  PROVE  CompletedReported'
<1>0. status \in [PhaseSet -> {"pending", "running", "completed", "failed"}] /\ jobs \in SUBSET Jobs
  BY DEF PipelineTypeOK
<1>1. ASSUME NEW q \in PhaseSet, status[q] = "completed" PROVE Reported(q)'
  BY <1>1, ReportedStays DEF CompletedReported
<1>2. ASSUME NEW q \in PhaseSet, status'[q] = "completed", status[q] # "completed" PROVE Reported(q)'
  <2>1. PICK j \in jobs : WriteReport(j)
    <3>1. ASSUME NEW p \in PhaseSet, ExecutePhase(p) \/ AssembleContext(p) PROVE FALSE
      BY <1>0, <1>2, <3>1 DEF ExecutePhase, AssembleContext, FailedStatus
    <3>2. CASE Abort
      BY <1>0, <1>2, <3>2 DEF Abort
    <3>3. ASSUME UNCHANGED status PROVE FALSE
      BY <1>2, <3>3
    <3>4. ASSUME NEW p \in PhaseSet,
                 \/ Launch(p) \/ SpawnWorker(p) \/ WorkerOutput(p) \/ FlushBuffer(p)
                 \/ IncrementalFlush(p) \/ WorkerExits(p) \/ WorkerFails(p)
          PROVE  FALSE
      BY <3>3, <3>4 DEF Launch, SpawnWorker, WorkerOutput, FlushBuffer, IncrementalFlush, WorkerExits,
                        ProcessWorkerExit, WorkerFails
    <3>5. ASSUME NEW j \in jobs, SubmitPhaseHandoff(j) \/ SubmitPlan(j) PROVE FALSE
      BY <3>3, <3>5 DEF SubmitPhaseHandoff, SubmitPlan
    <3>6. CASE UNCHANGED pipelineVars
      BY <3>3, <3>6 DEF pipelineVars
    <3> QED
      BY <3>1, <3>2, <3>4, <3>5, <3>6 DEF PipelineNext
  <2>2. j.phase \in PhaseSet /\ j.end \in Ends
    BY <1>0 DEF Jobs
  <2>3. q = j.phase /\ j.end # "failure"
    BY <1>0, <1>2, <2>1, <2>2 DEF WriteReport, Verdict, FailedStatus, Ends
  <2>4. Reported(q)
    BY <2>1, <2>3 DEF WriteReport, JobsReport
  <2> QED
    BY <2>4, ReportedStays
<1> QED
  BY <1>1, <1>2 DEF CompletedReported

\* A launch finds its parents completed, so reported.
LEMMA ParentsReportedStep ==
  ASSUME PipelineTypeOK, ParentsCompleted, CompletedReported, ParentsReported, [PipelineNext]_pipelineVars
  PROVE  ParentsReported'
<1>0. DependsOn \in [PhaseSet -> SUBSET PhaseSet]
  BY DependsOnAssumption
<1>1. ASSUME NEW p \in PhaseSet, Launch(p) PROVE ParentsReported'
  <2>1. launching[p] # {} /\ noReport' = noReport /\ missing' = missing \cup ({p} \X NoReportFound(p))
    BY <1>1 DEF Launch
  <2>2. ASSUME NEW q \in NoReportFound(p) PROVE \E why \in Reasons \ {"own"} : <<q, why>> \in noReport
    <3>1. q \in PhaseSet /\ q \in DependsOn[p] /\ handoff[q] = NoHandoff
      BY <1>0, <2>2 DEF NoReportFound
    <3>2. status[q] = "completed"
      BY <2>1, <3>1 DEF ParentsCompleted
    <3> QED
      BY <3>1, <3>2 DEF CompletedReported, Reported
  <2> QED
    BY <2>1, <2>2 DEF ParentsReported
<1>2. ASSUME UNCHANGED missing, noReport \subseteq noReport' PROVE ParentsReported'
  BY <1>2 DEF ParentsReported
<1>3. ASSUME NEW p \in PhaseSet,
             \/ ExecutePhase(p) \/ AssembleContext(p) \/ SpawnWorker(p) \/ WorkerOutput(p) \/ FlushBuffer(p)
             \/ IncrementalFlush(p) \/ WorkerExits(p) \/ WorkerFails(p)
      PROVE  ParentsReported'
  BY <1>2, <1>3 DEF ExecutePhase, AssembleContext, SpawnWorker, WorkerOutput, FlushBuffer, IncrementalFlush,
                    WorkerExits, ProcessWorkerExit, WorkerFails, historyVars
<1>4. ASSUME NEW j \in jobs, SubmitPhaseHandoff(j) \/ SubmitPlan(j) \/ WriteReport(j) PROVE ParentsReported'
  BY <1>2, <1>4 DEF SubmitPhaseHandoff, HandoffStored, HandoffRefused, HandoffDenied, SubmitPlan, WriteReport, historyVars
<1>5. CASE Abort \/ UNCHANGED pipelineVars
  BY <1>2, <1>5 DEF Abort, pipelineVars, historyVars
<1> QED
  BY <1>1, <1>3, <1>4, <1>5 DEF PipelineNext

\* The code behaviour: processWorkerExit has the handoff persisted, or the sentinel,
\* before it tells the engine of the exit, and the engine executes a child only after that.
THEOREM ParentsReportedHolds == PipelineSpec => []ParentsReported
<1>1. PipelineInit => PipelineTypeOK /\ ReportInv
  <2> SUFFICES ASSUME PipelineInit PROVE PipelineTypeOK /\ ReportInv
    OBVIOUS
  <2>1. \A p \in PhaseSet : status[p] = "pending" /\ attempts[p] = 0 /\ launching[p] = {} /\ worker[p] = 0
    BY DEF PipelineInit
  <2>2. jobs = {} /\ missing = {}
    BY DEF PipelineInit
  <2> QED
    BY <2>1, <2>2, PipelineTypeInit
    DEF ReportInv, ParentsCompleted, AttemptsDiffer, JobsAreLaunched, JobsReport, CompletedReported, ParentsReported
<1>2. PipelineTypeOK /\ ReportInv /\ [PipelineNext]_pipelineVars => (PipelineTypeOK /\ ReportInv)'
  BY PipelineTypeStep, ParentsStep, AttemptsStep, JobsStep, JobsReportStep, CompletedStep, ParentsReportedStep DEF ReportInv
<1>3. ReportInv => ParentsReported
  BY DEF ReportInv
<1> QED
  BY <1>1, <1>2, <1>3, PTL DEF PipelineSpec

-----------------------------------------------------------------------------
(* Agent selection                                                         *)

\* Of the built-in profiles one handles planning: the planner's.
OnePlanner ==
  \A i, j \in DOMAIN Registry :
    Registry[i].handles \cap Planning # {} /\ Registry[j].handles \cap Planning # {} =>
      i = j /\ Registry[i].agentType = "Planner"

\* A task of planning gets the planner: no other passes the filter, and none is the
\* planner as well.
LEMMA PlannerIsSelected ==
  ASSUME OnePlanner, NEW spec, spec.task \in Planning
  PROVE  Select(spec) = "Planner"
<1>1. \A i, j \in Passing(spec) : i = j /\ Registry[i].agentType = "Planner"
  <2>1. \A i \in Passing(spec) : i \in DOMAIN Registry /\ spec.task \in Registry[i].handles \cap Planning
    BY DEF Passing, Rejected
  <2> QED
    BY <2>1 DEF OnePlanner
<1>2. CASE Passing(spec) = {}
  BY <1>2 DEF Select
<1>3. ASSUME NEW i \in Passing(spec) PROVE Select(spec) = "Planner"
  <2>1. Passing(spec) = {i} /\ Registry[i].agentType = "Planner"
    BY <1>1
  <2>2. Best(Passing(spec), spec) = i
    BY <2>1 DEF Best
  <2>3. Passing(spec) \ {Best(Passing(spec), spec)} = {}
    BY <2>1, <2>2
  <2> QED
    BY <2>1, <2>2, <2>3 DEF Select
<1> QED
  BY <1>2, <1>3

\* The code behaviour: the validator refuses a prompt without known inputs for every task but those of
\* planning, and the dispatcher knows no input: whatever the phases, skills, files and
\* further levels of the registry are, with selection on only the planner gets a prompt.
THEOREM CompiledIsPlanningHolds ==
  ASSUME OnePlanner
  PROVE  AgentSpec => []CompiledIsPlanning
<1>1. AgentInit => CompiledIsPlanning
  BY DEF AgentInit, Waiting, CompiledIsPlanning
<1>2. CompiledIsPlanning /\ [AgentNext]_selectionVars => CompiledIsPlanning'
  <2>1. CASE RunAgentSelectionGuard
    <3> DEFINE spec == SubtaskSpec(draft)
    <3>1. spec.task = TaskType(draft.text) /\ spec.inputs = {}
      BY DEF SubtaskSpec
    <3>2. selection'.compiled => pipeline = "on" /\ selection'.agent # "threw" /\ selection'.agent = Pipeline(spec)
      BY <2>1 DEF RunAgentSelectionGuard
    <3>3. Pipeline(spec) # "threw" => Pipeline(spec) = Select(spec) /\ spec.task \in Planning
      BY <3>1 DEF Pipeline, ValidPrompt
    <3>4. UNCHANGED draft
      BY <2>1 DEF RunAgentSelectionGuard
    <3> QED
      BY <3>1, <3>2, <3>3, <3>4, PlannerIsSelected DEF CompiledIsPlanning
  <2>2. CASE UNCHANGED selectionVars
    BY <2>2 DEF selectionVars, CompiledIsPlanning
  <2> QED
    BY <2>1, <2>2 DEF AgentNext
<1> QED
  BY <1>1, <1>2, PTL DEF AgentSpec

-----------------------------------------------------------------------------
(* Listing                                                                 *)

\* An injection into a finite set of the same size is onto.
LEMMA InjectionIsOnto ==
  ASSUME NEW S, NEW T, IsFiniteSet(T), Cardinality(S) = Cardinality(T), NEW f \in Injection(S, T)
  PROVE  f \in Surjection(S, T)
  BY FS_Injection

\* Elements that are ordered have the places 1 to n: each place is one element's.
LEMMA RankLists ==
  ASSUME NEW S, IsFiniteSet(S), NEW below \in [S -> SUBSET S],
         \A x \in S : x \in below[x],
         \A x, y \in S : \/ x = y
                         \/ below[x] \subseteq below[y] /\ y \notin below[x]
                         \/ below[y] \subseteq below[x] /\ x \notin below[y]
  PROVE  /\ Cardinality(S) \in Nat
         /\ \A x \in S : Cardinality(below[x]) \in 1..Cardinality(S)
         /\ \A x, y \in S : Cardinality(below[x]) = Cardinality(below[y]) => x = y
         /\ \A n \in 1..Cardinality(S) : \E x \in S : Cardinality(below[x]) = n
<1> DEFINE place == [x \in S |-> Cardinality(below[x])]
<1>1. Cardinality(S) \in Nat
  BY FS_CardinalityType
<1>2. \A x \in S : /\ IsFiniteSet(below[x]) /\ Cardinality(below[x]) \in Nat
                   /\ Cardinality(below[x]) <= Cardinality(S)
  BY FS_Subset, FS_CardinalityType
<1>3. \A x \in S : Cardinality(below[x]) # 0
  BY <1>2, FS_EmptySet
<1>4. \A x \in S : Cardinality(below[x]) \in 1..Cardinality(S)
  BY <1>1, <1>2, <1>3
<1>5. ASSUME NEW x \in S, NEW y \in S, below[x] \subseteq below[y], y \notin below[x]
      PROVE  Cardinality(below[x]) # Cardinality(below[y])
  <2>1. below[x] # below[y] /\ below[x] \in SUBSET below[y]
    BY <1>5
  <2> QED
    BY <2>1, <1>2, FS_Subset
<1>6. \A x, y \in S : Cardinality(below[x]) = Cardinality(below[y]) => x = y
  BY <1>5
<1>7. place \in Injection(S, 1..Cardinality(S))
  BY <1>4, <1>6, Fun_IsInj
<1>8. IsFiniteSet(1..Cardinality(S)) /\ Cardinality(1..Cardinality(S)) = Cardinality(S)
  BY <1>1, FS_Interval
<1>9. place \in Surjection(S, 1..Cardinality(S))
  <2> DEFINE T == 1..Cardinality(S)
  <2>1. place \in Injection(S, T) /\ IsFiniteSet(T) /\ Cardinality(S) = Cardinality(T)
    BY <1>7, <1>8
  <2> HIDE DEF T, place
  <2>2. place \in Surjection(S, T)
    BY <2>1, InjectionIsOnto, Zenon
  <2> QED
    BY <2>2 DEF T
<1> HIDE DEF place
<1>10. \A n \in 1..Cardinality(S) : \E x \in S : place[x] = n
  BY <1>9 DEF Surjection
<1>11. \A n \in 1..Cardinality(S) : \E x \in S : Cardinality(below[x]) = n
  BY <1>10 DEF place
<1> QED
  BY <1>1, <1>4, <1>6, <1>11

\* Ascending lists each number of a set once.
LEMMA AscendingPlaces ==
  ASSUME NEW S, IsFiniteSet(S), S \subseteq Int
  PROVE  /\ Cardinality(S) \in Nat /\ DOMAIN Ascending(S) = 1..Cardinality(S)
         /\ \A n \in 1..Cardinality(S) : Ascending(S)[n] \in S
         /\ \A m, n \in 1..Cardinality(S) : Ascending(S)[m] = Ascending(S)[n] => m = n
         /\ \A x \in S : \E n \in 1..Cardinality(S) : Ascending(S)[n] = x
<1> DEFINE below == [x \in S |-> UpTo(S, x)]
<1>1. below \in [S -> SUBSET S] /\ \A x \in S : x \in below[x] /\ below[x] = UpTo(S, x)
  BY DEF UpTo
<1>2. ASSUME NEW x \in S, NEW y \in S, x < y PROVE below[x] \subseteq below[y] /\ y \notin below[x]
  <2>1. (\A k \in S : k <= x => k <= y) /\ ~(y <= x)
    BY <1>2
  <2> QED
    BY <2>1 DEF UpTo
<1>3. \A x, y \in S : \/ x = y
                      \/ below[x] \subseteq below[y] /\ y \notin below[x]
                      \/ below[y] \subseteq below[x] /\ x \notin below[y]
  <2>1. \A x, y \in S : x = y \/ x < y \/ y < x
    OBVIOUS
  <2> QED
    BY <2>1, <1>2
<1> HIDE DEF below
<1>4. /\ Cardinality(S) \in Nat
      /\ \A x \in S : Cardinality(below[x]) \in 1..Cardinality(S)
      /\ \A x, y \in S : Cardinality(below[x]) = Cardinality(below[y]) => x = y
      /\ \A n \in 1..Cardinality(S) : \E x \in S : Cardinality(below[x]) = n
  <2>1. below \in [S -> SUBSET S] /\ \A x \in S : x \in below[x]
    BY <1>1
  <2> QED
    BY <2>1, <1>3, RankLists, Zenon
<1>5. \A n \in 1..Cardinality(S) : Ascending(S)[n] \in S /\ Cardinality(below[Ascending(S)[n]]) = n
  BY <1>1, <1>4 DEF Ascending
<1>6. ASSUME NEW x \in S PROVE Ascending(S)[Cardinality(below[x])] = x
  <2>1. Cardinality(below[x]) \in 1..Cardinality(S)
    BY <1>4
  <2>2. /\ Ascending(S)[Cardinality(below[x])] \in S
        /\ Cardinality(below[Ascending(S)[Cardinality(below[x])]]) = Cardinality(below[x])
    BY <2>1, <1>5
  <2> QED
    BY <2>2, <1>4
<1> QED
  BY <1>4, <1>5, <1>6 DEF Ascending

\* A filtered sequence has what is at a place kept, once for each.
LEMMA OnlyKeeps ==
  ASSUME NEW s, NEW places, IsFiniteSet(places), places \subseteq Int
  PROVE  /\ Cardinality(places) \in Nat
         /\ DOMAIN Only(s, places) = 1..Cardinality(places)
         /\ \A n \in DOMAIN Only(s, places) :
              Ascending(places)[n] \in places /\ Only(s, places)[n] = s[Ascending(places)[n]]
         /\ \A m, n \in DOMAIN Only(s, places) : Ascending(places)[m] = Ascending(places)[n] => m = n
         /\ \A i \in places : \E n \in DOMAIN Only(s, places) : Only(s, places)[n] = s[i]
  BY AscendingPlaces DEF Only

-----------------------------------------------------------------------------
(* The context of a phase                                                  *)

\* The calls of enqueue there can be, and the entries.
Calls == Range(Explicitly) \cup UNION {Range(Following(f, d + 1)) : f \in SourceFiles, d \in Nat}
Entries == {[path |-> p, tokens |-> Tokens[FileOf[p]] + Wrapper, explicit |-> Explicit(p)] : p \in Paths}

\* The types of an assembly.
ContextTypeOK ==
  /\ resolver \in {"ast", "explicit"}
  /\ stack \in Seq(Calls) /\ visited \subseteq SourceFiles
  /\ resolved \in Seq(Paths) /\ pending \in Seq(Paths) /\ entries \in Seq(Entries)
  /\ outcome \in {"resolving", "reading", "ok", "FILE_NOT_FOUND", "BINARY_FILE", "SECRETS_BLOCKED", "TOKEN_OVER_BUDGET"}
  /\ disk \subseteq SourceFiles /\ touched \subseteq SourceFiles

\* A file that must be there at the end.
Due(f) == f \in SourceFiles \ touched /\ Explicit(f) /\ f \in disk /\ KindOf[f] = "text"

\* A sequence of paths has the file under a name that the phase gives it.
Names(paths, f) == \E i \in DOMAIN paths : Explicit(paths[i]) /\ FileOf[paths[i]] = f
Called(f) == \E i \in DOMAIN stack : stack[i].depth = 0 /\ stack[i].path = f
Entered(f) == \E i \in DOMAIN entries : Explicit(entries[i].path) /\ FileOf[entries[i].path] = f

\* The walk has the file, or is yet to be called for it.
WalkMeets == outcome = "resolving" /\ resolver = "ast" =>
  \A f \in SourceFiles : Due(f) => IF f \in visited THEN Names(resolved, f) ELSE Called(f)

\* What is to be read or was read has the file.
ReadMeets == outcome = "reading" => \A f \in SourceFiles : Due(f) => Names(pending, f) \/ Entered(f)

ContextInv == ContextTypeOK /\ WalkMeets /\ ReadMeets /\ ExplicitFilesStay

\* The paths and the calls.
LEMMA ContextTypes ==
  /\ SourceFiles \subseteq Paths
  /\ \A p \in Paths : FileOf[p] \in SourceFiles
  /\ \A f \in SourceFiles : FileOf[f] = f
  /\ ContextFiles \in Seq(Paths)
  /\ \A p \in Paths : [path |-> p, tokens |-> Tokens[FileOf[p]] + Wrapper, explicit |-> Explicit(p)] \in Entries
  /\ \A e \in Entries : e.path \in Paths /\ e.explicit = Explicit(e.path)
  BY ContextAssumption DEF SourceFiles, Entries

LEMMA ImportsList ==
  ASSUME NEW f \in SourceFiles
  PROVE  /\ Len(ExtractImports(f)) \in Nat
         /\ DOMAIN ExtractImports(f) = 1..Len(ExtractImports(f))
<1> DEFINE places == {i \in DOMAIN Statements[f] : Statements[f][i].form \in Forms[LanguageOf[f]]}
<1>1. Statements[f] \in Seq(Range(Statements[f]))
  BY ContextAssumption
<1>2. DOMAIN Statements[f] = 1..Len(Statements[f]) /\ Len(Statements[f]) \in Nat
  BY <1>1
<1>3. IsFiniteSet(DOMAIN Statements[f])
  BY <1>2, FS_Interval
<1>4. IsFiniteSet(places) /\ places \subseteq Int
  BY <1>2, <1>3, FS_Subset
<1> HIDE DEF places
<1>5. DOMAIN ExtractImports(f) = 1..Cardinality(places) /\ Cardinality(places) \in Nat
  BY <1>4, OnlyKeeps DEF ExtractImports, places
<1> QED
  BY <1>5

\* The calls for a file's imports are calls, of some depth.
LEMMA FollowingCalls ==
  ASSUME NEW f \in SourceFiles, NEW d \in Nat
  PROVE  /\ Following(f, d + 1) \in Seq(Calls)
         /\ \A i \in DOMAIN Following(f, d + 1) : Following(f, d + 1)[i].depth = d + 1
<1>1. DOMAIN Following(f, d + 1) = DOMAIN ExtractImports(f)
  BY DEF Following
<1>2. \A i \in DOMAIN Following(f, d + 1) : Following(f, d + 1)[i].depth = d + 1
  BY DEF Following
<1>3. \A i \in DOMAIN Following(f, d + 1) : Following(f, d + 1)[i] \in Calls
  <2>1. \A i \in DOMAIN Following(f, d + 1) : Following(f, d + 1)[i] \in Range(Following(f, d + 1))
    BY DEF Range
  <2> QED
    BY <2>1 DEF Calls
<1>4. Following(f, d + 1) = [i \in DOMAIN Following(f, d + 1) |-> Following(f, d + 1)[i]]
  BY DEF Following
<1>5. Following(f, d + 1) \in [1..Len(ExtractImports(f)) -> Calls]
  BY <1>1, <1>3, <1>4, ImportsList
<1> QED
  BY <1>2, <1>5, ImportsList

\* A call has a depth; one of depth 0 is a path of the phase.
LEMMA CallsFit ==
  ASSUME NEW c \in Calls
  PROVE  /\ c.depth \in Nat
         /\ c.depth = 0 => c.path \in Paths /\ Explicit(c.path)
<1>1. CASE c \in Range(Explicitly)
  <2>1. PICK i \in DOMAIN ContextFiles : c = [depth |-> 0, path |-> ContextFiles[i]]
    BY <1>1 DEF Range, Explicitly
  <2>2. ContextFiles[i] \in Paths /\ ContextFiles[i] \in Range(ContextFiles)
    BY ContextTypes DEF Range
  <2> QED
    BY <2>1, <2>2 DEF Explicit
<1>2. CASE \E f \in SourceFiles, d \in Nat : c \in Range(Following(f, d + 1))
  <2>1. PICK f \in SourceFiles, d \in Nat : c \in Range(Following(f, d + 1))
    BY <1>2
  <2>2. c.depth = d + 1
    BY <2>1, FollowingCalls DEF Range
  <2> QED
    BY <2>2
<1> QED
  BY <1>1, <1>2 DEF Calls

\* What the phase names is not among what may be dropped.
LEMMA WithoutFirstKeeps ==
  ASSUME NEW es, IsFiniteSet(DOMAIN es), DOMAIN es \subseteq Int,
         NEW i \in DOMAIN es, es[i].explicit, NEW k
  PROVE  \E n \in DOMAIN WithoutFirst(es, k) : WithoutFirst(es, k)[n] = es[i]
<1> DEFINE kept == {j \in DOMAIN es : j \in Droppable(es) => Cardinality(NoLater(es, j)) > k}
<1> HIDE DEF kept
<1>1. kept \in SUBSET DOMAIN es /\ i \in kept
  BY DEF Droppable, kept
<1>2. IsFiniteSet(kept) /\ kept \subseteq Int
  BY <1>1, FS_Subset
<1>3. WithoutFirst(es, k) = Only(es, kept)
  BY DEF WithoutFirst, kept
<1>4. \E n \in DOMAIN Only(es, kept) : Only(es, kept)[n] = es[i]
  BY <1>1, <1>2, OnlyKeeps
<1> QED
  BY <1>3, <1>4

\* Pruning drops nothing that the phase names.
LEMMA PruneKeeps ==
  ASSUME NEW es \in Seq(Entries), NEW i \in DOMAIN es, es[i].explicit
  PROVE  \E n \in DOMAIN Prune(es) : Prune(es)[n].path = es[i].path
<1>1. DOMAIN es = 1..Len(es) /\ Len(es) \in Nat
  OBVIOUS
<1>2. IsFiniteSet(DOMAIN es)
  BY <1>1, FS_Interval
<1>3. \A k : \E n \in DOMAIN WithoutFirst(es, k) : WithoutFirst(es, k)[n] = es[i]
  BY <1>1, <1>2, WithoutFirstKeeps
<1> DEFINE left == DropDiscovered(es)
<1>4. PICK n \in DOMAIN left : left[n] = es[i]
  BY <1>3 DEF DropDiscovered
<1>5. es[i] \in Entries
  OBVIOUS
<1>6. \A t : \A e \in Entries : [e EXCEPT !.tokens = t].path = e.path
  BY DEF Entries
<1>7. n \in DOMAIN StripBodies(left) /\ StripBodies(left)[n].path = es[i].path
  <2>1. DOMAIN StripBodies(left) = DOMAIN left
    BY DEF StripBodies
  <2>2. StripBodies(left)[n] = LET f == FileOf[left[n].path]
           IN  IF StripFunctionBodies(f) < Tokens[f] THEN [left[n] EXCEPT !.tokens = StripFunctionBodies(f)] ELSE left[n]
    BY <1>4 DEF StripBodies
  <2> QED
    BY <2>1, <2>2, <1>4, <1>5, <1>6
<1>8. StripBodies(left)[n] = es[i] \/ \E t : StripBodies(left)[n] = [es[i] EXCEPT !.tokens = t]
  BY <1>4 DEF StripBodies
<1>9. \A t, u : [[es[i] EXCEPT !.tokens = t] EXCEPT !.tokens = u].path = es[i].path
  BY <1>5 DEF Entries
<1> DEFINE stripped == StripBodies(left)
<1>10. n \in DOMAIN Truncate(stripped) /\ Truncate(stripped)[n].path = es[i].path
  <2>1. n \in DOMAIN stripped
    BY <1>7
  <2>2. Truncate(stripped)[n] = stripped[n] \/ \E u : Truncate(stripped)[n] = [stripped[n] EXCEPT !.tokens = u]
    BY <2>1 DEF Truncate
  <2>3. DOMAIN Truncate(stripped) = DOMAIN stripped
    BY DEF Truncate
  <2>4. \A u : [stripped[n] EXCEPT !.tokens = u].path = es[i].path
    BY <1>5, <1>6, <1>8, <1>9
  <2> QED
    BY <2>1, <2>2, <2>3, <2>4, <1>7
<1>11. Prune(es) \in {left, stripped, Truncate(stripped)}
  BY DEF Prune
<1> HIDE DEF left, stripped
<1> QED
  BY <1>4, <1>7, <1>10, <1>11 DEF stripped

\* An assembly starts with a call for each path of the phase.
LEMMA ContextInitInv == ContextInit => ContextInv
<1> SUFFICES ASSUME ContextInit PROVE ContextInv
  OBVIOUS
<1>1. ContextFiles \in Seq(Paths) /\ DOMAIN ContextFiles = 1..Len(ContextFiles) /\ Len(ContextFiles) \in Nat
  BY ContextTypes
<1>2. stack \in Seq(Calls)
  <2>1. \A i \in DOMAIN Explicitly : Explicitly[i] \in Calls
    BY DEF Calls, Range
  <2>2. Explicitly \in [1..Len(ContextFiles) -> Calls]
    BY <1>1, <2>1 DEF Explicitly
  <2> QED
    BY <1>1, <2>2 DEF ContextInit
<1>3. << >> \in Seq(Paths) /\ << >> \in Seq(Entries)
  OBVIOUS
<1>4. ContextTypeOK
  BY <1>2, <1>3 DEF ContextInit, ContextTypeOK
<1>5. \A f \in SourceFiles : Due(f) => Called(f)
  <2> SUFFICES ASSUME NEW f \in SourceFiles, Explicit(f) PROVE Called(f)
    BY DEF Due
  <2>1. PICK i \in DOMAIN ContextFiles : ContextFiles[i] = f
    BY DEF Explicit, Range
  <2>2. stack = Explicitly
    BY DEF ContextInit
  <2>3. i \in DOMAIN stack /\ stack[i].depth = 0 /\ stack[i].path = f
    BY <2>1, <2>2 DEF Explicitly
  <2> QED
    BY <2>3 DEF Called
<1>6. visited = {} /\ outcome = "resolving"
  BY DEF ContextInit
<1> QED
  BY <1>4, <1>5, <1>6 DEF ContextInv, WalkMeets, ReadMeets, ExplicitFilesStay

\* What is due was due before: a file that another touches is due no longer.
LEMMA DueWasDue ==
  ASSUME [ContextNext]_contextVars, NEW f \in SourceFiles, Due(f)'
  PROVE  Due(f)
<1>1. CASE UNCHANGED <<disk, touched>>
  BY <1>1 DEF Due
<1>2. CASE \E g \in SourceFiles : OtherWorkerEdits(g)
  BY <1>2 DEF OtherWorkerEdits, Due
<1>3. UNCHANGED <<disk, touched>> \/ \E g \in SourceFiles : OtherWorkerEdits(g)
  BY DEF ContextNext, contextVars, Enqueue, Resolved, ReadFile, Pruned, ChangeBlocking
<1> QED
  BY <1>1, <1>2, <1>3

\* One call of enqueue.
LEMMA EnqueueStep == ContextInv /\ Enqueue => ContextInv'
<1> SUFFICES ASSUME ContextInv, Enqueue PROVE ContextInv'
  OBVIOUS
<1> DEFINE call == Head(stack)
           found == IF call.depth = 0 THEN {call.path} ELSE TryResolveFile(call.bases)
<1>1. ContextTypeOK /\ outcome = "resolving" /\ resolver = "ast" /\ stack # << >>
  BY DEF ContextInv, Enqueue
<1>2. /\ stack \in Seq(Calls) /\ DOMAIN stack = 1..Len(stack) /\ Len(stack) \in Nat \ {0}
      /\ call \in Calls /\ call = stack[1]
      /\ Tail(stack) \in Seq(Calls) /\ DOMAIN Tail(stack) = 1..(Len(stack) - 1)
      /\ \A i \in DOMAIN Tail(stack) : Tail(stack)[i] = stack[i + 1]
  BY <1>1, EmptySeq DEF ContextTypeOK
<1>3. call.depth \in Nat /\ (call.depth = 0 => call.path \in Paths /\ Explicit(call.path))
  BY <1>2, CallsFit
<1>4. \A p \in found : p \in Paths /\ FileOf[p] \in SourceFiles /\ (Explicit(FileOf[p]) => Explicit(p))
  <2>1. \A p \in TryResolveFile(call.bases) : p \in SourceFiles
    BY <1>1 DEF TryResolveFile, ContextTypeOK
  <2> QED
    BY <1>3, <2>1, ContextTypes
<1>5. UNCHANGED <<outcome, resolver, disk, touched, pending, entries, payload>>
  BY DEF Enqueue
<1>6. ASSUME NEW f \in SourceFiles, Called(f), ~(call.depth = 0 /\ call.path = f)
      PROVE  \E i \in DOMAIN Tail(stack) : Tail(stack)[i].depth = 0 /\ Tail(stack)[i].path = f
  <2>1. PICK i \in DOMAIN stack : stack[i].depth = 0 /\ stack[i].path = f
    BY <1>6 DEF Called
  <2>2. i # 1
    BY <2>1, <1>2, <1>6
  <2>3. i - 1 \in DOMAIN Tail(stack) /\ Tail(stack)[i - 1] = stack[i]
    BY <2>1, <2>2, <1>2
  <2> QED
    BY <2>1, <2>3
<1>7. \/ /\ \A p \in found : Passed(FileOf[p], call.depth)
         /\ stack' = Tail(stack) /\ UNCHANGED <<visited, resolved>>
      \/ \E p \in found :
           /\ ~Passed(FileOf[p], call.depth)
           /\ visited' = visited \cup {FileOf[p]}
           /\ IF FileOf[p] \in disk
              THEN /\ resolved' = Append(resolved, p)
                   /\ stack' = Following(FileOf[p], call.depth + 1) \o Tail(stack)
              ELSE stack' = Tail(stack) /\ UNCHANGED resolved
  BY DEF Enqueue
<1>8. \A f \in SourceFiles : Due(f)' => Due(f)
  BY DueWasDue DEF ContextNext
<1>9. \A f \in SourceFiles : Due(f) => IF f \in visited THEN Names(resolved, f) ELSE Called(f)
  BY <1>1 DEF ContextInv, WalkMeets
<1>10. ~(outcome' = "reading") /\ ~(outcome' = "ok")
  BY <1>1, <1>5
<1> HIDE DEF call, found
<1>11. CASE (\A p \in found : Passed(FileOf[p], call.depth)) /\ stack' = Tail(stack) /\ UNCHANGED <<visited, resolved>>
  <2>1. ContextTypeOK'
    BY <1>1, <1>2, <1>5, <1>11 DEF ContextTypeOK
  <2>2. ASSUME NEW f \in SourceFiles, Due(f), f \notin visited PROVE Called(f)'
    <3>1. ~(call.depth = 0 /\ call.path = f)
      <4> SUFFICES ASSUME call.depth = 0, call.path = f PROVE FALSE
        OBVIOUS
      <4>1. Passed(f, 0)
        BY <1>11, ContextTypes DEF found
      <4> QED
        BY <4>1, <2>2, ContextAssumption DEF Passed, Due
    <3>2. Called(f)
      BY <1>9, <2>2
    <3> QED
      BY <3>1, <3>2, <1>6, <1>11 DEF Called
  <2>3. WalkMeets'
    BY <1>8, <1>9, <1>11, <2>2 DEF WalkMeets, Names
  <2> QED
    BY <2>1, <2>3, <1>10 DEF ContextInv, ReadMeets, ExplicitFilesStay
<1>12. ASSUME NEW p \in found,
              ~Passed(FileOf[p], call.depth),
              visited' = visited \cup {FileOf[p]},
              FileOf[p] \in disk,
              resolved' = Append(resolved, p),
              stack' = Following(FileOf[p], call.depth + 1) \o Tail(stack)
       PROVE  ContextInv'
  <2> DEFINE calls == Following(FileOf[p], call.depth + 1)
  <2>1. calls \in Seq(Calls)
    BY <1>3, <1>4, FollowingCalls
  <2> HIDE DEF calls
  <2>2. stack' = calls \o Tail(stack) /\ stack' \in Seq(Calls)
    BY <1>2, <2>1, <1>12 DEF calls
  <2>3. resolved \in Seq(Paths) /\ resolved' \in Seq(Paths)
    BY <1>1, <1>4, <1>12 DEF ContextTypeOK
  <2>4. ContextTypeOK'
    BY <1>1, <1>4, <1>5, <1>12, <2>2, <2>3 DEF ContextTypeOK
  <2>5. Len(calls) \in Nat /\ \A i \in DOMAIN Tail(stack) : /\ Len(calls) + i \in DOMAIN stack'
                                                           /\ stack'[Len(calls) + i] = Tail(stack)[i]
    BY <1>2, <2>1, <2>2
  <2>6. \A i \in DOMAIN resolved : i \in DOMAIN resolved' /\ resolved'[i] = resolved[i]
    BY <2>3, <1>4, <1>12
  <2>7. Len(resolved) + 1 \in DOMAIN resolved' /\ resolved'[Len(resolved) + 1] = p
    BY <2>3, <1>4, <1>12
  <2>8. ASSUME NEW f \in SourceFiles, Due(f) PROVE IF f \in visited' THEN Names(resolved', f) ELSE Called(f)'
    <3>1. CASE f \in visited
      BY <3>1, <1>9, <1>12, <2>6, <2>8 DEF Names
    <3>2. CASE f = FileOf[p]
      <4>1. Explicit(p)
        BY <3>2, <2>8, <1>4 DEF Due
      <4> QED
        BY <3>2, <4>1, <1>12, <2>7 DEF Names
    <3>3. CASE f \notin visited /\ f # FileOf[p]
      <4>1. ~(call.depth = 0 /\ call.path = f)
        BY <3>3, ContextTypes DEF found
      <4>2. Called(f)
        BY <3>3, <1>9, <2>8
      <4>3. PICK i \in DOMAIN Tail(stack) : Tail(stack)[i].depth = 0 /\ Tail(stack)[i].path = f
        BY <4>1, <4>2, <1>6
      <4>4. Called(f)'
        BY <4>3, <2>5 DEF Called
      <4> QED
        BY <3>3, <4>4, <1>12
    <3> QED
      BY <3>1, <3>2, <3>3
  <2>9. WalkMeets'
    BY <1>8, <2>8 DEF WalkMeets, Names
  <2> QED
    BY <2>4, <2>9, <1>10 DEF ContextInv, ReadMeets, ExplicitFilesStay
<1>13. ASSUME NEW p \in found,
              ~Passed(FileOf[p], call.depth),
              visited' = visited \cup {FileOf[p]},
              FileOf[p] \notin disk,
              stack' = Tail(stack), UNCHANGED resolved
       PROVE  ContextInv'
  <2>1. ContextTypeOK'
    BY <1>1, <1>2, <1>4, <1>5, <1>13 DEF ContextTypeOK
  <2>2. ASSUME NEW f \in SourceFiles, Due(f) PROVE IF f \in visited' THEN Names(resolved', f) ELSE Called(f)'
    <3>1. f # FileOf[p]
      BY <2>2, <1>13 DEF Due
    <3>2. CASE f \in visited
      BY <3>2, <1>9, <1>13, <2>2
    <3>3. CASE f \notin visited
      <4>1. ~(call.depth = 0 /\ call.path = f)
        BY <3>1, ContextTypes DEF found
      <4>2. Called(f)
        BY <3>3, <1>9, <2>2
      <4>3. Called(f)'
        BY <4>1, <4>2, <1>6, <1>13 DEF Called
      <4> QED
        BY <3>1, <3>3, <4>3, <1>13
    <3> QED
      BY <3>2, <3>3
  <2>3. WalkMeets'
    BY <1>8, <2>2 DEF WalkMeets, Names
  <2> QED
    BY <2>1, <2>3, <1>10 DEF ContextInv, ReadMeets, ExplicitFilesStay
<1> QED
  BY <1>7, <1>11, <1>12, <1>13

\* What was resolved is read: both ways have the paths of the phase.
LEMMA ResolvedStep == ContextInv /\ Resolved => ContextInv'
<1> SUFFICES ASSUME ContextInv, Resolved PROVE ContextInv'
  OBVIOUS
<1>1. ContextTypeOK'
  BY ContextTypes DEF ContextInv, ContextTypeOK, Resolved
<1>2. ASSUME NEW f \in SourceFiles, Due(f) PROVE Names(pending', f)
  <2>1. CASE resolver = "ast"
    <3>1. DOMAIN stack = {} /\ pending' = resolved /\ outcome = "resolving"
      BY <2>1 DEF Resolved
    <3>2. ~Called(f)
      BY <3>1 DEF Called
    <3>3. Names(resolved, f)
      BY <1>2, <2>1, <3>1, <3>2 DEF ContextInv, WalkMeets
    <3> QED
      BY <3>1, <3>3
  <2>2. CASE resolver # "ast"
    <3>1. pending' = ContextFiles
      BY <2>2 DEF Resolved
    <3>2. PICK i \in DOMAIN ContextFiles : ContextFiles[i] = f
      BY <1>2 DEF Due, Explicit, Range
    <3>3. Explicit(ContextFiles[i]) /\ FileOf[ContextFiles[i]] = f
      BY <3>2, <1>2, ContextTypes DEF Due
    <3> QED
      BY <3>1, <3>2, <3>3 DEF Names
  <2> QED
    BY <2>1, <2>2
<1>3. \A f \in SourceFiles : Due(f)' => Due(f)
  BY DueWasDue DEF ContextNext
<1>4. ReadMeets'
  BY <1>2, <1>3 DEF ReadMeets, Names
<1>5. outcome' = "reading"
  BY DEF Resolved
<1> QED
  BY <1>1, <1>4, <1>5 DEF ContextInv, WalkMeets, ExplicitFilesStay

\* A file of the phase that is there and is text becomes an entry, or the assembly ends.
LEMMA ReadFileStep == ContextInv /\ ReadFile => ContextInv'
<1> SUFFICES ASSUME ContextInv, ReadFile PROVE ContextInv'
  OBVIOUS
<1> DEFINE path == Head(pending)
           entry == [path |-> path, tokens |-> Tokens[FileOf[path]] + Wrapper, explicit |-> Explicit(path)]
<1>1. ContextTypeOK /\ outcome = "reading" /\ pending # << >> /\ pending' = Tail(pending)
  BY DEF ContextInv, ReadFile
<1>2. /\ pending \in Seq(Paths) /\ DOMAIN pending = 1..Len(pending) /\ Len(pending) \in Nat \ {0}
      /\ path \in Paths /\ path = pending[1]
      /\ pending' \in Seq(Paths) /\ DOMAIN pending' = 1..(Len(pending) - 1)
      /\ \A i \in DOMAIN pending' : pending'[i] = pending[i + 1]
  BY <1>1, EmptySeq DEF ContextTypeOK
<1>3. entry \in Entries /\ entry.path = path
  BY <1>2, ContextTypes
<1>4. UNCHANGED <<blocking, resolver, stack, visited, resolved, disk, touched, payload>>
  BY DEF ReadFile
<1>5. \/ outcome' = "reading" /\ entries' = Append(entries, entry)
      \/ /\ outcome' = "reading" /\ UNCHANGED entries
         /\ KindOf[FileOf[path]] \in {"outside", "folder", "huge"}
      \/ outcome' \in {"FILE_NOT_FOUND", "BINARY_FILE", "SECRETS_BLOCKED"} /\ UNCHANGED entries
  BY <1>1 DEF ReadFile
<1> HIDE DEF entry, path
<1>6. entries' \in Seq(Entries)
  <2>1. entries \in Seq(Entries)
    BY <1>1 DEF ContextTypeOK
  <2>2. Append(entries, entry) \in Seq(Entries)
    BY <2>1, <1>3
  <2> QED
    BY <2>1, <2>2, <1>5
<1>7. ContextTypeOK'
  BY <1>1, <1>2, <1>4, <1>5, <1>6 DEF ContextTypeOK
<1>8. \A f \in SourceFiles : Due(f)' => Due(f)
  BY DueWasDue DEF ContextNext
<1>9. ASSUME NEW f \in SourceFiles, Due(f), outcome' = "reading"
      PROVE  Names(pending', f) \/ Entered(f)'
  <2>1. Names(pending, f) \/ Entered(f)
    BY <1>1, <1>9 DEF ContextInv, ReadMeets
  <2>2. CASE Entered(f)
    <3>1. PICK i \in DOMAIN entries : Explicit(entries[i].path) /\ FileOf[entries[i].path] = f
      BY <2>2 DEF Entered
    <3>2. entries \in Seq(Entries)
      BY <1>1 DEF ContextTypeOK
    <3>3. i \in DOMAIN entries' /\ entries'[i] = entries[i]
      BY <3>1, <3>2, <1>3, <1>5, <1>9
    <3> QED
      BY <3>1, <3>3 DEF Entered
  <2>3. CASE Names(pending, f)
    <3>1. PICK i \in DOMAIN pending : Explicit(pending[i]) /\ FileOf[pending[i]] = f
      BY <2>3 DEF Names
    <3>2. CASE i # 1
      <4>1. i - 1 \in DOMAIN pending' /\ pending'[i - 1] = pending[i]
        BY <3>1, <3>2, <1>2
      <4> QED
        BY <3>1, <4>1 DEF Names
    <3>3. CASE i = 1
      <4>1. Explicit(path) /\ FileOf[path] = f /\ KindOf[FileOf[path]] = "text"
        BY <3>1, <3>3, <1>2, <1>9 DEF Due
      <4>2. entries' = Append(entries, entry)
        BY <4>1, <1>5, <1>9
      <4>3. entries \in Seq(Entries)
        BY <1>1 DEF ContextTypeOK
      <4>4. Len(entries) + 1 \in DOMAIN entries' /\ entries'[Len(entries) + 1] = entry
        BY <4>2, <4>3, <1>3
      <4> QED
        BY <4>1, <4>4, <1>3 DEF Entered
    <3> QED
      BY <3>2, <3>3
  <2> QED
    BY <2>1, <2>2, <2>3
<1>10. ReadMeets'
  BY <1>8, <1>9 DEF ReadMeets, Names
<1> QED
  BY <1>5, <1>7, <1>10 DEF ContextInv, WalkMeets, ExplicitFilesStay

\* The entries are pruned, and the assembly ends or begins again with the phase's own files.
LEMMA PrunedStep == ContextInv /\ Pruned => ContextInv'
<1> SUFFICES ASSUME ContextInv, Pruned PROVE ContextInv'
  OBVIOUS
<1>1. /\ ContextTypeOK /\ outcome = "reading" /\ pending = << >> /\ UNCHANGED <<pending, disk, touched>>
      /\ \/ /\ outcome' = "ok" /\ payload'.entries = Prune(entries)
            /\ UNCHANGED <<resolver, stack, visited, resolved, entries>>
         \/ /\ outcome' = "resolving" /\ resolver' = "explicit"
            /\ entries' = << >> /\ resolved' = << >> /\ UNCHANGED <<stack, visited>>
         \/ outcome' = "TOKEN_OVER_BUDGET" /\ UNCHANGED <<resolver, stack, visited, resolved, entries>>
  BY DEF ContextInv, Pruned
<1>2. ContextTypeOK'
  <2>1. << >> \in Seq(Entries) /\ << >> \in Seq(Paths)
    OBVIOUS
  <2>2. entries' \in Seq(Entries) /\ resolved' \in Seq(Paths)
    BY <1>1, <2>1 DEF ContextTypeOK
  <2>3. outcome' \in {"ok", "resolving", "TOKEN_OVER_BUDGET"} /\ resolver' \in {resolver, "explicit"}
    BY <1>1
  <2>4. UNCHANGED <<stack, visited, pending, disk, touched>>
    BY <1>1
  <2> QED
    BY <1>1, <2>2, <2>3, <2>4 DEF ContextTypeOK
<1>3. ASSUME outcome' = "ok", NEW f \in SourceFiles, Due(f)'
      PROVE  \E i \in DOMAIN payload'.entries : FileOf[payload'.entries[i].path] = f
  <2>1. Due(f)
    BY <1>3, DueWasDue DEF ContextNext
  <2>2. ~Names(pending, f)
    BY <1>1 DEF Names
  <2>3. Entered(f)
    BY <1>1, <2>1, <2>2 DEF ContextInv, ReadMeets
  <2>4. PICK i \in DOMAIN entries : Explicit(entries[i].path) /\ FileOf[entries[i].path] = f
    BY <2>3 DEF Entered
  <2>5. entries \in Seq(Entries) /\ entries[i].explicit
    BY <1>1, <2>4, ContextTypes DEF ContextTypeOK
  <2>6. payload'.entries = Prune(entries)
    BY <1>1, <1>3
  <2> QED
    BY <2>4, <2>5, <2>6, PruneKeeps
<1>4. ExplicitFilesStay'
  BY <1>3 DEF ExplicitFilesStay, Due, Explicit
<1> QED
  BY <1>1, <1>2, <1>4 DEF ContextInv, WalkMeets, ReadMeets

\* The setting and other workers.
LEMMA OthersStep ==
  ASSUME ContextInv, ChangeBlocking \/ (\E f \in SourceFiles : OtherWorkerEdits(f)) \/ UNCHANGED contextVars
  PROVE  ContextInv'
<1>1. UNCHANGED <<resolver, stack, visited, resolved, pending, entries, outcome, payload>>
  BY DEF ChangeBlocking, OtherWorkerEdits, contextVars
<1>2. ContextTypeOK'
  BY <1>1 DEF ContextInv, ContextTypeOK, ChangeBlocking, OtherWorkerEdits, contextVars
<1>3. \A f \in SourceFiles : Due(f)' => Due(f)
  BY DueWasDue DEF ContextNext
<1>4. WalkMeets'
  BY <1>1, <1>3 DEF ContextInv, WalkMeets, Names, Called
<1>5. ReadMeets'
  BY <1>1, <1>3 DEF ContextInv, ReadMeets, Names, Entered
<1>6. ExplicitFilesStay'
  <2>1. CASE outcome = "ok"
    <3>1. UNCHANGED <<disk, touched>>
      BY <2>1 DEF ChangeBlocking, OtherWorkerEdits, Running, contextVars
    <3> QED
      BY <1>1, <3>1 DEF ContextInv, ExplicitFilesStay
  <2>2. CASE outcome # "ok"
    BY <1>1, <2>2 DEF ExplicitFilesStay
  <2> QED
    BY <2>1, <2>2
<1> QED
  BY <1>2, <1>4, <1>5, <1>6 DEF ContextInv

LEMMA ContextHolds == ContextSpec => []ContextInv
<1>1. ContextInv /\ [ContextNext]_contextVars => ContextInv'
  BY EnqueueStep, ResolvedStep, ReadFileStep, PrunedStep, OthersStep DEF ContextNext
<1> QED
  BY <1>1, ContextInitInv, PTL DEF ContextSpec

\* The code behaviour: the assembly's stack of calls, results and entries are what the resolver and the reader make of the paths, for
\* any files, imports and budgets.
THEOREM ContextTypeCorrect == ContextSpec => []ContextTypeOK
<1>1. ContextInv => ContextTypeOK
  BY DEF ContextInv
<1> QED
  BY <1>1, ContextHolds, PTL

\* The code behaviour: enqueue is called for each path of the phase before anything ends, an entry the phase
\* names is never in the list to drop, and the second try reads those paths alone: an assembly that
\* succeeds has them, for any imports, cycles, sizes, budgets and edits by others.
THEOREM ExplicitFilesStayHolds == ContextSpec => []ExplicitFilesStay
<1>1. ContextInv => ExplicitFilesStay
  BY DEF ContextInv
<1> QED
  BY <1>1, ContextHolds, PTL
-----------------------------------------------------------------------------
(* The context pack and its manifest.  The decisions and the entries of    *)
(* the pack match, one for one, after every step; the last step cuts both  *)
(* and counts.                                                             *)

PackModes == {"metadata", "full", "slice", "patch"}
PackChanges == [path : PackPaths, regions : BOOLEAN]
Packets == [from : Range(Dependencies), missing : BOOLEAN, changes : Seq(PackChanges), tokens : 0..1]
PackEntries == [path : PackPaths, mode : PackModes, tokens : 0..5]
PackDecisions == [path : PackPaths, mode : PackModes, tokens : 0..5, omitted : BOOLEAN]
PackedImports == [path : PackPaths, tokens : 0..1, included : BOOLEAN]

\* The types of a pack.
PackTypeOK ==
  /\ packStep \in {"start", "stat", "select", "read", "scan", "access", "done", "failed"}
  /\ order \in [completed : SUBSET Range(Dependencies), taskId : {"session", "project"},
                budget : Limits, whole : BOOLEAN]
  /\ handoffs \in Seq(Packets)
  /\ targets \in Seq(PackPaths) /\ todo \in Seq(PackPaths) /\ scanned \in Seq(PackPaths)
  /\ packStep \in {"select", "read"} => todo # << >>
  /\ selected \in PackModes
  /\ contexts \in Seq(PackEntries) /\ decisions \in Seq(PackDecisions) /\ imported \in Seq(PackedImports)
  /\ manifest \in [handoffs : Nat, files : Nat, dependencies : Nat]
  /\ folder \in [PackPaths -> Lengths \cup {"gone", "folder"}]
  /\ rewrites \in 0..MaxRewrites

\* A decision that says of an entry what it is.
Tells(d, e) == d.path = e.path /\ d.mode = e.mode /\ d.tokens = e.tokens /\ ~d.omitted

NamedOnce(names) == \A i, j \in DOMAIN names : names[i] = names[j] => i = j
PathsOnce(rows) == \A i, j \in DOMAIN rows : rows[i].path = rows[j].path => i = j

\* The decisions match the entries.
Match(ds, es) ==
  /\ PathsOnce(ds) /\ PathsOnce(es)
  /\ \A i \in DOMAIN es : \E j \in DOMAIN ds : Tells(ds[j], es[i])
  /\ \A j \in DOMAIN ds : IF ds[j].omitted THEN ds[j].tokens = 0
                          ELSE \E i \in DOMAIN es : Tells(ds[j], es[i])

\* A file that is still to be looked at has no decision, and comes once.
Undecided ==
  /\ packStep \in {"start", "stat", "select", "read"} =>
       /\ NamedOnce(todo)
       /\ \A i \in DOMAIN todo, j \in DOMAIN decisions : decisions[j].path # todo[i]
  /\ packStep = "start" => decisions = << >> /\ contexts = << >>

PackInv == PackTypeOK /\ Undecided /\ Match(decisions, contexts) /\ ManifestTellsPack

\* The units that SumTokens counts.
Units(es) == UNION {{<<i, t>> : t \in 1..es[i].tokens} : i \in DOMAIN es}

LEMMA UnitsAre ==
  ASSUME NEW es, NEW i, NEW t
  PROVE  <<i, t>> \in Units(es) <=> i \in DOMAIN es /\ t \in 1..es[i].tokens
  BY DEF Units

LEMMA UnitsArePairs ==
  ASSUME NEW es, NEW u \in Units(es)
  PROVE  \E i \in DOMAIN es : \E t \in 1..es[i].tokens : u = <<i, t>>
  BY DEF Units

\* What is counted is finite.
LEMMA SumIsNumber ==
  ASSUME NEW es, IsFiniteSet(DOMAIN es), \A i \in DOMAIN es : es[i].tokens \in 0..5
  PROVE  IsFiniteSet(Units(es)) /\ SumTokens(es) \in Nat
<1>1. IsFiniteSet(0..5)
  <2>1. 0 \in Int /\ 5 \in Int
    OBVIOUS
  <2> QED
    BY <2>1, FS_Interval
<1>2. IsFiniteSet((DOMAIN es) \X (0..5))
  BY <1>1, FS_Product
<1>3. ASSUME NEW u \in Units(es) PROVE u \in (DOMAIN es) \X (0..5)
  <2>1. PICK i, t : i \in DOMAIN es /\ t \in 1..es[i].tokens /\ u = <<i, t>>
    BY UnitsArePairs
  <2>2. t \in 0..5
    <3>1. es[i].tokens \in 0..5 /\ t \in 1..es[i].tokens
      BY <2>1
    <3> QED
      BY <3>1
  <2> QED
    BY <2>1, <2>2
<1>4. Units(es) \in SUBSET ((DOMAIN es) \X (0..5))
  BY <1>3
<1>5. IsFiniteSet(Units(es))
  BY <1>2, <1>4, FS_Subset
<1>6. SumTokens(es) = Cardinality(Units(es))
  BY DEF SumTokens, Units
<1> QED
  BY <1>5, <1>6, FS_CardinalityType

\* Decisions and entries that match have the same total.
LEMMA SameSum ==
  ASSUME NEW es, NEW ds, IsFiniteSet(DOMAIN es), \A i \in DOMAIN es : es[i].tokens \in 0..5,
         Match(ds, es)
  PROVE  SumTokens(es) = SumTokens(ds)
<1> DEFINE at == [i \in DOMAIN es |-> CHOOSE j \in DOMAIN ds : Tells(ds[j], es[i])]
<1>1. \A i \in DOMAIN es : at[i] \in DOMAIN ds /\ Tells(ds[at[i]], es[i])
  BY DEF Match
<1> HIDE DEF at
<1> DEFINE unit == [u \in Units(es) |-> <<at[u[1]], u[2]>>]
<1>2. ASSUME NEW i \in DOMAIN es, NEW t \in 1..es[i].tokens
      PROVE  <<i, t>> \in Units(es) /\ unit[<<i, t>>] = <<at[i], t>> /\ <<at[i], t>> \in Units(ds)
  <2>1. <<i, t>> \in Units(es)
    BY UnitsAre
  <2>2. at[i] \in DOMAIN ds /\ ds[at[i]].tokens = es[i].tokens
    BY <1>1 DEF Tells
  <2>3. <<at[i], t>> \in Units(ds)
    BY <2>2, UnitsAre
  <2> QED
    BY <2>1, <2>3
<1> HIDE DEF unit
<1>3. unit \in [Units(es) -> Units(ds)]
  <2>1. ASSUME NEW u \in Units(es) PROVE unit[u] \in Units(ds)
    <3>1. PICK i, t : i \in DOMAIN es /\ t \in 1..es[i].tokens /\ u = <<i, t>>
      BY UnitsArePairs
    <3> QED
      BY <1>2, <3>1
  <2> QED
    BY <2>1 DEF unit
<1>4. ASSUME NEW u \in Units(es), NEW v \in Units(es), unit[u] = unit[v] PROVE u = v
  <2>1. PICK i, t : i \in DOMAIN es /\ t \in 1..es[i].tokens /\ u = <<i, t>>
    BY UnitsArePairs
  <2>2. PICK k, s : k \in DOMAIN es /\ s \in 1..es[k].tokens /\ v = <<k, s>>
    BY UnitsArePairs
  <2>3. at[i] = at[k] /\ t = s
    <3>1. unit[u] = <<at[i], t>> /\ unit[v] = <<at[k], s>>
      BY <1>2, <2>1, <2>2
    <3>2. <<at[i], t>> = <<at[k], s>>
      BY <1>4, <3>1, Zenon
    <3> QED
      BY <3>2
  <2>4. es[i].path = es[k].path
    BY <1>1, <2>1, <2>2, <2>3 DEF Tells
  <2> QED
    BY <2>1, <2>2, <2>3, <2>4 DEF Match, PathsOnce
<1>5. ASSUME NEW w \in Units(ds) PROVE \E u \in Units(es) : unit[u] = w
  <2>1. PICK j, t : j \in DOMAIN ds /\ t \in 1..ds[j].tokens /\ w = <<j, t>>
    BY UnitsArePairs
  <2>2. ~ds[j].omitted
    <3>1. ds[j].omitted => ds[j].tokens = 0
      BY <2>1 DEF Match
    <3> QED
      BY <2>1, <3>1
  <2>3. PICK i \in DOMAIN es : Tells(ds[j], es[i])
    BY <2>1, <2>2 DEF Match
  <2>4. at[i] = j
    BY <1>1, <2>1, <2>3 DEF Tells, Match, PathsOnce
  <2>5. t \in 1..es[i].tokens
    BY <2>1, <2>3 DEF Tells
  <2> QED
    BY <1>2, <2>1, <2>4, <2>5
<1>6. unit \in Bijection(Units(es), Units(ds))
  BY <1>3, <1>4, <1>5 DEF Bijection, Injection, IsInjective, Surjection
<1>7. ExistsBijection(Units(es), Units(ds))
  BY <1>6 DEF ExistsBijection
<1>8. Cardinality(Units(ds)) = Cardinality(Units(es))
  BY <1>7, SumIsNumber, FS_Bijection
<1> QED
  BY <1>8 DEF SumTokens, Units

\* A sequence filtered.
LEMMA OnlySeq ==
  ASSUME NEW S, NEW s \in Seq(S), NEW places \in SUBSET DOMAIN s
  PROVE  /\ IsFiniteSet(places) /\ places \subseteq Int
         /\ Only(s, places) \in Seq(S)
<1>1. DOMAIN s = 1..Len(s) /\ Len(s) \in Nat
  BY LenProperties
<1>2. IsFiniteSet(1..Len(s))
  BY <1>1, FS_Interval
<1>3. IsFiniteSet(places) /\ places \subseteq Int
  BY <1>1, <1>2, FS_Subset
<1>4. Cardinality(places) \in Nat /\ \A n \in 1..Cardinality(places) : Ascending(places)[n] \in places
  BY <1>3, AscendingPlaces
<1>5. \A n \in 1..Cardinality(places) : s[Ascending(places)[n]] \in S
  BY <1>1, <1>4, ElementOfSeq
<1>6. Only(s, places) \in [1..Cardinality(places) -> S]
  BY <1>5 DEF Only
<1>7. Only(s, places) \in Seq(S)
  BY <1>4, <1>6, SeqDef
<1> QED
  BY <1>3, <1>7

\* What is named once in a sequence is named once in it filtered.
LEMMA OnlyNamesOnce ==
  ASSUME NEW S, NEW s \in Seq(S), NEW places \in SUBSET DOMAIN s, PathsOnce(s)
  PROVE  PathsOnce(Only(s, places))
<1>1. IsFiniteSet(places) /\ places \subseteq Int
  BY OnlySeq
<1>2. /\ \A n \in DOMAIN Only(s, places) :
           Ascending(places)[n] \in places /\ Only(s, places)[n] = s[Ascending(places)[n]]
      /\ \A m, n \in DOMAIN Only(s, places) : Ascending(places)[m] = Ascending(places)[n] => m = n
  BY <1>1, OnlyKeeps
<1> QED
  BY <1>2 DEF PathsOnce

LEMMA ImageIsFinite ==
  ASSUME NEW f, NEW D, IsFiniteSet(D)
  PROVE  IsFiniteSet({f[x] : x \in D})
<1> DEFINE g == [x \in D |-> f[x]]
<1>1. g \in Surjection(D, {f[x] : x \in D})
  BY DEF Surjection
<1> QED
  BY <1>1, FS_Surjection

\* The places where files are named are finitely many pairs of numbers.
LEMMA PlacesFit ==
  ASSUME NEW packets \in Seq(Packets)
  PROVE  /\ IsFiniteSet(Places(packets))
         /\ \A p \in Places(packets) : /\ p[1] \in Nat /\ p[2] \in Nat /\ p = <<p[1], p[2]>>
                                       /\ NameAt(packets, p) \in PackPaths
<1>1. /\ PackFiles \in Seq(PackPaths)
      /\ DOMAIN PackFiles = 1..Len(PackFiles) /\ Len(PackFiles) \in Nat
  BY PackAssumption, LenProperties
<1>2. DOMAIN packets = 1..Len(packets) /\ Len(packets) \in Nat
  BY LenProperties
<1>3. ASSUME NEW k \in DOMAIN packets
      PROVE  /\ packets[k].changes \in Seq(PackChanges)
             /\ DOMAIN packets[k].changes = 1..Len(packets[k].changes)
             /\ Len(packets[k].changes) \in Nat
             /\ \A i \in DOMAIN packets[k].changes : packets[k].changes[i].path \in PackPaths
  <2>1. packets[k] \in Packets
    BY <1>2, ElementOfSeq
  <2>2. packets[k].changes \in Seq(PackChanges)
    BY <2>1 DEF Packets
  <2>3. /\ DOMAIN packets[k].changes = 1..Len(packets[k].changes)
        /\ Len(packets[k].changes) \in Nat
    BY <2>2, LenProperties
  <2>4. \A i \in DOMAIN packets[k].changes : packets[k].changes[i] \in PackChanges
    BY <2>2, <2>3, ElementOfSeq
  <2> QED
    BY <2>2, <2>3, <2>4 DEF PackChanges
<1> DEFINE widths == [k \in DOMAIN packets |-> DOMAIN packets[k].changes]
           reach  == UNION {widths[k] : k \in DOMAIN packets}
<1>4. IsFiniteSet(DOMAIN packets) /\ IsFiniteSet(DOMAIN PackFiles)
  BY <1>1, <1>2, FS_Interval
<1>5. \A k \in DOMAIN packets : IsFiniteSet(widths[k])
  BY <1>3, FS_Interval
<1>6. IsFiniteSet(reach)
  <2>1. IsFiniteSet({widths[k] : k \in DOMAIN packets})
    BY <1>4, ImageIsFinite
  <2>2. \A T \in {widths[k] : k \in DOMAIN packets} : IsFiniteSet(T)
    BY <1>5
  <2> QED
    BY <2>1, <2>2, FS_UNION
<1>7. IsFiniteSet({0} \cup DOMAIN packets) /\ IsFiniteSet(DOMAIN PackFiles \cup reach)
  BY <1>4, <1>6, FS_Singleton, FS_Union
<1>8. IsFiniteSet(({0} \cup DOMAIN packets) \X (DOMAIN PackFiles \cup reach))
  BY <1>7, FS_Product
<1>9. ASSUME NEW p \in Places(packets)
      PROVE  \/ p[1] = 0 /\ p[2] \in DOMAIN PackFiles /\ p = <<p[1], p[2]>>
             \/ p[1] \in DOMAIN packets /\ p[2] \in DOMAIN packets[p[1]].changes /\ p = <<p[1], p[2]>>
  BY DEF Places
<1>10. Places(packets) \in SUBSET (({0} \cup DOMAIN packets) \X (DOMAIN PackFiles \cup reach))
  <2> HIDE DEF reach
  <2>1. \A k \in DOMAIN packets : DOMAIN packets[k].changes \subseteq reach
    BY DEF reach
  <2> QED
    BY <1>9, <2>1
<1>11. IsFiniteSet(Places(packets))
  BY <1>8, <1>10, FS_Subset
<1>12. ASSUME NEW p \in Places(packets)
       PROVE  p[1] \in Nat /\ p[2] \in Nat /\ p = <<p[1], p[2]>> /\ NameAt(packets, p) \in PackPaths
  <2>1. CASE p[1] = 0 /\ p[2] \in DOMAIN PackFiles /\ p = <<p[1], p[2]>>
    <3>1. NameAt(packets, p) = PackFiles[p[2]]
      BY <2>1 DEF NameAt
    <3>2. PackFiles[p[2]] \in PackPaths
      BY <1>1, <2>1, ElementOfSeq
    <3> QED
      BY <1>1, <2>1, <3>1, <3>2
  <2>2. CASE p[1] \in DOMAIN packets /\ p[2] \in DOMAIN packets[p[1]].changes /\ p = <<p[1], p[2]>>
    <3>1. p[1] \in Nat /\ p[1] # 0 /\ p[2] \in Nat
      BY <1>2, <1>3, <2>2
    <3>2. NameAt(packets, p) = packets[p[1]].changes[p[2]].path
      BY <3>1 DEF NameAt
    <3> QED
      BY <1>3, <2>2, <3>1, <3>2
  <2> QED
    BY <1>9, <2>1, <2>2
<1> QED
  BY <1>11, <1>12

\* Places are ordered.
LEMMA PlacesOrdered ==
  ASSUME NEW p, NEW q, NEW r, p[1] \in Nat, p[2] \in Nat, q[1] \in Nat, q[2] \in Nat, r[1] \in Nat, r[2] \in Nat
  PROVE  /\ NoLaterPlace(p, p)
         /\ NoLaterPlace(p, q) \/ NoLaterPlace(q, p)
         /\ NoLaterPlace(p, q) /\ NoLaterPlace(q, p) => p[1] = q[1] /\ p[2] = q[2]
         /\ NoLaterPlace(r, p) /\ NoLaterPlace(p, q) => NoLaterPlace(r, q)
  BY DEF NoLaterPlace

\* The files to be looked at are listed once each.
LEMMA FilesListedOnce ==
  ASSUME NEW packets \in Seq(Packets)
  PROVE  TargetFiles(packets) \in Seq(PackPaths) /\ NamedOnce(TargetFiles(packets))
<1> DEFINE first == FirstPlaces(packets)
           below == [p \in first |-> {q \in first : NoLaterPlace(q, p)}]
           at(n) == CHOOSE p \in first : Cardinality({q \in first : NoLaterPlace(q, p)}) = n
<1>1. first \in SUBSET Places(packets)
  BY DEF FirstPlaces
<1>2. IsFiniteSet(first)
  BY <1>1, PlacesFit, FS_Subset
<1>3. \A p \in first : /\ p[1] \in Nat /\ p[2] \in Nat /\ p = <<p[1], p[2]>>
                       /\ NameAt(packets, p) \in PackPaths
  BY <1>1, PlacesFit
<1>4. \A p, q \in first : NameAt(packets, p) = NameAt(packets, q) => NoLaterPlace(p, q)
  BY DEF FirstPlaces
<1>5. \A p \in first : below[p] = {q \in first : NoLaterPlace(q, p)}
  OBVIOUS
<1>6. below \in [first -> SUBSET first]
  OBVIOUS
<1> HIDE DEF first, below
<1>7. \A p \in first : p \in below[p]
  BY <1>3, <1>5, PlacesOrdered
<1>8. ASSUME NEW p \in first, NEW q \in first, NoLaterPlace(p, q), p # q
      PROVE  below[p] \subseteq below[q] /\ q \notin below[p]
  <2>1. ~NoLaterPlace(q, p)
    BY <1>3, <1>8, PlacesOrdered
  <2>2. \A r \in first : NoLaterPlace(r, p) => NoLaterPlace(r, q)
    BY <1>3, <1>8, PlacesOrdered
  <2> QED
    BY <1>5, <2>1, <2>2
<1>9. \A p, q \in first : \/ p = q
                          \/ below[p] \subseteq below[q] /\ q \notin below[p]
                          \/ below[q] \subseteq below[p] /\ p \notin below[q]
  <2>1. \A p, q \in first : NoLaterPlace(p, q) \/ NoLaterPlace(q, p)
    BY <1>3, PlacesOrdered
  <2> QED
    BY <1>8, <2>1
<1>10. /\ Cardinality(first) \in Nat
       /\ \A p, q \in first : Cardinality(below[p]) = Cardinality(below[q]) => p = q
       /\ \A n \in 1..Cardinality(first) : \E p \in first : Cardinality(below[p]) = n
  BY <1>2, <1>6, <1>7, <1>9, RankLists, Zenon
<1>11. \A n \in 1..Cardinality(first) : at(n) \in first /\ Cardinality(below[at(n)]) = n
  BY <1>5, <1>10
<1>12. TargetFiles(packets) = [n \in 1..Cardinality(first) |-> NameAt(packets, at(n))]
  BY DEF TargetFiles, first
<1> HIDE DEF at
<1>13. TargetFiles(packets) \in [1..Cardinality(first) -> PackPaths]
  BY <1>3, <1>11, <1>12
<1>14. TargetFiles(packets) \in Seq(PackPaths)
  BY <1>10, <1>13, SeqDef
<1>15. ASSUME NEW m \in 1..Cardinality(first), NEW n \in 1..Cardinality(first),
              NameAt(packets, at(m)) = NameAt(packets, at(n))
       PROVE  m = n
  <2>1. at(m) \in first /\ at(n) \in first
    BY <1>11
  <2>2. NoLaterPlace(at(m), at(n)) /\ NoLaterPlace(at(n), at(m))
    BY <1>4, <1>15, <2>1
  <2>3. at(m) = at(n)
    BY <1>3, <2>1, <2>2, PlacesOrdered
  <2> QED
    BY <1>11, <2>3
<1>16. NamedOnce(TargetFiles(packets))
  BY <1>12, <1>15 DEF NamedOnce
<1> QED
  BY <1>14, <1>16
\* What a matching list of decisions says.
LEMMA MatchTells ==
  ASSUME NEW ds, NEW es, Match(ds, es)
  PROVE  {[path |-> e.path, mode |-> e.mode] : e \in Range(es)}
           = {[path |-> d.path, mode |-> d.mode] : d \in {x \in Range(ds) : ~x.omitted}}
<1>1. ASSUME NEW e \in Range(es)
      PROVE  \E d \in {x \in Range(ds) : ~x.omitted} : d.path = e.path /\ d.mode = e.mode
  <2>1. PICK i \in DOMAIN es : es[i] = e
    BY DEF Range
  <2>2. PICK j \in DOMAIN ds : Tells(ds[j], e)
    BY <2>1 DEF Match
  <2> QED
    BY <2>2 DEF Tells, Range
<1>2. ASSUME NEW d \in {x \in Range(ds) : ~x.omitted}
      PROVE  \E e \in Range(es) : d.path = e.path /\ d.mode = e.mode
  <2>1. PICK j \in DOMAIN ds : ds[j] = d
    BY DEF Range
  <2>2. PICK i \in DOMAIN es : Tells(d, es[i])
    BY <2>1 DEF Match
  <2> QED
    BY <2>2 DEF Tells, Range
<1> QED
  BY <1>1, <1>2

\* Cutting the pack and omitting what is cut keeps the match.
LEMMA CutMatches ==
  ASSUME PackTypeOK, Match(decisions, contexts), NEW kept \in SUBSET DOMAIN contexts, NEW es, NEW ds,
         es = Only(contexts, kept), ds = Omit({contexts[i].path : i \in (DOMAIN contexts) \ kept})
  PROVE  es \in Seq(PackEntries) /\ ds \in Seq(PackDecisions) /\ Match(ds, es)
<1> DEFINE cut == {contexts[i].path : i \in (DOMAIN contexts) \ kept}
<1>1. contexts \in Seq(PackEntries) /\ decisions \in Seq(PackDecisions)
  BY DEF PackTypeOK
<1>2. PathsOnce(decisions) /\ PathsOnce(contexts)
  BY DEF Match
<1>3. IsFiniteSet(kept) /\ kept \subseteq Int /\ es \in Seq(PackEntries)
  BY <1>1, OnlySeq
<1>4. PathsOnce(es)
  BY <1>1, <1>2, OnlyNamesOnce
<1>5. /\ \A n \in DOMAIN es : Ascending(kept)[n] \in kept /\ es[n] = contexts[Ascending(kept)[n]]
      /\ \A i \in kept : \E n \in DOMAIN es : es[n] = contexts[i]
  BY <1>3, OnlyKeeps
<1>6. \A i \in DOMAIN contexts : contexts[i].path \in cut <=> i \notin kept
  BY <1>2 DEF PathsOnce
<1>7. DOMAIN decisions = 1..Len(decisions) /\ Len(decisions) \in Nat
      /\ \A j \in DOMAIN decisions : decisions[j] \in PackDecisions
  BY <1>1, LenProperties, ElementOfSeq
<1> HIDE DEF cut
<1>8. DOMAIN ds = DOMAIN decisions
  BY DEF Omit
<1>9. \A j \in DOMAIN decisions :
        ds[j] = IF decisions[j].path \in cut
                THEN [decisions[j] EXCEPT !.omitted = TRUE, !.tokens = 0] ELSE decisions[j]
  BY DEF Omit, cut
<1>10. ASSUME NEW j \in DOMAIN decisions
       PROVE  /\ ds[j] \in PackDecisions /\ ds[j].path = decisions[j].path
              /\ decisions[j].path \in cut => ds[j].omitted /\ ds[j].tokens = 0
              /\ decisions[j].path \notin cut => ds[j] = decisions[j]
  <2>1. decisions[j] \in PackDecisions
    BY <1>7
  <2>2. ASSUME NEW d \in PackDecisions, NEW o, o = [d EXCEPT !.omitted = TRUE, !.tokens = 0]
        PROVE  o \in PackDecisions /\ o.path = d.path /\ o.omitted /\ o.tokens = 0
    <3>1. d = [path |-> d.path, mode |-> d.mode, tokens |-> d.tokens, omitted |-> d.omitted]
          /\ d.path \in PackPaths /\ d.mode \in PackModes
      BY DEF PackDecisions
    <3>2. o = [path |-> d.path, mode |-> d.mode, tokens |-> 0, omitted |-> TRUE]
      BY <2>2, <3>1
    <3> QED
      BY <3>1, <3>2 DEF PackDecisions
  <2>3. CASE decisions[j].path \in cut
    BY <1>9, <2>1, <2>2, <2>3, Zenon
  <2>4. CASE decisions[j].path \notin cut
    BY <1>9, <2>1, <2>4, Zenon
  <2> QED
    BY <2>3, <2>4
<1>11. ds \in [1..Len(decisions) -> PackDecisions]
  BY <1>7, <1>8, <1>10 DEF Omit
<1>12. ds \in Seq(PackDecisions)
  BY <1>7, <1>11, SeqDef
<1>13. PathsOnce(ds)
  BY <1>2, <1>8, <1>10 DEF PathsOnce
<1>14. ASSUME NEW n \in DOMAIN es PROVE \E j \in DOMAIN ds : Tells(ds[j], es[n])
  <2>1. PICK i \in kept : es[n] = contexts[i]
    BY <1>5
  <2>2. PICK j \in DOMAIN decisions : Tells(decisions[j], contexts[i])
    BY DEF Match
  <2>3. decisions[j].path \notin cut
    BY <1>6, <2>2 DEF Tells
  <2> QED
    BY <1>8, <1>10, <2>1, <2>2, <2>3
<1>15. ASSUME NEW j \in DOMAIN ds
       PROVE  IF ds[j].omitted THEN ds[j].tokens = 0 ELSE \E n \in DOMAIN es : Tells(ds[j], es[n])
  <2>1. CASE decisions[j].path \in cut
    BY <1>8, <1>10, <2>1
  <2>2. CASE decisions[j].path \notin cut /\ decisions[j].omitted
    BY <1>8, <1>10, <2>2 DEF Match
  <2>3. CASE decisions[j].path \notin cut /\ ~decisions[j].omitted
    <3>1. ds[j] = decisions[j]
      BY <1>8, <1>10, <2>3
    <3>2. PICK i \in DOMAIN contexts : Tells(decisions[j], contexts[i])
      BY <1>8, <2>3 DEF Match
    <3>3. i \in kept
      BY <1>6, <2>3, <3>2 DEF Tells
    <3> QED
      BY <1>5, <2>3, <3>1, <3>2, <3>3
  <2> QED
    BY <2>1, <2>2, <2>3
<1> QED
  BY <1>3, <1>4, <1>12, <1>13, <1>14, <1>15 DEF Match

\* A set of numbers has a least one.
LEMMA LeastExists ==
  ASSUME NEW S \in SUBSET Nat, S # {}
  PROVE  \E m \in S : \A n \in S : m <= n
<1>1. PICK m \in S : \A n \in S : ~(<<n, m>> \in OpToRel(<, Nat))
  BY NatLessThanWellFounded, WFMin
<1>2. ASSUME NEW n \in S PROVE m <= n
  <2>1. m \in Nat /\ n \in Nat
    OBVIOUS
  <2>2. ~(n < m)
    BY <1>1, <2>1 DEF OpToRel
  <2> QED
    BY <2>1, <2>2
<1> QED
  BY <1>2

\* A pack that stays over its budget has been cut of all that may be cut.
LEMMA CutOfAll ==
  ASSUME PackTypeOK, OverBudget(Only(contexts, KeptAfter(Removals)))
  PROVE  \A i \in KeptAfter(Removals) : contexts[i].mode \notin {"metadata", "patch"}
<1> DEFINE n      == Cardinality(Prunable)
           enough == {k \in 0..n : ~OverBudget(Only(contexts, KeptAfter(k)))}
<1>1. DOMAIN contexts = 1..Len(contexts) /\ Len(contexts) \in Nat
  BY LenProperties DEF PackTypeOK
<1>2. IsFiniteSet(DOMAIN contexts)
  BY <1>1, FS_Interval
<1>3. Prunable \in SUBSET DOMAIN contexts
  BY DEF Prunable
<1>4. IsFiniteSet(Prunable) /\ n \in Nat
  BY <1>2, <1>3, FS_Subset, FS_CardinalityType
<1>5. Removals = IF enough = {} THEN n ELSE CHOOSE k \in enough : \A l \in enough : k <= l
  BY DEF Removals
<1>6. enough = {}
  <2> SUFFICES ASSUME enough # {} PROVE FALSE
    OBVIOUS
  <2>1. enough \in SUBSET Nat
    BY <1>4
  <2>2. \E k \in enough : \A l \in enough : k <= l
    <3> HIDE DEF enough
    <3> QED
      BY <2>1, LeastExists
  <2>3. Removals \in enough
    <3> HIDE DEF enough
    <3> QED
      BY <1>5, <2>2
  <2> QED
    BY <2>3
<1>7. Removals = n
  BY <1>5, <1>6
<1>8. ASSUME NEW i PROVE Cardinality(GoneBy(i)) <= n
  <2>1. GoneBy(i) \in SUBSET Prunable
    BY DEF GoneBy
  <2> QED
    BY <1>4, <2>1, FS_Subset
<1>9. ASSUME NEW i \in KeptAfter(Removals), contexts[i].mode \in {"metadata", "patch"} PROVE FALSE
  <2>1. i \in DOMAIN contexts /\ (i \in Prunable => Cardinality(GoneBy(i)) > n)
    BY <1>7 DEF KeptAfter
  <2>2. i \in Prunable
    BY <1>9, <2>1 DEF Prunable
  <2>3. GoneBy(i) \in SUBSET Prunable
    BY DEF GoneBy
  <2>4. Cardinality(GoneBy(i)) \in Nat
    BY <1>4, <2>3, FS_Subset, FS_CardinalityType
  <2> HIDE DEF n
  <2> QED
    BY <1>4, <1>8, <2>1, <2>2, <2>4
<1> QED
  BY <1>9
\* What is left of a list after its first.
LEMMA TailKeeps ==
  ASSUME NEW S, NEW s \in Seq(S), s # << >>, NamedOnce(s)
  PROVE  /\ Tail(s) \in Seq(S) /\ NamedOnce(Tail(s))
         /\ Head(s) \in S /\ 1 \in DOMAIN s /\ Head(s) = s[1]
         /\ \A i \in DOMAIN Tail(s) : \E k \in DOMAIN s : Tail(s)[i] = s[k] /\ s[k] # Head(s)
<1>1. /\ Tail(s) \in Seq(S) /\ Head(s) \in S /\ Len(Tail(s)) = Len(s) - 1
      /\ DOMAIN s = 1..Len(s) /\ Len(s) \in Nat /\ Len(s) # 0
      /\ DOMAIN Tail(s) = 1..Len(Tail(s))
  BY HeadTailProperties, LenProperties, EmptySeq
<1>2. Head(s) = s[1] /\ \A i \in DOMAIN Tail(s) : Tail(s)[i] = s[i + 1] /\ i + 1 \in DOMAIN s
  BY <1>1
<1>3. 1 \in DOMAIN s /\ \A i \in DOMAIN Tail(s) : i + 1 # 1
  BY <1>1
<1>4. \A i \in DOMAIN Tail(s) : s[i + 1] # Head(s)
  BY <1>2, <1>3 DEF NamedOnce
<1>5. NamedOnce(Tail(s))
  <2>1. \A i, j \in DOMAIN Tail(s) : i + 1 = j + 1 => i = j
    BY <1>1
  <2> QED
    BY <1>2, <2>1 DEF NamedOnce
<1> QED
  BY <1>1, <1>2, <1>3, <1>4, <1>5

\* The imports of a file are files.
LEMMA ImportsAreFiles ==
  ASSUME NEW f \in PackPaths
  PROVE  ExtractedImports(f) \in Seq(PackPaths)
<1> DEFINE found  == PackImports[f]
           places == {i \in DOMAIN found : found[i].relative /\ found[i].inside}
           own    == Only(found, places)
<1>1. found \in Seq(Range(found)) /\ f \in DOMAIN PackImports
  BY PackAssumption
<1>2. \A i \in Range(found) : i.named \in PackPaths /\ i.typed \in PackPaths
  <2>1. Range(found) \subseteq FoundImports
    BY <1>1 DEF FoundImports
  <2> QED
    BY <2>1 DEF PackPaths
<1>3. places \in SUBSET DOMAIN found
  OBVIOUS
<1> HIDE DEF found, places
<1>4. own \in Seq(Range(found))
  BY <1>1, <1>3, OnlySeq
<1> HIDE DEF own
<1>5. DOMAIN own = 1..Len(own) /\ Len(own) \in Nat /\ \A i \in DOMAIN own : own[i] \in Range(found)
  BY <1>4, LenProperties, ElementOfSeq
<1>6. \A i \in DOMAIN own : ResolveImport(own[i]) \in PackPaths
  BY <1>2, <1>5 DEF ResolveImport
<1>7. ExtractedImports(f) = [i \in DOMAIN own |-> ResolveImport(own[i])]
  BY DEF ExtractedImports, own, places, found
<1>8. ExtractedImports(f) \in [1..Len(own) -> PackPaths]
  BY <1>5, <1>6, <1>7
<1> QED
  BY <1>5, <1>8, SeqDef

\* A packet is made for a dependency.
LEMMA PacketsFit ==
  ASSUME NEW d \in Range(Dependencies)
  PROVE  Packet(d) \in Packets
<1>1. d \in DOMAIN Stored => Stored[d] \in Seq(PackChanges)
  BY PackAssumption DEF PackChanges
<1>2. << >> \in Seq(PackChanges)
  BY EmptySeq
<1>3. 0 \in 0..1 /\ 1 \in 0..1
  OBVIOUS
<1> QED
  BY <1>1, <1>2, <1>3 DEF Packet, Packets

\* The mode of a file is a mode.
LEMMA ModesFit ==
  ASSUME PackTypeOK, NEW path \in PackPaths
  PROVE  Mode(path) \in PackModes
<1>1. folder[path] \in Lengths \cup {"gone", "folder"} /\ order.whole \in BOOLEAN
  BY DEF PackTypeOK
<1> QED
  BY <1>1 DEF Mode, PackModes, Lengths

-----------------------------------------------------------------------------
(* The steps of a pack                                                     *)

LEMMA PackInitInv == PackInit => PackInv
<1> SUFFICES ASSUME PackInit PROVE PackInv
  OBVIOUS
<1>1. PackTypeOK
  BY PackAssumption, EmptySeq DEF PackInit, PackTypeOK, PackModes
<1>2. DOMAIN todo = {} /\ DOMAIN decisions = {} /\ DOMAIN contexts = {}
  BY DEF PackInit
<1>3. Undecided /\ Match(decisions, contexts)
  BY <1>2 DEF PackInit, Undecided, NamedOnce, Match, PathsOnce
<1>4. ManifestTellsPack
  BY DEF PackInit, ManifestTellsPack
<1> QED
  BY <1>1, <1>3, <1>4 DEF PackInv

LEMMA GatherStep ==
  ASSUME PackInv, GatherHandoffs
  PROVE  PackInv'
<1> DEFINE places   == {i \in DOMAIN Dependencies : Dependencies[i] \in order.completed}
           upstream == Only(Dependencies, places)
           packets  == [i \in DOMAIN upstream |-> Packet(upstream[i])]
<1>1. /\ packStep = "start" /\ packStep' = "stat" /\ handoffs' = packets
      /\ targets' = TargetFiles(packets) /\ todo' = TargetFiles(packets)
      /\ UNCHANGED <<order, selected, contexts, decisions, scanned, imported, manifest, folder, rewrites>>
  BY DEF GatherHandoffs
<1>2. Dependencies \in Seq(Range(Dependencies)) /\ places \in SUBSET DOMAIN Dependencies
  BY PackAssumption
<1> HIDE DEF places
<1>3. upstream \in Seq(Range(Dependencies))
  BY <1>2, OnlySeq
<1> HIDE DEF upstream
<1>4. /\ DOMAIN upstream = 1..Len(upstream) /\ Len(upstream) \in Nat
      /\ \A i \in DOMAIN upstream : upstream[i] \in Range(Dependencies)
  BY <1>3, LenProperties, ElementOfSeq
<1>5. packets \in [1..Len(upstream) -> Packets]
  BY <1>4, PacketsFit
<1>6. packets \in Seq(Packets)
  BY <1>4, <1>5, SeqDef
<1> HIDE DEF packets
<1>7. TargetFiles(packets) \in Seq(PackPaths) /\ NamedOnce(TargetFiles(packets))
  BY <1>6, FilesListedOnce
<1>8. decisions = << >>
  BY <1>1 DEF PackInv, Undecided
<1>9. PackTypeOK'
  BY <1>1, <1>6, <1>7 DEF PackInv, PackTypeOK
<1>10. Undecided'
  BY <1>1, <1>7, <1>8 DEF Undecided, NamedOnce
<1>11. Match(decisions, contexts)' /\ ManifestTellsPack'
  BY <1>1 DEF PackInv, Match, PathsOnce, Tells, ManifestTellsPack
<1> QED
  BY <1>9, <1>10, <1>11 DEF PackInv

LEMMA LookStep ==
  ASSUME PackInv, RefuseBudget \/ StatFile \/ SelectMode
  PROVE  PackInv'
<1>1. UNCHANGED <<order, handoffs, targets, contexts, decisions, scanned, imported, manifest, folder, rewrites>>
  BY DEF RefuseBudget, StatFile, SelectMode
<1>2. todo \in Seq(PackPaths) /\ PackTypeOK
  BY DEF PackInv, PackTypeOK
<1>3. Match(decisions, contexts)'
  BY <1>1 DEF PackInv, Match, PathsOnce, Tells
<1>4. CASE RefuseBudget
  BY <1>1, <1>2, <1>3, <1>4 DEF RefuseBudget, PackInv, PackTypeOK, Undecided, ManifestTellsPack
<1>5. CASE StatFile
  <2>1. packStep = "stat" /\ todo # << >> /\ packStep' \in {"stat", "select"} /\ UNCHANGED selected
    BY <1>5 DEF StatFile
  <2>2. NamedOnce(todo) /\ \A i \in DOMAIN todo, j \in DOMAIN decisions : decisions[j].path # todo[i]
    BY <2>1 DEF PackInv, Undecided
  <2>3. CASE todo' = Tail(todo) /\ packStep' = "stat"
    <3>1. /\ Tail(todo) \in Seq(PackPaths) /\ NamedOnce(Tail(todo))
          /\ \A i \in DOMAIN Tail(todo) : \E k \in DOMAIN todo : Tail(todo)[i] = todo[k]
      BY <1>2, <2>1, <2>2, TailKeeps
    <3>2. PackTypeOK'
      BY <1>1, <1>2, <2>1, <2>3, <3>1 DEF PackTypeOK
    <3>3. Undecided'
      BY <1>1, <2>2, <2>3, <3>1 DEF Undecided, NamedOnce
    <3> QED
      BY <1>3, <2>3, <3>2, <3>3 DEF PackInv, ManifestTellsPack
  <2>4. CASE packStep' = "select" /\ todo' = todo
    <3>1. PackTypeOK'
      BY <1>1, <1>2, <2>1, <2>4 DEF PackTypeOK
    <3>2. Undecided'
      BY <1>1, <2>2, <2>4 DEF Undecided, NamedOnce
    <3> QED
      BY <1>3, <2>4, <3>1, <3>2 DEF PackInv, ManifestTellsPack
  <2> QED
    BY <1>5, <2>1, <2>3, <2>4 DEF StatFile
<1>6. CASE SelectMode
  <2>1. packStep = "select" /\ packStep' = "read" /\ selected' = Mode(Head(todo)) /\ todo' = todo
    BY <1>6 DEF SelectMode
  <2>2. todo # << >>
    BY <1>2, <2>1 DEF PackTypeOK
  <2>3. selected' \in PackModes
    BY <1>2, <2>1, <2>2, HeadTailProperties, ModesFit
  <2>4. PackTypeOK'
    BY <1>1, <1>2, <2>1, <2>2, <2>3 DEF PackTypeOK
  <2>5. Undecided'
    BY <1>1, <2>1 DEF PackInv, Undecided, NamedOnce
  <2> QED
    BY <1>3, <2>1, <2>4, <2>5 DEF PackInv, ManifestTellsPack
<1> QED
  BY <1>4, <1>5, <1>6
\* An entry and its decision are added together.
LEMMA MaterializeStep ==
  ASSUME PackInv, Materialize
  PROVE  PackInv'
<1> DEFINE path   == Head(todo)
           length == folder[path]
           lost   == selected # "metadata" /\ length \notin Lengths
           tokens == IF lost THEN 0
                     ELSE IF selected = "full" THEN 1 + ContentTokens[length] ELSE EntryTokens[selected]
           entry  == [path |-> path, mode |-> selected, tokens |-> tokens]
           told   == [path |-> path, mode |-> selected, tokens |-> tokens, omitted |-> lost]
<1>1. /\ packStep = "read" /\ packStep' = "stat" /\ todo' = Tail(todo)
      /\ contexts' = (IF lost THEN contexts ELSE Append(contexts, entry))
      /\ decisions' = Append(decisions, told)
      /\ UNCHANGED <<order, handoffs, targets, selected, scanned, imported, manifest, folder, rewrites>>
  BY DEF Materialize
<1>2. /\ todo \in Seq(PackPaths) /\ todo # << >> /\ selected \in PackModes
      /\ contexts \in Seq(PackEntries) /\ decisions \in Seq(PackDecisions)
      /\ folder \in [PackPaths -> Lengths \cup {"gone", "folder"}]
  BY <1>1 DEF PackInv, PackTypeOK
<1>3. NamedOnce(todo) /\ \A i \in DOMAIN todo, j \in DOMAIN decisions : decisions[j].path # todo[i]
  BY <1>1 DEF PackInv, Undecided
<1>4. /\ Tail(todo) \in Seq(PackPaths) /\ NamedOnce(Tail(todo))
      /\ path \in PackPaths /\ 1 \in DOMAIN todo /\ path = todo[1]
      /\ \A i \in DOMAIN Tail(todo) : \E k \in DOMAIN todo : Tail(todo)[i] = todo[k] /\ todo[k] # path
  BY <1>2, <1>3, TailKeeps
<1> HIDE DEF path
<1>5. tokens \in 0..5 /\ lost \in BOOLEAN /\ (lost => tokens = 0)
  <2>1. lost \in BOOLEAN /\ (lost => tokens = 0)
    OBVIOUS
  <2>2. CASE ~lost /\ selected = "full"
    <3>1. ContentTokens[length] \in 0..4
      BY <2>2 DEF ContentTokens, Lengths
    <3> QED
      BY <2>1, <2>2, <3>1
  <2>3. CASE ~lost /\ selected # "full"
    <3>1. EntryTokens[selected] \in 0..5
      BY <1>2, <2>3 DEF EntryTokens, PackModes
    <3> QED
      BY <2>1, <2>3, <3>1
  <2>4. CASE lost
    BY <2>1, <2>4
  <2> QED
    BY <2>2, <2>3, <2>4
<1> HIDE DEF lost, tokens
<1>6. entry \in PackEntries /\ told \in PackDecisions
  BY <1>2, <1>4, <1>5 DEF PackEntries, PackDecisions
<1>7. ~lost => Tells(told, entry)
  BY DEF Tells
<1>8. told.path = path /\ entry.path = path /\ (told.omitted <=> lost) /\ told.tokens = tokens
  BY <1>5
<1> HIDE DEF entry, told
<1>9. /\ decisions' \in Seq(PackDecisions)
      /\ DOMAIN decisions = 1..Len(decisions) /\ Len(decisions) \in Nat
      /\ DOMAIN decisions' = 1..(Len(decisions) + 1)
      /\ \A j \in DOMAIN decisions : decisions'[j] = decisions[j]
      /\ decisions'[Len(decisions) + 1] = told
  BY <1>1, <1>2, <1>6, AppendProperties, LenProperties
<1>10. /\ contexts' \in Seq(PackEntries)
       /\ DOMAIN contexts = 1..Len(contexts) /\ Len(contexts) \in Nat
       /\ lost => contexts' = contexts
       /\ ~lost => /\ DOMAIN contexts' = 1..(Len(contexts) + 1)
                   /\ \A i \in DOMAIN contexts : contexts'[i] = contexts[i]
                   /\ contexts'[Len(contexts) + 1] = entry
  BY <1>1, <1>2, <1>6, AppendProperties, LenProperties
<1>11. /\ DOMAIN decisions' = DOMAIN decisions \cup {Len(decisions) + 1}
       /\ ~lost => DOMAIN contexts' = DOMAIN contexts \cup {Len(contexts) + 1}
  <2>1. \A n \in Nat : 1..(n + 1) = (1..n) \cup {n + 1}
    OBVIOUS
  <2> QED
    BY <1>9, <1>10, <2>1
<1>12. PackTypeOK'
  BY <1>1, <1>4, <1>9, <1>10 DEF PackInv, PackTypeOK
<1>13. \A j \in DOMAIN decisions : decisions[j].path # path
  BY <1>3, <1>4
<1>14. Undecided'
  <2>1. ASSUME NEW i \in DOMAIN Tail(todo), NEW j \in DOMAIN decisions' PROVE decisions'[j].path # Tail(todo)[i]
    <3>1. PICK k \in DOMAIN todo : Tail(todo)[i] = todo[k] /\ todo[k] # path
      BY <1>4
    <3>2. CASE j \in DOMAIN decisions
      BY <1>3, <1>9, <3>1, <3>2
    <3>3. CASE j = Len(decisions) + 1
      BY <1>8, <1>9, <3>1, <3>3
    <3> QED
      BY <1>11, <3>2, <3>3
  <2> QED
    BY <1>1, <1>4, <2>1 DEF Undecided, NamedOnce
<1>15. Match(decisions, contexts)
  BY DEF PackInv
<1>16. \A i \in DOMAIN contexts : contexts[i].path # path
  BY <1>13, <1>15 DEF Match, Tells
<1>17. PathsOnce(decisions')
  BY <1>8, <1>9, <1>11, <1>13, <1>15 DEF Match, PathsOnce
<1>18. PathsOnce(contexts')
  BY <1>8, <1>10, <1>11, <1>15, <1>16 DEF Match, PathsOnce
<1>19. ASSUME NEW i \in DOMAIN contexts' PROVE \E j \in DOMAIN decisions' : Tells(decisions'[j], contexts'[i])
  <2>1. CASE i \in DOMAIN contexts
    <3>1. PICK j \in DOMAIN decisions : Tells(decisions[j], contexts[i])
      BY <1>15, <2>1 DEF Match
    <3>2. j \in DOMAIN decisions' /\ decisions'[j] = decisions[j] /\ contexts'[i] = contexts[i]
      BY <1>9, <1>10, <1>11, <2>1
    <3> QED
      BY <3>1, <3>2
  <2>2. CASE i \notin DOMAIN contexts
    <3>1. ~lost /\ i = Len(contexts) + 1
      BY <1>10, <1>11, <2>2
    <3> QED
      BY <1>7, <1>9, <1>10, <1>11, <3>1
  <2> QED
    BY <2>1, <2>2
<1>20. ASSUME NEW j \in DOMAIN decisions'
       PROVE  IF decisions'[j].omitted THEN decisions'[j].tokens = 0
              ELSE \E i \in DOMAIN contexts' : Tells(decisions'[j], contexts'[i])
  <2>1. CASE j \in DOMAIN decisions /\ decisions[j].omitted
    BY <1>9, <1>15, <2>1 DEF Match
  <2>2. CASE j \in DOMAIN decisions /\ ~decisions[j].omitted
    <3>1. PICK i \in DOMAIN contexts : Tells(decisions[j], contexts[i])
      BY <1>15, <2>2 DEF Match
    <3>2. i \in DOMAIN contexts' /\ contexts'[i] = contexts[i]
      BY <1>10, <1>11
    <3> QED
      BY <1>9, <2>2, <3>1, <3>2
  <2>3. CASE j = Len(decisions) + 1 /\ lost
    BY <1>5, <1>8, <1>9, <2>3
  <2>4. CASE j = Len(decisions) + 1 /\ ~lost
    <3>1. Len(contexts) + 1 \in DOMAIN contexts' /\ contexts'[Len(contexts) + 1] = entry
      BY <1>10, <1>11, <2>4
    <3> QED
      BY <1>7, <1>8, <1>9, <2>4, <3>1
  <2> QED
    BY <1>11, <2>1, <2>2, <2>3, <2>4
<1>21. Match(decisions, contexts)'
  BY <1>17, <1>18, <1>19, <1>20 DEF Match, PathsOnce, Tells
<1> QED
  BY <1>1, <1>12, <1>14, <1>21 DEF PackInv, ManifestTellsPack
\* The imports are found and looked up; the decisions stay.
LEMMA ImportsStep ==
  ASSUME PackInv, StartScan \/ ScanImports \/ StartAccess \/ AccessImport
  PROVE  PackInv'
<1>1. /\ packStep' \in {"scan", "access"} /\ packStep \in {"stat", "scan", "access"}
      /\ UNCHANGED <<order, handoffs, targets, selected, contexts, decisions, manifest, folder, rewrites>>
  BY DEF StartScan, ScanImports, StartAccess, AccessImport
<1>2. PackTypeOK
  BY DEF PackInv
<1>3. /\ todo \in Seq(PackPaths) /\ scanned \in Seq(PackPaths) /\ targets \in Seq(PackPaths)
      /\ imported \in Seq(PackedImports)
  BY <1>2 DEF PackTypeOK
<1>4. todo # << >> => Head(todo) \in PackPaths /\ Tail(todo) \in Seq(PackPaths)
  BY <1>3, HeadTailProperties
<1>5. todo' \in Seq(PackPaths) /\ scanned' \in Seq(PackPaths) /\ imported' \in Seq(PackedImports)
  <2>1. CASE StartScan \/ StartAccess
    BY <1>3, <2>1 DEF StartScan, StartAccess
  <2>2. CASE ScanImports
    <3> DEFINE imports == ExtractedImports(Head(todo))
               places  == {i \in DOMAIN imports : imports[i] \notin Range(targets)}
               others  == Only(imports, places)
               all     == scanned \o others
               once    == {i \in DOMAIN all : \A j \in DOMAIN all : all[j] = all[i] => i <= j}
    <3>1. /\ todo # << >> /\ todo' = Tail(todo) /\ UNCHANGED imported
          /\ scanned' = scanned \/ scanned' = Only(all, once)
      BY <2>2 DEF ScanImports, Adding
    <3>2. imports \in Seq(PackPaths)
      BY <1>4, <3>1, ImportsAreFiles
    <3>3. places \in SUBSET DOMAIN imports
      OBVIOUS
    <3> HIDE DEF imports, places
    <3>4. others \in Seq(PackPaths)
      BY <3>2, <3>3, OnlySeq
    <3> HIDE DEF others
    <3>5. all \in Seq(PackPaths)
      BY <1>3, <3>4, ConcatProperties
    <3>6. once \in SUBSET DOMAIN all
      OBVIOUS
    <3> HIDE DEF all, once
    <3>7. Only(all, once) \in Seq(PackPaths)
      BY <3>5, <3>6, OnlySeq
    <3> QED
      BY <1>3, <1>4, <3>1, <3>7
  <2>3. CASE AccessImport
    <3> DEFINE there == folder[Head(todo)] # "gone"
               row   == [path |-> Head(todo), tokens |-> IF there THEN 1 ELSE 0, included |-> there]
    <3>1. todo # << >> /\ todo' = Tail(todo) /\ UNCHANGED scanned /\ imported' = Append(imported, row)
      BY <2>3 DEF AccessImport
    <3>2. there \in BOOLEAN /\ (IF there THEN 1 ELSE 0) \in 0..1
      OBVIOUS
    <3> HIDE DEF there
    <3>3. row \in PackedImports
      BY <1>4, <3>1, <3>2 DEF PackedImports
    <3> QED
      BY <1>3, <1>4, <3>1, <3>3, AppendProperties
  <2> QED
    BY <2>1, <2>2, <2>3
<1>6. PackTypeOK'
  BY <1>1, <1>2, <1>5 DEF PackTypeOK
<1>7. Undecided' /\ ManifestTellsPack'
  BY <1>1 DEF Undecided, ManifestTellsPack
<1>8. Match(decisions, contexts)'
  BY <1>1 DEF PackInv, Match, PathsOnce, Tells
<1> QED
  BY <1>6, <1>7, <1>8 DEF PackInv

\* The pack is cut and counted.
LEMMA FinishStep ==
  ASSUME PackInv, FinishPack
  PROVE  PackInv'
<1> DEFINE kept == KeptAfter(Removals)
           es   == Only(contexts, kept)
           ds   == Omit({contexts[i].path : i \in (DOMAIN contexts) \ kept})
<1>1. /\ packStep' = "done" /\ contexts' = es /\ decisions' = ds
      /\ manifest' = [handoffs |-> SumTokens(handoffs), files |-> SumTokens(contexts'),
                      dependencies |-> SumTokens(imported)]
      /\ UNCHANGED <<order, handoffs, targets, todo, selected, scanned, imported, folder, rewrites>>
  BY DEF FinishPack, Upsert
<1>2. PackTypeOK /\ Match(decisions, contexts)
  BY DEF PackInv
<1>3. kept \in SUBSET DOMAIN contexts
  BY DEF KeptAfter
<1>4. OverBudget(es) => \A i \in kept : contexts[i].mode \notin {"metadata", "patch"}
  BY <1>2, CutOfAll
<1> HIDE DEF kept
<1>5. es \in Seq(PackEntries) /\ ds \in Seq(PackDecisions) /\ Match(ds, es)
  BY <1>2, <1>3, CutMatches
<1>6. \A n \in DOMAIN es : \E i \in kept : es[n] = contexts[i]
  <2>1. contexts \in Seq(PackEntries)
    BY <1>2 DEF PackTypeOK
  <2>2. IsFiniteSet(kept) /\ kept \subseteq Int
    BY <1>3, <2>1, OnlySeq
  <2> QED
    BY <2>2, OnlyKeeps
<1>7. OverBudget(es) => \A e \in Range(es) : e.mode \notin {"metadata", "patch"}
  BY <1>4, <1>6 DEF Range
<1> HIDE DEF es, ds
<1>8. SumTokens(es) \in Nat /\ SumTokens(es) = SumTokens(ds)
  <2>1. IsFiniteSet(DOMAIN es) /\ \A i \in DOMAIN es : es[i].tokens \in 0..5
    <3>1. DOMAIN es = 1..Len(es) /\ Len(es) \in Nat /\ \A i \in DOMAIN es : es[i] \in PackEntries
      BY <1>5, LenProperties, ElementOfSeq
    <3>2. \A e \in PackEntries : e.tokens \in 0..5
      BY DEF PackEntries
    <3>3. IsFiniteSet(DOMAIN es)
      BY <3>1, FS_Interval
    <3> QED
      BY <3>1, <3>2, <3>3
  <2> QED
    BY <1>5, <2>1, SumIsNumber, SameSum
<1>9. SumTokens(handoffs) \in Nat /\ SumTokens(imported) \in Nat
  <2>1. 0..1 \subseteq 0..5
    OBVIOUS
  <2>2. IsFiniteSet(DOMAIN handoffs) /\ \A i \in DOMAIN handoffs : handoffs[i].tokens \in 0..5
    <3>1. DOMAIN handoffs = 1..Len(handoffs) /\ Len(handoffs) \in Nat /\ \A i \in DOMAIN handoffs : handoffs[i] \in Packets
      BY <1>2, LenProperties, ElementOfSeq DEF PackTypeOK
    <3> QED
      BY <2>1, <3>1, FS_Interval DEF Packets
  <2>3. IsFiniteSet(DOMAIN imported) /\ \A i \in DOMAIN imported : imported[i].tokens \in 0..5
    <3>1. DOMAIN imported = 1..Len(imported) /\ Len(imported) \in Nat
          /\ \A i \in DOMAIN imported : imported[i] \in PackedImports
      BY <1>2, LenProperties, ElementOfSeq DEF PackTypeOK
    <3> QED
      BY <2>1, <3>1, FS_Interval DEF PackedImports
  <2> QED
    BY <2>2, <2>3, SumIsNumber
<1>10. PackTypeOK'
  BY <1>1, <1>2, <1>5, <1>8, <1>9 DEF PackTypeOK
<1>11. Undecided'
  BY <1>1 DEF Undecided
<1>12. Match(decisions, contexts)'
  BY <1>1, <1>5 DEF Match, PathsOnce, Tells
<1>13. ManifestTellsPack'
  <2>1. \A i, j \in DOMAIN ds : ds[i].path = ds[j].path => i = j
    BY <1>5 DEF Match, PathsOnce
  <2>2. {[path |-> e.path, mode |-> e.mode] : e \in Range(es)}
          = {[path |-> d.path, mode |-> d.mode] : d \in {x \in Range(ds) : ~x.omitted}}
    BY <1>5, MatchTells
  <2>3. /\ manifest'.handoffs = SumTokens(handoffs) /\ manifest'.files = SumTokens(es)
        /\ manifest'.dependencies = SumTokens(imported)
    BY <1>1
  <2>4. manifest'.handoffs + manifest'.files + manifest'.dependencies > order.budget
          => \A e \in Range(es) : e.mode \notin {"metadata", "patch"}
    BY <1>7, <2>3 DEF OverBudget
  <2>5. manifest'.files = SumTokens(ds)
    BY <1>8, <2>3
  <2> QED
    BY <1>1, <2>1, <2>2, <2>4, <2>5 DEF ManifestTellsPack, SumTokens, Range
<1> QED
  BY <1>10, <1>11, <1>12, <1>13 DEF PackInv

LEMMA OthersWriteStep ==
  ASSUME PackInv, (\E path \in PackPaths, length \in Lengths \cup {"gone"} : OtherWorkerWrites(path, length))
                  \/ UNCHANGED packVars
  PROVE  PackInv'
<1>1. UNCHANGED <<packStep, order, handoffs, targets, todo, selected, contexts, decisions, scanned,
                  imported, manifest>>
  BY DEF OtherWorkerWrites, packVars
<1>2. folder' \in [PackPaths -> Lengths \cup {"gone", "folder"}] /\ rewrites' \in 0..MaxRewrites
  <2>1. folder \in [PackPaths -> Lengths \cup {"gone", "folder"}] /\ rewrites \in 0..MaxRewrites
    BY DEF PackInv, PackTypeOK
  <2>2. CASE UNCHANGED packVars
    BY <2>1, <2>2 DEF packVars
  <2>3. ASSUME NEW path \in PackPaths, NEW length \in Lengths \cup {"gone"}, OtherWorkerWrites(path, length)
        PROVE  folder' \in [PackPaths -> Lengths \cup {"gone", "folder"}] /\ rewrites' \in 0..MaxRewrites
    BY <2>1, <2>3, PackAssumption DEF OtherWorkerWrites
  <2> QED
    BY <2>2, <2>3
<1>3. PackTypeOK'
  BY <1>1, <1>2 DEF PackInv, PackTypeOK
<1> QED
  BY <1>1, <1>3 DEF PackInv, Undecided, NamedOnce, Match, PathsOnce, Tells, ManifestTellsPack

LEMMA PackHolds == PackSpec => []PackInv
<1>1. PackInv /\ [PackNext]_packVars => PackInv'
  BY GatherStep, LookStep, MaterializeStep, ImportsStep, FinishStep, OthersWriteStep DEF PackNext
<1> QED
  BY <1>1, PackInitInv, PTL DEF PackSpec

\* The code behaviour: the packets, files, entries, decisions and totals of a pack are what
\* ContextPackBuilder makes of the phase, for any dependencies, files, imports and budgets.
THEOREM PackTypeCorrect == PackSpec => []PackTypeOK
<1>1. PackInv => PackTypeOK
  BY DEF PackInv
<1> QED
  BY <1>1, PackHolds, PTL

\* The code behaviour: a file is looked at once however many name it; its entry and its decision are
\* added by one step, and pruning turns the decision on what it removes into an omission: the
\* stored manifest tells what is in the pack, for any number of files, sizes and writes by others.
THEOREM ManifestTellsPackHolds == PackSpec => []ManifestTellsPack
<1>1. PackInv => ManifestTellsPack
  BY DEF PackInv
<1> QED
  BY <1>1, PackHolds, PTL
=============================================================================
