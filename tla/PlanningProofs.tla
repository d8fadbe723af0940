---------------------------- MODULE PlanningProofs --------------------------
(***************************************************************************)
(* What a plan goes through until it is accepted, for any sessions, modes, *)
(* numbers of questions and jobs, and any graph of phases: the runbook that*)
(* becomes ready is the one that a patient user was shown (Planning), the  *)
(* sort visits a phase after all it depends on, exactly those runbooks are *)
(* rejected in which a phase could never start (KahnSort), and a           *)
(* subproject is described by its own folder (PromptCompiler).             *)
(*                                                                         *)
(* A plan under review is the plan shown, because nothing that could still *)
(* generate another is left then; an approved one stays it, because the    *)
(* commands of a patient user wait for the approval to end.  The sort's    *)
(* invariant is that of Kahn: a count is the number of dependencies that   *)
(* are not yet visited, and the queue holds what has none left.            *)
(***************************************************************************)
EXTENDS Planning, PromptCompiler, KahnSort, TLAPS, FunctionTheorems, FiniteSetTheorems, SequenceTheorems

-----------------------------------------------------------------------------
(* The types of the planning                                               *)

\* The types of the records, by name.
Engines == [state : EngineStates, draft : Texts, prompt : Texts, runbook : Texts, round : 0..MaxRounds]
Flows == [step : {"none", "save", "load"}, plan : Texts, approved : BOOLEAN]
Planners == [active : 0..MaxJobs, out : Texts, prompt : Texts, retries : 0..MaxRetries + 1,
             timedOut : BOOLEAN, cached : Texts, response : Texts, auto : BOOLEAN]
JobStates == [stage : {"none", "scanning", "starting", "running", "reading"},
              answer : Texts, dir : Dirs, killed : BOOLEAN, expired : BOOLEAN, code : 0..1]
Bindings == [engine : Managers, svc : Managers, shared : BOOLEAN]

\* A planner that is at work, or whose plan is under review, was asked in a session.
PromptKnown == engine.state \in {"PLANNING", "PLAN_REVIEW"} => engine.prompt \in Plans

\* The invariant of the types: a rejection asks in the session of the prompt.
PlanningInv == PlanningTypeOK /\ PromptKnown

\* A transition leads to a state of the machine; to the planning only on a request, to
\* the review only from it.
LEMMA FireInStates ==
  ASSUME NEW s \in EngineStates, NEW e
  PROVE  /\ Fire(s, e) \in EngineStates
         /\ Fire(s, e) = "PLAN_REVIEW" => s \in {"PLANNING", "PLAN_REVIEW"}
         /\ Fire(s, e) = "PLANNING" => s \in {"PLANNING", "PLAN_REVIEW"} \/ e = "PLAN_REQUEST"
<1>1. CASE s = "IDLE"
  BY <1>1 DEF Fire, Accepts, Transitions, EngineStates
<1>2. CASE s = "PLANNING"
  BY <1>2 DEF Fire, Accepts, Transitions, EngineStates
<1>3. CASE s = "PLAN_REVIEW"
  BY <1>3 DEF Fire, Accepts, Transitions, EngineStates
<1>4. CASE s = "PARSING"
  BY <1>4 DEF Fire, Accepts, Transitions, EngineStates
<1>5. CASE s = "READY"
  BY <1>5 DEF Fire, Accepts, Transitions, EngineStates
<1>6. CASE s = "EXECUTING_WORKER"
  BY <1>6 DEF Fire, Accepts, Transitions, EngineStates
<1>7. CASE s = "EVALUATING"
  BY <1>7 DEF Fire, Accepts, Transitions, EngineStates
<1>8. CASE s = "ERROR_PAUSED"
  BY <1>8 DEF Fire, Accepts, Transitions, EngineStates
<1>9. CASE s = "COMPLETED"
  BY <1>9 DEF Fire, Accepts, Transitions, EngineStates
<1> QED
  BY <1>1, <1>2, <1>3, <1>4, <1>5, <1>6, <1>7, <1>8, <1>9 DEF EngineStates

\* The bounds as intervals of numbers.
LEMMA BoundsType ==
  /\ 0 \in 0..MaxJobs /\ Jobs \subseteq 0..MaxJobs /\ MaxRetries = 2
  /\ 0 \in 0..MaxRetries + 1 /\ MaxRetries + 1 \in 0..MaxRetries + 1
  BY PlanningAssumption DEF Jobs, MaxRetries

\* What is no plan is a text all the same.
LEMMA TextTypes ==
  /\ Nothing \in Texts /\ Garbage \in Texts /\ Plans \subseteq Texts
  /\ Nothing \notin Plans /\ Garbage \notin Plans
  /\ \A t \in Texts : t.home \in Dirs
  BY PlanningAssumption DEF Texts, Nothing, Garbage, Plans, Plan, Dirs

\* A question asked in a session is a plan's name.
LEMMA PlanType ==
  ASSUME NEW s \in Sessions, NEW n \in 0..MaxRounds
  PROVE  Plan(s, n) \in Plans /\ Plan(s, n) \in Texts
  BY DEF Plan, Plans, Texts

\* Setting one session's plan keeps the plans of sessions.
LEMMA AtType ==
  ASSUME NEW dirs \in [Sessions -> Texts], NEW s, NEW p \in Texts
  PROVE  At(dirs, s, p) \in [Sessions -> Texts]
  BY DEF At

\* A save keeps the types of the database and the files.
LEMMA SaveType ==
  ASSUME PlanningTypeOK, NEW m, NEW p \in Texts, Save(m, p)
  PROVE  row' \in [Sessions -> Texts] /\ file' \in [Sessions -> Texts]
  BY AtType DEF Save, PlanningTypeOK

\* What is read from a directory is a text.
LEMMA OnDiskType ==
  ASSUME PlanningTypeOK, NEW s
  PROVE  OnDisk(s) \in Texts
  BY TextTypes DEF OnDisk, PlanningTypeOK

\* The types hold at the start.
LEMMA PlanningInitInv == PlanningInit => PlanningInv
<1> SUFFICES ASSUME PlanningInit PROVE PlanningInv
  OBVIOUS
<1>1. row \in [Sessions -> Texts] /\ file \in [Sessions -> Texts]
  BY PlanningAssumption, TextTypes, PlanType DEF PlanningInit
<1>2. mode \in Modes /\ told = "none" /\ shown \in Texts /\ current \in Dirs
      /\ table \in [Sessions -> {"new", "listed", "deleted"}]
  BY TextTypes DEF PlanningInit, Dirs
<1>3. engine \in Engines /\ engine.state = "IDLE"
  BY PlanningAssumption, TextTypes DEF PlanningInit, Engines, EngineStates
<1>4. flow \in Flows
  BY TextTypes DEF PlanningInit, NoFlow, Flows
<1>5. manager \in Bindings
  BY DEF PlanningInit, Bindings, Managers, Unbound, Dirs
<1>6. planner \in Planners
  BY PlanningAssumption, TextTypes DEF PlanningInit, Planners, MaxRetries
<1>7. jobs \in [Jobs -> JobStates]
  BY TextTypes DEF PlanningInit, NoJob, JobStates, Dirs
<1> QED
  BY <1>1, <1>2, <1>3, <1>4, <1>5, <1>6, <1>7
     DEF PlanningInv, PromptKnown, PlanningTypeOK, Engines, Flows, Bindings, Planners, JobStates

\* An abort keeps the types.
LEMMA AbortType ==
  ASSUME PlanningInv, AbortEngine
  PROVE  /\ engine' \in Engines /\ row' \in [Sessions -> Texts] /\ file' \in [Sessions -> Texts]
         /\ shown' = shown /\ PromptKnown'
<1>1. engine \in Engines /\ PlanningTypeOK /\ PromptKnown
  BY DEF PlanningInv, PlanningTypeOK, Engines
<1>2. engine' = [engine EXCEPT !.state = Fire(@, "ABORT")]
  BY DEF AbortEngine
<1>3. /\ engine'.state = Fire(engine.state, "ABORT") /\ engine'.prompt = engine.prompt
      /\ engine' \in Engines
  BY <1>1, <1>2, FireInStates DEF Engines
<1>4. PromptKnown'
  BY <1>1, <1>3, FireInStates DEF PromptKnown, Engines
<1>5. engine.runbook \in Texts
  BY <1>1 DEF Engines
<1>6. row' \in [Sessions -> Texts] /\ file' \in [Sessions -> Texts]
  BY <1>1, <1>5, SaveType DEF AbortEngine, PlanningTypeOK
<1> QED
  BY <1>3, <1>4, <1>6 DEF AbortEngine

\* A generated plan keeps the types.
LEMMA GeneratedType ==
  ASSUME PlanningInv, NEW p \in Texts, Generated(p)
  PROVE  /\ engine' \in Engines /\ row' \in [Sessions -> Texts] /\ file' \in [Sessions -> Texts]
         /\ shown' \in Texts /\ told' = "ready" /\ PromptKnown'
<1>1. engine \in Engines /\ PlanningTypeOK /\ PromptKnown
  BY DEF PlanningInv, PlanningTypeOK, Engines
<1>2. engine' = [engine EXCEPT !.draft = p, !.state = Fire(@, "PLAN_GENERATED")]
  BY DEF Generated
<1>3. /\ engine'.state = Fire(engine.state, "PLAN_GENERATED") /\ engine'.prompt = engine.prompt
      /\ engine' \in Engines
  BY <1>1, <1>2, FireInStates DEF Engines
<1>4. PromptKnown'
  BY <1>1, <1>3, FireInStates DEF PromptKnown, Engines
<1> QED
  BY <1>1, <1>3, <1>4, SaveType DEF Generated, PlanningTypeOK

\* A planner stays one when a field takes a value of its type.
LEMMA PlannerFields ==
  ASSUME NEW p \in Planners
  PROVE  /\ \A n \in 0..MaxJobs : [p EXCEPT !.active = n] \in Planners
         /\ \A n \in 0..MaxRetries + 1 : [p EXCEPT !.retries = n] \in Planners
         /\ \A b \in BOOLEAN : [p EXCEPT !.timedOut = b] \in Planners /\ [p EXCEPT !.auto = b] \in Planners
         /\ \A t \in Texts : /\ [p EXCEPT !.out = t] \in Planners /\ [p EXCEPT !.prompt = t] \in Planners
                             /\ [p EXCEPT !.cached = t] \in Planners /\ [p EXCEPT !.response = t] \in Planners
  BY DEF Planners

\* An engine stays one when a field takes a value of its type.
LEMMA EngineFields ==
  ASSUME NEW e \in Engines
  PROVE  /\ \A s \in EngineStates : [e EXCEPT !.state = s] \in Engines
         /\ \A t \in Texts : /\ [e EXCEPT !.draft = t] \in Engines /\ [e EXCEPT !.prompt = t] \in Engines
                             /\ [e EXCEPT !.runbook = t] \in Engines
         /\ \A n \in 0..MaxRounds : [e EXCEPT !.round = n] \in Engines
  BY DEF Engines

\* A job stays one when a field takes a value of its type.
LEMMA JobFields ==
  ASSUME NEW j \in JobStates
  PROVE  /\ \A s \in {"none", "scanning", "starting", "running", "reading"} : [j EXCEPT !.stage = s] \in JobStates
         /\ \A t \in Texts : [j EXCEPT !.answer = t] \in JobStates
         /\ \A d \in Dirs : [j EXCEPT !.dir = d] \in JobStates
         /\ \A c \in 0..1 : [j EXCEPT !.code = c] \in JobStates
  BY DEF JobStates

\* Each step of jobs, timers and commands keeps the types.
LEMMA PlanningTypeStep ==
  ASSUME PlanningInv, [PlanningNext]_planningVars
  PROVE  PlanningInv'
<1>1. /\ mode \in Modes /\ engine \in Engines /\ flow \in Flows /\ manager \in Bindings /\ current \in Dirs
      /\ table \in [Sessions -> {"new", "listed", "deleted"}]
      /\ row \in [Sessions -> Texts] /\ file \in [Sessions -> Texts]
      /\ planner \in Planners /\ jobs \in [Jobs -> JobStates]
      /\ told \in {"none", "generating", "ready", "timeout", "error"} /\ shown \in Texts
      /\ PromptKnown /\ PlanningTypeOK
  BY DEF PlanningInv, PlanningTypeOK, Engines, Flows, Bindings, Planners, JobStates
<1>2. ASSUME mode' \in Modes, engine' \in Engines, flow' \in Flows, manager' \in Bindings, current' \in Dirs,
             table' \in [Sessions -> {"new", "listed", "deleted"}],
             row' \in [Sessions -> Texts], file' \in [Sessions -> Texts],
             planner' \in Planners, jobs' \in [Jobs -> JobStates],
             told' \in {"none", "generating", "ready", "timeout", "error"}, shown' \in Texts, PromptKnown'
      PROVE  PlanningInv'
  BY <1>2 DEF PlanningInv, PlanningTypeOK, Engines, Flows, Bindings, Planners, JobStates
<1>3. UNCHANGED engine => PromptKnown'
  BY <1>1 DEF PromptKnown
<1>4. Nothing \in Texts /\ Garbage \in Texts /\ NoJob \in JobStates /\ NoFlow \in Flows /\ Plans \subseteq Texts
  BY TextTypes DEF NoJob, NoFlow, JobStates, Flows, Dirs
<1>5. \A j \in Jobs : Ended(j) \in [Jobs -> JobStates]
  BY <1>1, <1>4 DEF Ended
<1>6. \A s : OnDisk(s) \in Texts
  BY <1>1, OnDiskType
<1>7. ASSUME NEW all \in [Jobs -> JobStates], NEW said \in Texts, NEW answer \in Texts,
             NEW retries \in 0..MaxRetries + 1, BeginPlan(all, said, answer, retries)
      PROVE  jobs' \in [Jobs -> JobStates] /\ planner' \in Planners
  <2>1. PICK j \in Jobs :
          jobs' = [i \in Jobs |->
                  IF i = j THEN [NoJob EXCEPT !.stage = "scanning", !.answer = answer]
                  ELSE IF i = planner.active THEN [all[i] EXCEPT !.killed = TRUE] ELSE all[i]]
    BY <1>7 DEF BeginPlan
  <2>2. [NoJob EXCEPT !.stage = "scanning", !.answer = answer] \in JobStates
    BY <1>4 DEF JobStates
  <2>3. \A i \in Jobs : all[i] \in JobStates /\ [all[i] EXCEPT !.killed = TRUE] \in JobStates
    BY DEF JobStates
  <2>4. jobs' \in [Jobs -> JobStates]
    BY <2>1, <2>2, <2>3
  <2>5. planner' = [planner EXCEPT !.active = 0, !.out = Nothing, !.timedOut = FALSE,
                     !.response = Nothing, !.prompt = said, !.retries = retries]
    BY <1>7 DEF BeginPlan
  <2>6. planner' \in Planners
    <3>1. planner \in Planners /\ Nothing \in Texts /\ 0 \in 0..MaxJobs
      BY <1>1, <1>4, BoundsType
    <3> QED
      BY <3>1, <2>5, PlannerFields
  <2> QED
    BY <2>4, <2>6
<1>8. ASSUME NEW j \in Jobs, BuildPrompt(j) PROVE PlanningInv'
  <2>1. jobs' \in [Jobs -> JobStates]
    BY <1>1, <1>8 DEF BuildPrompt, JobStates
  <2> QED
    BY <2>1, <1>1, <1>8, <1>2, <1>3 DEF BuildPrompt, sessionVars
<1>9. ASSUME NEW j \in Jobs, JobStarts(j) PROVE PlanningInv'
  <2>1. jobs' \in [Jobs -> JobStates]
    BY <1>1, <1>9 DEF JobStarts, JobStates
  <2>2. planner' \in Planners
    <3>1. planner \in Planners /\ jobs[j].answer \in Texts /\ j \in 0..MaxJobs
      BY <1>1, BoundsType DEF JobStates
    <3>2. planner' = [planner EXCEPT !.active = j, !.response = jobs[j].answer]
      BY <1>9 DEF JobStarts
    <3> QED
      BY <3>1, <3>2, PlannerFields
  <2> QED
    BY <2>1, <2>2, <1>1, <1>9, <1>2, <1>3 DEF JobStarts, sessionVars
<1>10. ASSUME NEW j \in Jobs, JobFails(j) PROVE PlanningInv'
  <2>1. jobs' \in [Jobs -> JobStates]
    BY <1>1, <1>4, <1>10 DEF JobFails
  <2>2. planner' \in Planners
    BY <1>1, <1>10, PlanningAssumption DEF JobFails, Planners
  <2>3. AbortEngine /\ told' = "error"
    BY <1>10 DEF JobFails, Failed
  <2>4. /\ engine' \in Engines /\ row' \in [Sessions -> Texts] /\ file' \in [Sessions -> Texts]
        /\ shown' = shown /\ PromptKnown'
    BY <2>3, AbortType
  <2> QED
    BY <2>1, <2>2, <2>3, <2>4, <1>1, <1>10, <1>2 DEF JobFails, sessionVars
<1>11. ASSUME NEW j \in Jobs, JobWrites(j) PROVE PlanningInv'
  <2>1. file' \in [Sessions -> Texts]
    BY <1>1, <1>11 DEF JobWrites, JobStates
  <2> QED
    BY <2>1, <1>1, <1>11, <1>2, <1>3 DEF JobWrites, sessionVars
<1>12. ASSUME NEW j \in Jobs, JobTalks(j) PROVE PlanningInv'
  <2>1. PICK text \in {jobs[j].answer, Garbage} :
          planner' = [planner EXCEPT !.out = IF @ = Nothing THEN text ELSE Garbage]
    BY <1>12 DEF JobTalks
  <2>2. text \in Texts
    BY <1>1, <1>4 DEF JobStates
  <2>3. planner' \in Planners
    BY <2>1, <2>2, <1>1, <1>4 DEF Planners
  <2> QED
    BY <2>3, <1>1, <1>12, <1>2, <1>3 DEF JobTalks, sessionVars
<1>13. ASSUME NEW j \in Jobs, JobExits(j) PROVE PlanningInv'
  <2>1. PICK code \in {0, 1} :
         /\ jobs' = [jobs EXCEPT ![j] = IF planner.timedOut THEN NoJob
                     ELSE [@ EXCEPT !.stage = "reading", !.dir = current, !.code = code]]
         /\ planner' = [planner EXCEPT !.active = 0,
                        !.cached = IF ~planner.timedOut /\ code = 1 THEN planner.out ELSE @]
    BY <1>13 DEF JobExits
  <2>2. [jobs[j] EXCEPT !.stage = "reading", !.dir = current, !.code = code] \in JobStates
    <3>1. jobs[j] \in JobStates /\ code \in 0..1 /\ current \in Dirs
      BY <1>1
    <3> QED
      BY <3>1, JobFields
  <2>3. jobs' \in [Jobs -> JobStates]
    BY <2>1, <2>2, <1>1, <1>4
  <2>4. planner' \in Planners
    <3>1. planner \in Planners /\ planner.out \in Texts /\ planner.cached \in Texts /\ 0 \in 0..MaxJobs
      BY <1>1, BoundsType DEF Planners
    <3>2. (IF ~planner.timedOut /\ code = 1 THEN planner.out ELSE planner.cached) \in Texts
      BY <3>1
    <3>3. planner' = [planner EXCEPT !.active = 0,
                        !.cached = IF ~planner.timedOut /\ code = 1 THEN planner.out ELSE planner.cached]
      BY <2>1
    <3> QED
      BY <3>1, <3>2, <3>3, PlannerFields
  <2> QED
    BY <2>3, <2>4, <1>1, <1>13, <1>2, <1>3 DEF JobExits, sessionVars
<1>14. ASSUME NEW j \in Jobs, ReadPlan(j) PROVE PlanningInv'
  <2>1. Generated(OnDisk(jobs[j].dir)) /\ OnDisk(jobs[j].dir) \in Texts
    BY <1>6, <1>14 DEF ReadPlan
  <2>2. /\ engine' \in Engines /\ row' \in [Sessions -> Texts] /\ file' \in [Sessions -> Texts]
        /\ shown' \in Texts /\ told' = "ready" /\ PromptKnown'
    BY <2>1, GeneratedType
  <2>3. planner' \in Planners
    BY <1>1, <1>14 DEF ReadPlan, Planners, MaxRetries
  <2> QED
    BY <2>2, <2>3, <1>1, <1>14, <1>2, <1>5 DEF ReadPlan, sessionVars
<1>15. ASSUME NEW o, NEW c, NEW r, TimedOut(o, c, r)
      PROVE  /\ engine' \in Engines /\ row' \in [Sessions -> Texts] /\ file' \in [Sessions -> Texts]
             /\ shown' \in Texts /\ told' = "timeout" /\ PromptKnown'
  BY <1>1, <1>3, <1>15, AbortType DEF TimedOut
<1>16. ASSUME NEW j \in Jobs, ReadNothing(j) PROVE PlanningInv'
  <2>1. TimedOut(planner.out, planner.cached, planner.response)
    BY <1>16 DEF ReadNothing
  <2>2. /\ engine' \in Engines /\ row' \in [Sessions -> Texts] /\ file' \in [Sessions -> Texts]
        /\ shown' \in Texts /\ told' = "timeout" /\ PromptKnown'
    BY <2>1, <1>15
  <2> QED
    BY <2>2, <1>1, <1>16, <1>2, <1>5 DEF ReadNothing, sessionVars
<1>17. ASSUME NEW j \in Jobs, ParseFromStdout(j) PROVE PlanningInv'
  <2>1. Generated(planner.out) /\ planner.out \in Texts
    BY <1>4, <1>17 DEF ParseFromStdout
  <2>2. /\ engine' \in Engines /\ row' \in [Sessions -> Texts] /\ file' \in [Sessions -> Texts]
        /\ shown' \in Texts /\ told' = "ready" /\ PromptKnown'
    BY <2>1, GeneratedType
  <2>3. planner' \in Planners
    BY <1>1, <1>17 DEF ParseFromStdout, Planners, MaxRetries
  <2> QED
    BY <2>2, <2>3, <1>1, <1>17, <1>2, <1>5 DEF ParseFromStdout, sessionVars
<1>18. ASSUME NEW j \in Jobs, RetryPlan(j) PROVE PlanningInv'
  <2>1. BeginPlan(Ended(j), planner.prompt, planner.prompt, planner.retries + 1)
    BY <1>18 DEF RetryPlan
  <2>2. planner.prompt \in Texts /\ planner.retries + 1 \in 0..MaxRetries + 1 /\ Ended(j) \in [Jobs -> JobStates]
    BY <1>1, <1>18, <1>5 DEF RetryPlan, Planners, MaxRetries
  <2>3. jobs' \in [Jobs -> JobStates] /\ planner' \in Planners
    BY <2>1, <2>2, <1>7
  <2> QED
    BY <2>3, <1>1, <1>18, <1>2, <1>3 DEF RetryPlan, sessionVars
<1>19. ASSUME NEW j \in Jobs, GiveUp(j) PROVE PlanningInv'
  <2>1. planner' \in Planners
    BY <1>1, <1>19 DEF GiveUp, Planners, MaxRetries
  <2>2. AbortEngine /\ told' = "error"
    BY <1>19 DEF GiveUp, Failed
  <2>3. /\ engine' \in Engines /\ row' \in [Sessions -> Texts] /\ file' \in [Sessions -> Texts]
        /\ shown' = shown /\ PromptKnown'
    BY <2>2, AbortType
  <2> QED
    BY <2>1, <2>2, <2>3, <1>1, <1>19, <1>2, <1>5 DEF GiveUp, sessionVars
<1>20. ASSUME NEW j \in Jobs, Timeout(j) PROVE PlanningInv'
  <2>1. jobs' \in [Jobs -> JobStates]
    <3>1. jobs' = [i \in Jobs |->
            [jobs[i] EXCEPT !.expired = (@ \/ i = j), !.killed = (@ \/ i = planner.active)]]
      BY <1>20 DEF Timeout
    <3>2. ASSUME NEW i \in Jobs, NEW e \in BOOLEAN, NEW k \in BOOLEAN
          PROVE  [jobs[i] EXCEPT !.expired = e, !.killed = k] \in JobStates
      BY <1>1 DEF JobStates
    <3>3. \A i \in Jobs : (jobs[i].expired \/ i = j) \in BOOLEAN /\ (jobs[i].killed \/ i = planner.active) \in BOOLEAN
      BY Zenon
    <3> QED
      BY <3>1, <3>2, <3>3
  <2>2. planner' \in Planners
    <3>1. planner' = [planner EXCEPT !.active = 0, !.timedOut = TRUE, !.cached = planner.out,
                   !.auto = @ \/ planner.out # Nothing \/ planner.response # Nothing]
      BY <1>20 DEF Timeout
    <3>2. ASSUME NEW e \in BOOLEAN
          PROVE  [planner EXCEPT !.active = 0, !.timedOut = TRUE, !.cached = planner.out, !.auto = e] \in Planners
      <4>1. planner \in Planners /\ planner.out \in Texts /\ 0 \in 0..MaxJobs
        BY <1>1, BoundsType DEF Planners
      <4> QED
        BY <4>1, PlannerFields
    <3>3. (planner.auto \/ planner.out # Nothing \/ planner.response # Nothing) \in BOOLEAN
      BY Zenon
    <3> QED
      BY <3>1, <3>2, <3>3
  <2>3. TimedOut(planner.out, planner.out, planner.response)
    BY <1>20 DEF Timeout
  <2>4. /\ engine' \in Engines /\ row' \in [Sessions -> Texts] /\ file' \in [Sessions -> Texts]
        /\ shown' \in Texts /\ told' = "timeout" /\ PromptKnown'
    BY <2>3, <1>15
  <2> QED
    BY <2>1, <2>2, <2>4, <1>1, <1>20, <1>2 DEF Timeout, sessionVars
<1>21. ASSUME NEW auto \in BOOLEAN, Reparse(auto) PROVE PlanningInv'
  <2>1. /\ [planner EXCEPT !.retries = 0, !.cached = Nothing, !.response = Nothing, !.auto = auto] \in Planners
        /\ [planner EXCEPT !.auto = auto] \in Planners
    <3>1. planner \in Planners /\ Nothing \in Texts /\ 0 \in 0..MaxRetries + 1
      BY <1>1, <1>4, BoundsType
    <3> QED
      BY <3>1, PlannerFields
  <2>2. /\ planner' \in Planners
        /\ (\E plan \in Texts : Generated(plan)) \/ Failed
    BY <2>1, <1>1, <1>4, <1>21 DEF Reparse
  <2>3. CASE \E plan \in Texts : Generated(plan)
    <3>1. /\ engine' \in Engines /\ row' \in [Sessions -> Texts] /\ file' \in [Sessions -> Texts]
          /\ shown' \in Texts /\ told' = "ready" /\ PromptKnown'
      BY <2>3, GeneratedType
    <3> QED
      BY <2>2, <3>1, <1>1, <1>21, <1>2 DEF Reparse, sessionVars
  <2>4. CASE Failed
    <3>1. /\ engine' \in Engines /\ row' \in [Sessions -> Texts] /\ file' \in [Sessions -> Texts]
          /\ shown' = shown /\ told' = "error" /\ PromptKnown'
      BY <2>4, AbortType DEF Failed
    <3> QED
      BY <2>2, <3>1, <1>1, <1>21, <1>2 DEF Reparse, sessionVars
  <2> QED
    BY <2>2, <2>3, <2>4
<1>22. ASSUME NEW e \in Engines, NEW saved \in [Sessions -> Texts], NEW approved \in BOOLEAN,
             e.state = "PARSING", Load(e, saved, approved)
      PROVE  engine' \in Engines /\ flow' \in Flows /\ PromptKnown'
  <2> DEFINE task == manager.engine.task
             plan == IF task \in Sessions THEN saved[task] ELSE Nothing
  <2>1. plan \in Texts
    BY <1>4
  <2>2. "PARSING" \in EngineStates
    BY DEF EngineStates
  <2>3. CASE plan # Nothing
    <3>1. engine' = [e EXCEPT !.state = Fire(@, "PARSE_SUCCESS"), !.runbook = plan] /\ flow' = NoFlow
      BY <2>3, <1>22 DEF Load
    <3>2. Fire(e.state, "PARSE_SUCCESS") \in EngineStates \ {"PLANNING", "PLAN_REVIEW"}
      BY <2>2, <1>22, FireInStates
    <3>3. engine'.state = Fire(e.state, "PARSE_SUCCESS")
      BY <3>1 DEF Engines
    <3> QED
      BY <3>1, <3>2, <3>3, <2>1, <1>4, EngineFields DEF PromptKnown
  <2>4. CASE plan = Nothing
    <3>1. engine' = e /\ flow' = [step |-> "load", plan |-> Nothing, approved |-> approved]
      BY <2>4, <1>22 DEF Load
    <3> QED
      BY <3>1, <1>4, <1>22 DEF PromptKnown, Flows
  <2> QED
    BY <2>3, <2>4
<1>23. ASSUME NEW s \in EngineStates PROVE [engine EXCEPT !.state = s] \in Engines /\ [engine EXCEPT !.state = s].state = s
  BY <1>1 DEF Engines
<1>24. "PARSING" \in EngineStates /\ "EXECUTING_WORKER" \in EngineStates /\ "COMPLETED" \in EngineStates /\ "ERROR_PAUSED" \in EngineStates
      /\ "IDLE" \in EngineStates /\ "READY" \in EngineStates
  BY DEF EngineStates
<1>25. /\ engine.state \in EngineStates /\ engine.draft \in Texts /\ engine.prompt \in Texts /\ engine.runbook \in Texts
      /\ engine.round \in 0..MaxRounds /\ mode.asks \in 0..MaxRounds /\ MaxRounds \in Nat
  BY <1>1, PlanningAssumption DEF Engines
<1>26. CASE AutoRetryParse
  BY <1>21, <1>26 DEF AutoRetryParse
<1>27. CASE RetryParse
  <2>1. planner.auto \in BOOLEAN
    BY <1>1 DEF Planners
  <2> QED
    BY <2>1, <1>21, <1>27 DEF RetryParse
<1>28. CASE PlanRequestRefused
  <2>1. current \in Sessions /\ engine.round + 1 \in 0..MaxRounds
    BY <1>25, <1>28 DEF PlanRequestRefused
  <2>2. Plan(current, engine.round + 1) \in Plans /\ Plan(current, engine.round + 1) \in Texts
    BY <2>1, PlanType
  <2>3. engine' = [engine EXCEPT !.draft = Nothing, !.round = engine.round + 1,
                              !.prompt = Plan(current, engine.round + 1)]
    BY <1>28 DEF PlanRequestRefused
  <2>4. engine' \in Engines
    BY <2>1, <2>2, <2>3, <1>1, <1>4, EngineFields
  <2>5. engine'.prompt = Plan(current, engine.round + 1)
    BY <2>3, <1>1 DEF Engines
  <2> QED
    BY <2>2, <2>4, <2>5, <1>1, <1>28, <1>2 DEF PlanRequestRefused, sessionVars, PromptKnown
<1>29. CASE PlanRequest
  <2>1. /\ current' \in Sessions /\ manager' \in Bindings /\ current' \in Dirs
        /\ table' \in [Sessions -> {"new", "listed", "deleted"}]
    <3>1. CASE current \in Sessions /\ UNCHANGED sessionVars
      BY <3>1, <1>1 DEF sessionVars
    <3>2. CASE Unused # {} /\ Materialise(Fresh)
      <4>1. Fresh \in Sessions
        BY <3>2 DEF Fresh, Unused
      <4>2. current' = Fresh /\ table' = [table EXCEPT ![Fresh] = "listed"]
        BY <3>2 DEF Materialise, Listed
      <4>3. manager' = [manager EXCEPT !.svc = [dir |-> Fresh, task |-> Fresh],
                          !.engine = IF manager.shared THEN [dir |-> Fresh, task |-> Fresh] ELSE manager.engine]
        BY <3>2, <1>1 DEF Materialise, Bindings
      <4>4. [dir |-> Fresh, task |-> Fresh] \in Managers
        BY <4>1 DEF Managers, Dirs
      <4>5. manager' \in Bindings
        BY <4>3, <4>4, <1>1 DEF Bindings
      <4> QED
        BY <4>1, <4>2, <4>5, <1>1 DEF Dirs
    <3> QED
      BY <3>1, <3>2, <1>29 DEF PlanRequest
  <2> DEFINE ask == Plan(current', engine.round + 1)
  <2>2. ask \in Plans /\ ask \in Texts /\ engine.round + 1 \in 0..MaxRounds
    <3>1. engine.round + 1 \in 0..MaxRounds
      BY <1>25, <1>29 DEF PlanRequest
    <3> QED
      BY <3>1, <2>1, PlanType
  <2>3. /\ engine' = [engine EXCEPT !.state = Fire(@, "PLAN_REQUEST"), !.draft = Nothing,
                                    !.prompt = ask, !.round = @ + 1]
        /\ BeginPlan(jobs, ask, ask, planner.retries)
    BY <1>29 DEF PlanRequest
  <2>4. engine' \in Engines /\ engine'.prompt = ask
    BY <2>2, <2>3, <1>1, <1>4, <1>25, FireInStates DEF Engines
  <2>5. planner.retries \in 0..MaxRetries + 1
    BY <1>1 DEF Planners
  <2>6. jobs' \in [Jobs -> JobStates] /\ planner' \in Planners
    BY <2>2, <2>3, <2>5, <1>1, <1>7
  <2> QED
    BY <2>1, <2>2, <2>4, <2>6, <1>1, <1>29, <1>2 DEF PlanRequest, PromptKnown
<1>30. CASE PlanRejected
  <2>1. engine.state \in {"PLANNING", "PLAN_REVIEW"}
    BY <1>25, <1>30 DEF PlanRejected, Accepts, Transitions, EngineStates
  <2>2. engine.prompt \in Plans /\ engine.prompt.home \in Sessions
    BY <2>1, <1>1 DEF PromptKnown, Plans
  <2>3. engine.round + 1 \in 0..MaxRounds
    BY <1>25, <1>30 DEF PlanRejected
  <2>4. Plan(engine.prompt.home, engine.round + 1) \in Texts
    BY <2>2, <2>3, PlanType
  <2>5. engine' = [engine EXCEPT !.state = Fire(@, "PLAN_REJECTED"), !.round = @ + 1]
    BY <1>30 DEF PlanRejected
  <2>6. engine' \in Engines /\ engine'.prompt = engine.prompt
    BY <2>3, <2>5, <1>1, <1>25, FireInStates DEF Engines
  <2>7. planner.retries \in 0..MaxRetries + 1
    BY <1>1 DEF Planners
  <2>8. jobs' \in [Jobs -> JobStates] /\ planner' \in Planners
    BY <2>4, <2>7, <1>1, <1>25, <1>7, <1>30 DEF PlanRejected
  <2> QED
    BY <2>2, <2>6, <2>8, <1>1, <1>30, <1>2 DEF PlanRejected, PromptKnown, sessionVars
<1>31. CASE Approve
  <2>1. flow' \in Flows
    BY <1>25, <1>31 DEF Approve, Flows
  <2> QED
    BY <2>1, <1>1, <1>31, <1>2, <1>3 DEF Approve, sessionVars
<1>32. CASE ApproveSaved
  <2>1. flow.plan \in Texts /\ Save(manager.engine, flow.plan)
    BY <1>1, <1>32 DEF ApproveSaved, Flows
  <2>2. row' \in [Sessions -> Texts] /\ file' \in [Sessions -> Texts]
    BY <2>1, <1>1, SaveType
  <2>3. At(row, manager.engine.task, flow.plan) \in [Sessions -> Texts]
    BY <2>1, <1>1, AtType
  <2>4. engine' \in Engines /\ flow' \in Flows /\ PromptKnown'
    <3>1. CASE Load([engine EXCEPT !.state = "PARSING"], At(row, manager.engine.task, flow.plan), TRUE)
      BY <3>1, <2>3, <1>22, <1>23, <1>24
    <3>2. CASE engine' = engine /\ flow' = NoFlow
      BY <3>2, <1>1, <1>3, <1>4
    <3> QED
      BY <3>1, <3>2, <1>32 DEF ApproveSaved
  <2> QED
    BY <2>2, <2>4, <1>1, <1>32, <1>2 DEF ApproveSaved, sessionVars
<1>33. CASE LoadedFromFile
  <2> DEFINE plan == OnDisk(manager.engine.dir)
  <2>1. plan \in Texts /\ flow' = NoFlow
    BY <1>6, <1>33 DEF LoadedFromFile
  <2>2. CASE engine' = [engine EXCEPT !.state = Fire(@, "PARSE_FAILURE")]
    <3>1. engine' \in Engines /\ engine'.prompt = engine.prompt /\ engine'.state = Fire(engine.state, "PARSE_FAILURE")
      BY <2>2, <1>1, <1>25, FireInStates DEF Engines
    <3>2. PromptKnown'
      BY <3>1, <1>1, <1>25, FireInStates DEF PromptKnown
    <3> QED
      BY <3>1, <3>2, <2>1, <1>1, <1>4, <1>33, <1>2 DEF LoadedFromFile, sessionVars
  <2>3. CASE engine' = [engine EXCEPT !.state = Fire(@, "PARSE_SUCCESS"), !.runbook = plan]
    <3>1. engine' \in Engines /\ engine'.prompt = engine.prompt /\ engine'.state = Fire(engine.state, "PARSE_SUCCESS")
      BY <2>1, <2>3, <1>1, <1>25, FireInStates DEF Engines
    <3>2. PromptKnown'
      BY <3>1, <1>1, <1>25, FireInStates DEF PromptKnown
    <3> QED
      BY <3>1, <3>2, <2>1, <1>1, <1>4, <1>33, <1>2 DEF LoadedFromFile, sessionVars
  <2> QED
    BY <2>2, <2>3, <1>33 DEF LoadedFromFile
<1>34. CASE LoadRunbook
  <2>1. engine' \in Engines /\ flow' \in Flows /\ PromptKnown'
    BY <1>34, <1>1, <1>22, <1>23, <1>24 DEF LoadRunbook
  <2> QED
    BY <2>1, <1>1, <1>34, <1>2 DEF LoadRunbook, sessionVars
<1>35. ASSUME NEW s \in EngineStates \ {"PLANNING", "PLAN_REVIEW"}, engine' = [engine EXCEPT !.state = s]
      PROVE  engine' \in Engines /\ PromptKnown'
  BY <1>35, <1>23 DEF PromptKnown
<1>36. CASE Start \/ Finish
  <2>1. engine' \in Engines /\ PromptKnown'
    <3>1. PICK s \in {"EXECUTING_WORKER", "COMPLETED", "ERROR_PAUSED"} : engine' = [engine EXCEPT !.state = s]
      BY <1>36 DEF Start, Finish
    <3> QED
      BY <3>1, <1>24, <1>35
  <2>2. Save(manager.engine, engine.runbook)
    BY <1>36 DEF Start, Finish
  <2>3. row' \in [Sessions -> Texts] /\ file' \in [Sessions -> Texts]
    BY <2>2, <1>1, <1>25, SaveType
  <2> QED
    BY <2>1, <2>3, <1>1, <1>36, <1>2 DEF Start, Finish, sessionVars
<1>37. CASE Abort
  <2>1. /\ engine' \in Engines /\ row' \in [Sessions -> Texts] /\ file' \in [Sessions -> Texts]
        /\ shown' = shown /\ PromptKnown'
    BY <1>37, AbortType DEF Abort
  <2> QED
    BY <2>1, <1>1, <1>37, <1>2 DEF Abort, sessionVars
<1>38. CASE NewSession \/ CmdReset
  <2>1. Reset
    BY <1>38 DEF NewSession, CmdReset
  <2>2. Fresh \in Sessions
    BY <2>1 DEF Reset, Fresh, Unused
  <2>3. current' \in Dirs /\ table' \in [Sessions -> {"new", "listed", "deleted"}]
    BY <2>1, <2>2, <1>1 DEF Reset, Listed, Dirs
  <2>4. manager' \in Bindings
    BY <2>1, <2>2 DEF Reset, Bindings, Managers, Dirs
  <2>5. engine' = Rest([engine EXCEPT !.state = Fire(@, "RESET")])
    BY <2>1 DEF Reset
  <2>6. Fire(engine.state, "RESET") = "IDLE"
    BY <1>25 DEF Fire, Accepts, Transitions, EngineStates
  <2>7. [engine EXCEPT !.state = "IDLE"] \in Engines
    BY <1>23, <1>24
  <2>8. engine' \in Engines
    BY <2>5, <2>6, <2>7, <1>4, EngineFields DEF Rest
  <2>9. engine'.state = "IDLE"
    BY <2>5, <2>6, <1>1 DEF Rest, Engines
  <2>10. PromptKnown'
    BY <2>9 DEF PromptKnown
  <2>11. row' \in [Sessions -> Texts]
    BY <1>1, <1>38, <1>25, AtType DEF NewSession, CmdReset
  <2> QED
    BY <2>1, <2>3, <2>4, <2>8, <2>10, <2>11, <1>1, <1>2 DEF Reset
<1>39. CASE LoadSession
  <2>1. PICK s \in Others : /\ SwitchEngine(s) /\ SwitchContainer(s)
                            /\ UNCHANGED <<mode, flow, table, file, planner, jobs, told, shown>>
    BY <1>39 DEF LoadSession
  <2>2. s \in Sessions /\ current' = s
    BY <2>1 DEF Others, SwitchContainer
  <2>3. manager' \in Bindings
    <3>1. manager.svc \in Managers /\ manager.engine \in Managers /\ manager.shared \in BOOLEAN
      BY <1>1 DEF Bindings
    <3>2. [manager.svc EXCEPT !.dir = s] \in Managers /\ [dir |-> s, task |-> s] \in Managers
      BY <3>1, <2>2 DEF Managers, Dirs
    <3>3. (manager.shared /\ ~(engine.state \in SafeToSwitch)) \in BOOLEAN
      BY Zenon
    <3> QED
      BY <2>1, <3>1, <3>2, <3>3 DEF SwitchContainer, Bindings
  <2> DEFINE plan == IF row[s] # Nothing THEN row[s] ELSE file[s]
  <2>4. plan \in Texts
    BY <2>2, <1>1
  <2>5. engine' \in Engines /\ row' \in [Sessions -> Texts] /\ PromptKnown'
    <3>1. CASE engine.state \in SafeToSwitch
      <4>1. engine' = [Rest(engine) EXCEPT !.runbook = plan, !.state = IF plan = Nothing THEN "IDLE" ELSE "READY"]
            /\ row' = At(row, s, plan)
        BY <3>1, <2>1 DEF SwitchEngine
      <4>2. Rest(engine) \in Engines
        BY <1>1, <1>4, EngineFields DEF Rest
      <4>3. engine' \in Engines
        BY <4>1, <4>2, <2>4, <1>24, EngineFields
      <4>4. engine'.state \in {"IDLE", "READY"}
        BY <4>1, <4>2 DEF Engines
      <4> QED
        BY <4>1, <4>3, <4>4, <2>4, <1>1, AtType DEF PromptKnown
    <3>2. CASE UNCHANGED <<engine, row>>
      BY <3>2, <1>1, <1>3
    <3> QED
      BY <3>1, <3>2, <2>1 DEF SwitchEngine
  <2> QED
    BY <2>1, <2>2, <2>3, <2>5, <1>1, <1>2 DEF Dirs
<1>40. CASE DeleteSession
  <2>1. PICK s \in Others : /\ Erased(s)
                            /\ UNCHANGED <<mode, engine, flow, manager, current, planner, jobs, told, shown>>
    BY <1>40 DEF DeleteSession
  <2>2. row' \in [Sessions -> Texts] /\ file' \in [Sessions -> Texts]
    BY <2>1, <1>1, <1>4, AtType DEF Erased
  <2>3. table' \in [Sessions -> {"new", "listed", "deleted"}]
    BY <2>1, <1>1 DEF Erased
  <2> QED
    BY <2>1, <2>2, <2>3, <1>1, <1>2, <1>3
<1>41. CASE UNCHANGED planningVars
  BY <1>41, <1>1, <1>2, <1>3 DEF planningVars, sessionVars
<1> QED
  BY <1>8, <1>9, <1>10, <1>11, <1>12, <1>13, <1>14, <1>16, <1>17, <1>18, <1>19, <1>20, <1>26, <1>27, <1>28, <1>29, <1>30, <1>31,
     <1>32, <1>33, <1>34, <1>36, <1>37, <1>38, <1>39, <1>40, <1>41 DEF PlanningNext, JobStep, Command
-----------------------------------------------------------------------------
(* The plan shown                                                          *)

\* With a patient user one planner job at most is alive.
OneJob == \A i, j \in Jobs : Live(i) /\ Live(j) => i = j

\* After a timeout the job that is left runs, and its timer has fired.
LateIsExpired == planner.timedOut => \A j \in Jobs : Live(j) => jobs[j].stage = "running" /\ jobs[j].expired

\* The plan under review is the one shown, and nothing is left that could generate another:
\* no reading again, and no job but one whose result is dropped.
ReviewIsShown == engine.state = "PLAN_REVIEW" =>
  /\ engine.draft = shown
  /\ ~planner.auto /\ \A j \in Jobs : Live(j) => planner.timedOut

\* While an approval is under way the planner is quiet, and what is saved, or read back
\* from the file, is what was shown.
ApprovedIsShown == flow.approved =>
  /\ flow.step # "none" /\ ~planner.auto /\ \A j \in Jobs : ~Live(j)
  /\ flow.step = "save" => engine.state = "PLAN_REVIEW" /\ flow.plan = shown
  /\ flow.step = "load" => engine.state = "PARSING" /\ OnDisk(manager.engine.dir) \in {Nothing, shown}

\* The invariant behind ShownPlanRuns.
PatientInv == mode.patient =>
  /\ OneJob /\ LateIsExpired /\ ReviewIsShown /\ ApprovedIsShown
  /\ planner.auto => planner.timedOut
  /\ flow.step = "save" => flow.approved

\* What the table of transitions says of the events that matter to a review.
LEMMA EventsOfReview ==
  ASSUME NEW s \in EngineStates
  PROVE  /\ Fire(s, "ABORT") # "PLAN_REVIEW" /\ Fire(s, "RESET") = "IDLE"
         /\ s # "PLAN_REVIEW" => \A e : Fire(s, e) = "PLAN_REVIEW" => s = "PLANNING"
         /\ Accepts(s, "PLAN_REQUEST") => s = "IDLE" /\ Fire(s, "PLAN_REQUEST") = "PLANNING"
         /\ Accepts(s, "PLAN_REJECTED") => s \in {"PLANNING", "PLAN_REVIEW"} /\ Fire(s, "PLAN_REJECTED") = "PLANNING"
         /\ Accepts(s, "START") => s \notin {"PLAN_REVIEW", "PARSING"}
         /\ Accepts(s, "PLAN_APPROVED") => s = "PLAN_REVIEW"
         /\ Accepts("PLANNING", "PLAN_GENERATED")
<1>1. Accepts("PLANNING", "PLAN_GENERATED")
  BY DEF Accepts, Transitions
<1>2. /\ Fire(s, "ABORT") # "PLAN_REVIEW" /\ Fire(s, "RESET") = "IDLE"
      /\ Accepts(s, "PLAN_REQUEST") => s = "IDLE" /\ Fire(s, "PLAN_REQUEST") = "PLANNING"
      /\ Accepts(s, "PLAN_REJECTED") => s \in {"PLANNING", "PLAN_REVIEW"} /\ Fire(s, "PLAN_REJECTED") = "PLANNING"
      /\ Accepts(s, "START") => s \notin {"PLAN_REVIEW", "PARSING"}
      /\ Accepts(s, "PLAN_APPROVED") => s = "PLAN_REVIEW"
  BY DEF Fire, Accepts, Transitions, EngineStates
<1>3. s # "PLAN_REVIEW" => \A e : Fire(s, e) = "PLAN_REVIEW" => s = "PLANNING"
  BY FireInStates
<1> QED
  BY <1>1, <1>2, <1>3

\* A plan that opens a review is shown.
LEMMA GeneratedShows ==
  ASSUME PlanningInv, NEW p, Generated(p), engine.state # "PLAN_REVIEW", engine'.state = "PLAN_REVIEW"
  PROVE  engine'.draft = shown'
<1>1. engine \in Engines
  BY DEF PlanningInv, PlanningTypeOK, Engines
<1>2. engine'.state = Fire(engine.state, "PLAN_GENERATED") /\ engine'.draft = p
  BY <1>1 DEF Generated, Engines
<1>3. engine.state = "PLANNING"
  BY <1>1, <1>2, EventsOfReview DEF Engines
<1>4. Accepts(engine.state, "PLAN_GENERATED")
  BY <1>1, <1>3, EventsOfReview DEF Engines
<1> QED
  BY <1>2, <1>4 DEF Generated

\* After an abort nothing is under review.
LEMMA AbortLeavesReview ==
  ASSUME PlanningInv, AbortEngine
  PROVE  engine'.state # "PLAN_REVIEW"
<1>1. engine \in Engines
  BY DEF PlanningInv, PlanningTypeOK, Engines
<1>2. engine'.state = Fire(engine.state, "ABORT") /\ engine.state \in EngineStates
  BY <1>1 DEF AbortEngine, Engines
<1> QED
  BY <1>2, EventsOfReview

\* How the user behaves does not change.
LEMMA ModeStays == [PlanningNext]_planningVars => mode' = mode
<1> SUFFICES ASSUME [PlanningNext]_planningVars PROVE mode' = mode
  OBVIOUS
<1>1. ASSUME NEW j \in Jobs, JobStep(j) \/ JobWrites(j) \/ JobTalks(j) \/ Timeout(j) PROVE mode' = mode
  BY <1>1 DEF JobStep, JobWrites, JobTalks, Timeout, BuildPrompt, JobStarts, JobFails, JobExits, ReadPlan, ReadNothing,
              ParseFromStdout, RetryPlan, GiveUp
<1>2. CASE AutoRetryParse \/ ApproveSaved \/ LoadedFromFile \/ RetryParse
  BY <1>2 DEF AutoRetryParse, ApproveSaved, LoadedFromFile, RetryParse, Reparse
<1>3. CASE Command
  BY <1>2, <1>3 DEF Command, PlanRequest, PlanRequestRefused, PlanRejected, Approve, LoadRunbook, Start, Finish, Abort,
                    NewSession, CmdReset, Reset, LoadSession, DeleteSession
<1> QED
  BY <1>1, <1>2, <1>3 DEF PlanningNext, planningVars

\* Each step keeps the invariant: a job's by the lateness of its timer, a command because
\* it waits for the planner, and the approval's own steps.
LEMMA PatientStep ==
  ASSUME PlanningInv, PatientInv, [PlanningNext]_planningVars
  PROVE  PatientInv'
<1> SUFFICES ASSUME mode'.patient PROVE PatientInv'
  BY DEF PatientInv
<1>1. /\ engine \in Engines /\ flow \in Flows /\ planner \in Planners /\ jobs \in [Jobs -> JobStates] /\ manager \in Bindings
      /\ row \in [Sessions -> Texts] /\ file \in [Sessions -> Texts]
  BY DEF PlanningInv, PlanningTypeOK, Engines, Flows, Bindings, Planners, JobStates
<1>2. mode' = mode
  BY ModeStays
<1>3. /\ mode.patient /\ OneJob /\ LateIsExpired /\ ReviewIsShown /\ ApprovedIsShown /\ (planner.auto => planner.timedOut)
      /\ (flow.step = "save" => flow.approved)
  BY <1>2 DEF PatientInv
<1>4. ASSUME OneJob', LateIsExpired', ReviewIsShown', ApprovedIsShown', planner'.auto => planner'.timedOut,
             flow' = flow \/ flow'.approved \/ flow'.step # "save"
      PROVE  PatientInv'
  BY <1>3, <1>4 DEF PatientInv
<1>5. NoJob.stage = "none" /\ NoFlow.approved = FALSE /\ NoFlow.step = "none"
  BY DEF NoJob, NoFlow
<1>6. engine.state \in EngineStates
  BY <1>1 DEF Engines
\* Within the way of a job, and outside of it.
<1>7. ASSUME NEW j \in Jobs, Live(j) PROVE ~flow.approved
  BY <1>7, <1>3 DEF ApprovedIsShown
<1>8. ASSUME flow' = flow, ~flow.approved PROVE ApprovedIsShown'
  BY <1>8 DEF ApprovedIsShown
\* A job goes on: the others are as they were.
<1>9. ASSUME NEW j \in Jobs, Live(j),
             \A i \in Jobs : i # j => jobs'[i] = jobs[i]
      PROVE  /\ OneJob'
             /\ \A i \in Jobs : i # j => ~Live(i) /\ ~Live(i)'
  BY <1>9, <1>3 DEF OneJob, Live
<1>10. ASSUME NEW j \in Jobs, BuildPrompt(j) PROVE PatientInv'
  <2>1. Live(j) /\ jobs[j].stage = "scanning" /\ jobs' = [jobs EXCEPT ![j].stage = "starting"]
        /\ UNCHANGED <<engine, flow, planner, shown>>
    BY <1>10 DEF BuildPrompt, Live
  <2>2. ~planner.timedOut
    BY <2>1, <1>3 DEF LateIsExpired
  <2>3. \A i \in Jobs : i # j => jobs'[i] = jobs[i]
    BY <2>1, <1>1
  <2>4. engine.state # "PLAN_REVIEW"
    BY <2>1, <2>2, <1>3 DEF ReviewIsShown
  <2> QED
    BY <2>1, <2>2, <2>3, <2>4, <1>3, <1>4, <1>7, <1>8, <1>9 DEF LateIsExpired, ReviewIsShown
<1>11. ASSUME NEW j \in Jobs, JobStarts(j) PROVE PatientInv'
  <2>1. Live(j) /\ jobs[j].stage = "starting" /\ jobs' = [jobs EXCEPT ![j].stage = "running", ![j].dir = current]
        /\ UNCHANGED <<engine, flow, shown>> /\ planner' = [planner EXCEPT !.active = j, !.response = jobs[j].answer]
    BY <1>11 DEF JobStarts, Live
  <2>2. ~planner.timedOut /\ planner'.timedOut = planner.timedOut /\ planner'.auto = planner.auto
    BY <2>1, <1>1, <1>3 DEF LateIsExpired, Planners
  <2>3. \A i \in Jobs : i # j => jobs'[i] = jobs[i]
    BY <2>1, <1>1
  <2>4. engine.state # "PLAN_REVIEW"
    BY <2>1, <2>2, <1>3 DEF ReviewIsShown
  <2> QED
    BY <2>1, <2>2, <2>3, <2>4, <1>3, <1>4, <1>7, <1>8, <1>9 DEF LateIsExpired, ReviewIsShown
\* A job is over, and with it all jobs.
<1>12. ASSUME NEW j \in Jobs, Live(j), jobs' = Ended(j) PROVE OneJob' /\ LateIsExpired' /\ \A i \in Jobs : ~Live(i)'
  <2>1. jobs'[j] = NoJob /\ \A i \in Jobs : i # j => jobs'[i] = jobs[i]
    BY <1>1, <1>12 DEF Ended
  <2>2. \A i \in Jobs : ~Live(i)'
    BY <2>1, <1>12, <1>3, <1>5 DEF OneJob, Live
  <2> QED
    BY <2>2 DEF OneJob, LateIsExpired
<1>13. ASSUME NEW j \in Jobs, JobFails(j) PROVE PatientInv'
  <2>1. Live(j) /\ jobs' = Ended(j) /\ flow' = flow /\ planner' = [planner EXCEPT !.active = 0] /\ AbortEngine
    BY <1>13 DEF JobFails, Live, Ended, Failed
  <2>2. planner'.timedOut = planner.timedOut /\ planner'.auto = planner.auto
    BY <2>1, <1>1 DEF Planners
  <2>3. engine'.state # "PLAN_REVIEW"
    BY <2>1, AbortLeavesReview
  <2> QED
    BY <2>1, <2>2, <2>3, <1>3, <1>4, <1>7, <1>8, <1>12 DEF ReviewIsShown
<1>14. ASSUME NEW j \in Jobs, JobWrites(j) PROVE PatientInv'
  <2>1. Live(j) /\ UNCHANGED <<jobs, engine, flow, planner, shown>>
    BY <1>14 DEF JobWrites, Live
  <2> QED
    BY <2>1, <1>3, <1>4, <1>7, <1>8 DEF OneJob, LateIsExpired, ReviewIsShown, Live
<1>15. ASSUME NEW j \in Jobs, JobTalks(j) PROVE PatientInv'
  <2>1. Live(j) /\ UNCHANGED <<jobs, engine, flow, shown>>
    BY <1>15 DEF JobTalks, Live
  <2>2. planner'.timedOut = planner.timedOut /\ planner'.auto = planner.auto
    BY <1>15, <1>1 DEF JobTalks, Planners
  <2> QED
    BY <2>1, <2>2, <1>3, <1>4, <1>7, <1>8 DEF OneJob, LateIsExpired, ReviewIsShown, Live
<1>16. ASSUME NEW j \in Jobs, JobExits(j) PROVE PatientInv'
  <2>1. Live(j) /\ UNCHANGED <<engine, flow, shown>>
    BY <1>16 DEF JobExits, Live
  <2>2. planner'.timedOut = planner.timedOut /\ planner'.auto = planner.auto
    BY <1>16, <1>1 DEF JobExits, Planners
  <2>3. \A i \in Jobs : i # j => jobs'[i] = jobs[i]
    BY <1>16, <1>1 DEF JobExits
  <2>4. planner.timedOut => jobs' = Ended(j)
    BY <1>16 DEF JobExits, Ended
  <2>5. LateIsExpired'
    BY <2>1, <2>2, <2>4, <1>12 DEF LateIsExpired
  <2>6. ReviewIsShown'
    <3>1. engine'.state = "PLAN_REVIEW" => planner.timedOut
      BY <2>1, <1>3 DEF ReviewIsShown
    <3> QED
      BY <3>1, <2>1, <2>2, <2>4, <1>3, <1>12 DEF ReviewIsShown
  <2> QED
    BY <2>1, <2>2, <2>3, <2>5, <2>6, <1>3, <1>4, <1>7, <1>8, <1>9
\* A plan comes from a job or from a reading again, and only while no plan is under review.
<1>17. ASSUME NEW p, Generated(p), engine.state # "PLAN_REVIEW", ~planner'.auto,
             \A i \in Jobs : Live(i)' => planner'.timedOut
      PROVE  ReviewIsShown'
  BY <1>17, GeneratedShows DEF ReviewIsShown
\* A job that has ended and is read was in time.
<1>18. ASSUME NEW j \in Jobs, jobs[j].stage = "reading"
      PROVE  Live(j) /\ ~planner.timedOut /\ ~planner.auto /\ engine.state # "PLAN_REVIEW"
  BY <1>18, <1>3 DEF Live, LateIsExpired, ReviewIsShown
<1>19. ASSUME NEW j \in Jobs, ReadPlan(j) \/ ParseFromStdout(j) PROVE PatientInv'
  <2>1. /\ jobs[j].stage = "reading" /\ jobs' = Ended(j) /\ flow' = flow
        /\ planner' = [planner EXCEPT !.retries = 0] /\ \E p : Generated(p)
    BY <1>19 DEF ReadPlan, ParseFromStdout
  <2>2. planner'.timedOut = planner.timedOut /\ planner'.auto = planner.auto
    BY <2>1, <1>1 DEF Planners
  <2>3. ReviewIsShown'
    BY <2>1, <2>2, <1>12, <1>17, <1>18
  <2> QED
    BY <2>1, <2>2, <2>3, <1>3, <1>4, <1>7, <1>8, <1>12, <1>18
<1>20. ASSUME NEW j \in Jobs, ReadNothing(j) PROVE PatientInv'
  <2>1. /\ jobs[j].stage = "reading" /\ jobs' = Ended(j) /\ flow' = flow /\ planner' = planner
        /\ AbortEngine \/ UNCHANGED <<engine, shown>>
    BY <1>20 DEF ReadNothing, TimedOut
  <2>2. engine'.state # "PLAN_REVIEW"
    BY <2>1, <1>18, AbortLeavesReview
  <2> QED
    BY <2>1, <2>2, <1>3, <1>4, <1>7, <1>8, <1>12, <1>18 DEF ReviewIsShown
<1>21. ASSUME NEW j \in Jobs, GiveUp(j) PROVE PatientInv'
  <2>1. /\ jobs[j].stage = "reading" /\ jobs' = Ended(j) /\ flow' = flow
        /\ planner' = [planner EXCEPT !.retries = MaxRetries + 1] /\ AbortEngine
    BY <1>21 DEF GiveUp, Unparsed, Failed
  <2>2. engine'.state # "PLAN_REVIEW"
    BY <2>1, AbortLeavesReview
  <2>3. planner'.timedOut = planner.timedOut /\ planner'.auto = planner.auto
    BY <2>1, <1>1 DEF Planners
  <2> QED
    BY <2>1, <2>2, <2>3, <1>3, <1>4, <1>7, <1>8, <1>12, <1>18 DEF ReviewIsShown
\* A job begins where there is none.
<1>22. ASSUME NEW all \in [Jobs -> JobStates], \A i \in Jobs : all[i].stage = "none",
             NEW said, NEW answer, NEW retries, BeginPlan(all, said, answer, retries), ~planner.auto
      PROVE  OneJob' /\ LateIsExpired' /\ ~planner'.auto /\ ~planner'.timedOut
  <2>1. PICK j \in Jobs :
          jobs' = [i \in Jobs |->
                  IF i = j THEN [NoJob EXCEPT !.stage = "scanning", !.answer = answer]
                  ELSE IF i = planner.active THEN [all[i] EXCEPT !.killed = TRUE] ELSE all[i]]
    BY <1>22 DEF BeginPlan
  <2>2. \A i \in Jobs : all[i] \in JobStates /\ [all[i] EXCEPT !.killed = TRUE].stage = all[i].stage
    BY <1>22 DEF JobStates
  <2>3. \A i \in Jobs : i # j => ~Live(i)'
    BY <2>1, <2>2, <1>22 DEF Live
  <2>4. planner' = [planner EXCEPT !.active = 0, !.out = Nothing, !.timedOut = FALSE,
                     !.response = Nothing, !.prompt = said, !.retries = retries]
    BY <1>22 DEF BeginPlan
  <2>5. ~planner'.auto /\ ~planner'.timedOut
    BY <2>4, <1>1, <1>22 DEF Planners
  <2> QED
    BY <2>3, <2>5 DEF OneJob, LateIsExpired
<1>23. ASSUME NEW j \in Jobs, RetryPlan(j) PROVE PatientInv'
  <2>1. /\ jobs[j].stage = "reading" /\ BeginPlan(Ended(j), planner.prompt, planner.prompt, planner.retries + 1)
        /\ UNCHANGED <<engine, flow, shown>>
    BY <1>23 DEF RetryPlan, Unparsed
  <2>2. Live(j) /\ ~planner.timedOut /\ ~planner.auto /\ engine.state # "PLAN_REVIEW"
    BY <2>1, <1>18
  <2>3. Ended(j) \in [Jobs -> JobStates] /\ \A i \in Jobs : Ended(j)[i].stage = "none"
    <3>1. NoJob \in JobStates
      BY TextTypes DEF NoJob, JobStates, Dirs
    <3>2. Ended(j) = [i \in Jobs |-> IF i = j THEN NoJob ELSE jobs[i]]
      BY <1>1 DEF Ended
    <3> QED
      BY <3>1, <3>2, <2>2, <1>1, <1>3, <1>5 DEF OneJob, Live
  <2>4. OneJob' /\ LateIsExpired' /\ ~planner'.auto /\ ~planner'.timedOut
    BY <2>1, <2>2, <2>3, <1>22
  <2> QED
    BY <2>1, <2>2, <2>4, <1>4, <1>7, <1>8 DEF ReviewIsShown
<1>24. ASSUME NEW j \in Jobs, Timeout(j) PROVE PatientInv'
  <2>1. /\ Live(j) /\ jobs[j].stage = "running" /\ ~jobs[j].expired /\ flow' = flow
        /\ AbortEngine \/ UNCHANGED <<engine, shown>>
    BY <1>24 DEF Timeout, Live, TimedOut
  <2>2. ~planner.timedOut /\ engine.state # "PLAN_REVIEW"
    BY <2>1, <1>3 DEF LateIsExpired, ReviewIsShown
  <2>3. \A i \in Jobs : jobs'[i].stage = jobs[i].stage
    BY <1>1, <1>24 DEF Timeout, JobStates
  <2>4. jobs'[j].expired
    BY <1>1, <1>24 DEF Timeout, JobStates
  <2>5. planner'.timedOut
    BY <1>1, <1>24 DEF Timeout, Planners
  <2>6. OneJob' /\ LateIsExpired'
    BY <2>1, <2>3, <2>4, <1>3 DEF OneJob, LateIsExpired, Live
  <2>7. engine'.state # "PLAN_REVIEW"
    BY <2>1, <2>2, AbortLeavesReview
  <2> QED
    BY <2>1, <2>5, <2>6, <2>7, <1>4, <1>7, <1>8 DEF ReviewIsShown
<1>25. ASSUME NEW auto, Reparse(auto)
      PROVE  /\ (\E p : Generated(p)) \/ AbortEngine
             /\ UNCHANGED <<flow, jobs>>
             /\ planner'.timedOut = planner.timedOut /\ planner'.auto = auto
  <2>1. /\ UNCHANGED <<flow, jobs>>
        /\ \/ planner' = [planner EXCEPT !.retries = 0, !.cached = Nothing, !.response = Nothing, !.auto = auto]
           \/ planner' = [planner EXCEPT !.auto = auto]
    BY <1>25 DEF Reparse
  <2>2. (\E p : Generated(p)) \/ AbortEngine
    BY <1>25 DEF Reparse, Failed
  <2> QED
    BY <2>1, <2>2, <1>1 DEF Planners
<1>26. CASE AutoRetryParse
  <2>1. planner.auto /\ Reparse(FALSE) /\ planner.timedOut /\ ~flow.approved /\ engine.state # "PLAN_REVIEW"
    BY <1>26, <1>3 DEF AutoRetryParse, ApprovedIsShown, ReviewIsShown
  <2>2. /\ (\E p : Generated(p)) \/ AbortEngine
        /\ UNCHANGED <<flow, jobs>> /\ planner'.timedOut = planner.timedOut /\ planner'.auto = FALSE
    BY <2>1, <1>25
  <2>3. ReviewIsShown'
    BY <2>1, <2>2, <1>17, AbortLeavesReview DEF ReviewIsShown
  <2> QED
    BY <2>1, <2>2, <2>3, <1>8, <1>3, <1>4 DEF OneJob, LateIsExpired, Live
\* A patient user's commands find no planner at work.
<1>27. ASSUME Allowed PROVE Quiet /\ ~flow.approved /\ ~planner.auto /\ \A j \in Jobs : ~Live(j)
  BY <1>27, <1>3, <1>5 DEF Allowed, Quiet
<1>28. ASSUME \A j \in Jobs : ~Live(j), jobs' = jobs PROVE OneJob' /\ LateIsExpired' /\ \A j \in Jobs : ~Live(j)'
  BY <1>28 DEF OneJob, LateIsExpired, Live
<1>29. CASE RetryParse
  <2>1. Allowed /\ engine.state # "PLAN_REVIEW" /\ Reparse(planner.auto)
    BY <1>29 DEF RetryParse
  <2>2. /\ (\E p : Generated(p)) \/ AbortEngine
        /\ UNCHANGED <<flow, jobs>> /\ planner'.timedOut = planner.timedOut /\ planner'.auto = planner.auto
    BY <2>1, <1>25
  <2>3. ~planner'.auto /\ ~flow.approved /\ OneJob' /\ LateIsExpired' /\ \A j \in Jobs : ~Live(j)'
    BY <2>1, <2>2, <1>27, <1>28
  <2>4. ReviewIsShown'
    BY <2>1, <2>2, <2>3, <1>17, AbortLeavesReview DEF ReviewIsShown
  <2> QED
    BY <2>2, <2>3, <2>4, <1>8, <1>4
<1>30. CASE PlanRequestRefused
  <2>1. /\ Allowed /\ Offered({"ERROR_PAUSED"}) /\ UNCHANGED <<flow, planner, jobs, shown>>
        /\ engine' = [engine EXCEPT !.draft = Nothing, !.round = @ + 1,
                              !.prompt = Plan(current, engine.round + 1)]
    BY <1>30 DEF PlanRequestRefused
  <2>2. engine'.state = "ERROR_PAUSED"
    BY <2>1, <1>1, <1>3 DEF Offered, Engines
  <2> QED
    BY <2>1, <2>2, <1>8, <1>3, <1>4, <1>27, <1>28 DEF ReviewIsShown
<1>31. CASE PlanRequest
  <2>1. /\ Allowed /\ Accepts(engine.state, "PLAN_REQUEST") /\ flow' = flow
        /\ BeginPlan(jobs, Plan(current', engine.round + 1), Plan(current', engine.round + 1), planner.retries)
    BY <1>31 DEF PlanRequest
  <2>2. engine'.state = "PLANNING"
    <3>1. engine'.state = Fire(engine.state, "PLAN_REQUEST")
      BY <1>31, <1>1 DEF PlanRequest, Engines
    <3> QED
      BY <3>1, <2>1, <1>6, EventsOfReview
  <2>3. OneJob' /\ LateIsExpired' /\ ~planner'.auto
    BY <2>1, <1>1, <1>22, <1>27 DEF Live
  <2> QED
    BY <2>1, <2>2, <2>3, <1>8, <1>4, <1>27 DEF ReviewIsShown
<1>32. CASE PlanRejected
  <2>1. /\ Allowed /\ Accepts(engine.state, "PLAN_REJECTED") /\ flow' = flow
        /\ BeginPlan(jobs, engine.prompt, Plan(engine.prompt.home, engine.round + 1), planner.retries)
    BY <1>32 DEF PlanRejected
  <2>2. engine'.state = "PLANNING"
    <3>1. engine'.state = Fire(engine.state, "PLAN_REJECTED")
      BY <1>32, <1>1 DEF PlanRejected, Engines
    <3> QED
      BY <3>1, <2>1, <1>6, EventsOfReview
  <2>3. OneJob' /\ LateIsExpired' /\ ~planner'.auto
    BY <2>1, <1>1, <1>22, <1>27 DEF Live
  <2> QED
    BY <2>1, <2>2, <2>3, <1>8, <1>4, <1>27 DEF ReviewIsShown
<1>33. CASE Approve
  <2>1. /\ Allowed /\ engine.state = "PLAN_REVIEW" /\ UNCHANGED <<engine, planner, jobs, shown>>
        /\ flow' = [step |-> "save", plan |-> engine.draft, approved |-> TRUE]
    BY <1>33, <1>3 DEF Approve, Offered
  <2>2. engine.draft = shown /\ ~planner.auto /\ OneJob' /\ LateIsExpired' /\ \A j \in Jobs : ~Live(j)'
    BY <2>1, <1>3, <1>27, <1>28 DEF ReviewIsShown
  <2>3. ApprovedIsShown'
    BY <2>1, <2>2 DEF ApprovedIsShown
  <2> QED
    BY <2>1, <2>2, <2>3, <1>4 DEF ReviewIsShown
<1>34. CASE ApproveSaved
  <2>1. /\ flow.step = "save" /\ Save(manager.engine, flow.plan) /\ UNCHANGED <<sessionVars, planner, jobs, shown>>
    BY <1>34 DEF ApproveSaved
  <2>2. OneJob' /\ LateIsExpired' /\ (planner'.auto => planner'.timedOut)
    BY <2>1, <1>3 DEF OneJob, LateIsExpired, Live
  <2> DEFINE task == manager.engine.task
  <2>3. CASE engine' = engine /\ flow' = NoFlow
    BY <2>1, <2>2, <2>3, <1>3, <1>4, <1>5 DEF ReviewIsShown, ApprovedIsShown, Live
  <2>4. CASE Accepts(engine.state, "PLAN_APPROVED")
             /\ Load([engine EXCEPT !.state = "PARSING"], At(row, task, flow.plan), TRUE)
    <3>1. engine'.state \in {"PARSING", "READY"}
      <4>1. Fire("PARSING", "PARSE_SUCCESS") = "READY"
        BY DEF Fire, Accepts, Transitions
      <4> QED
        BY <4>1, <2>4, <1>1 DEF Load, Engines
    <3>2. CASE flow' = NoFlow
      BY <3>1, <3>2, <2>2, <1>4, <1>5 DEF ReviewIsShown, ApprovedIsShown
    <3>3. CASE /\ engine' = [engine EXCEPT !.state = "PARSING"]
               /\ flow' = [step |-> "load", plan |-> Nothing, approved |-> TRUE]
               /\ ~(task \in Sessions /\ At(row, task, flow.plan)[task] # Nothing)
      <4>1. engine.state = "PLAN_REVIEW" /\ flow.plan = shown /\ ~planner.auto /\ \A j \in Jobs : ~Live(j)
        BY <2>1, <1>3 DEF ApprovedIsShown
      <4>2. OnDisk(manager.engine.dir)' \in {Nothing, shown'}
        BY <2>1, <4>1, <1>1 DEF OnDisk, Save, At, sessionVars
      <4>3. engine'.state = "PARSING"
        BY <3>3, <1>1 DEF Engines
      <4>4. ApprovedIsShown'
        BY <2>1, <3>3, <4>1, <4>2, <4>3 DEF ApprovedIsShown, Live
      <4> QED
        BY <2>2, <3>3, <4>3, <4>4, <1>4 DEF ReviewIsShown
    <3> QED
      BY <2>4, <3>2, <3>3 DEF Load
  <2> QED
    BY <2>3, <2>4, <1>34 DEF ApproveSaved
\* A state that is changed outside of the planner's events.
<1>35. ASSUME engine'.state # "PLAN_REVIEW" \/ (engine'.state = engine.state /\ engine'.draft = engine.draft),
             planner' = planner, jobs' = jobs, shown' = shown
      PROVE  OneJob' /\ LateIsExpired' /\ ReviewIsShown'
  BY <1>35, <1>3 DEF OneJob, LateIsExpired, ReviewIsShown, Live
<1>36. CASE LoadedFromFile
  <2>1. flow' = NoFlow /\ UNCHANGED <<planner, jobs, shown>>
    BY <1>36 DEF LoadedFromFile
  <2>2. PICK e \in {"PARSE_FAILURE", "PARSE_SUCCESS"} : engine'.state = Fire(engine.state, e) /\ engine'.draft = engine.draft
    BY <1>1, <1>36 DEF LoadedFromFile, Engines
  <2>3. Fire(engine.state, e) # "PLAN_REVIEW" \/ Fire(engine.state, e) = engine.state
    BY <1>6 DEF Fire, Accepts, Transitions, EngineStates
  <2> QED
    BY <2>1, <2>2, <2>3, <1>3, <1>4, <1>5, <1>35 DEF ApprovedIsShown
<1>37. CASE LoadRunbook
  <2>1. Load([engine EXCEPT !.state = "PARSING"], row, FALSE) /\ UNCHANGED <<planner, jobs, shown>>
    BY <1>37 DEF LoadRunbook
  <2>2. engine'.state \in {"PARSING", "READY"}
    <3>1. Fire("PARSING", "PARSE_SUCCESS") = "READY"
      BY DEF Fire, Accepts, Transitions
    <3> QED
      BY <2>1, <3>1, <1>1 DEF Load, Engines
  <2>3. ~flow'.approved /\ flow'.step # "save"
    BY <2>1, <1>5 DEF Load
  <2>4. OneJob' /\ LateIsExpired' /\ ReviewIsShown'
    BY <2>1, <2>2, <1>35
  <2>5. ApprovedIsShown'
    BY <2>3 DEF ApprovedIsShown
  <2> QED
    BY <2>1, <2>3, <2>4, <2>5, <1>3, <1>4
<1>38. CASE Start \/ Finish
  <2>1. UNCHANGED <<flow, planner, jobs, shown>>
    BY <1>38 DEF Start, Finish
  <2>2. engine'.state \in {"EXECUTING_WORKER", "COMPLETED", "ERROR_PAUSED"}
    BY <1>1, <1>38 DEF Start, Finish, Engines
  <2>3. engine.state \notin {"PLAN_REVIEW", "PARSING"}
    BY <1>6, <1>38, EventsOfReview DEF Start, Finish
  <2>4. flow.step \in {"none", "save", "load"}
    BY <1>1 DEF Flows
  <2>5. ~flow.approved
    BY <2>3, <2>4, <1>3 DEF ApprovedIsShown
  <2>6. OneJob' /\ LateIsExpired' /\ ReviewIsShown'
    BY <2>1, <2>2, <1>35
  <2> QED
    BY <2>1, <2>5, <2>6, <1>8, <1>3, <1>4
<1>39. CASE Abort
  <2>1. Allowed /\ AbortEngine /\ UNCHANGED <<flow, planner, jobs>> /\ shown' = shown
    BY <1>39 DEF Abort, AbortEngine
  <2>2. OneJob' /\ LateIsExpired' /\ ReviewIsShown'
    BY <2>1, <1>35, AbortLeavesReview
  <2> QED
    BY <2>1, <2>2, <1>8, <1>3, <1>4, <1>27
<1>40. CASE NewSession \/ CmdReset
  <2>1. Allowed /\ UNCHANGED <<flow, planner, jobs, shown>>
        /\ engine' = Rest([engine EXCEPT !.state = Fire(@, "RESET")])
    BY <1>40 DEF NewSession, CmdReset, Reset
  <2>2. engine'.state = "IDLE"
    BY <2>1, <1>1, <1>6, EventsOfReview DEF Rest, Engines
  <2>3. OneJob' /\ LateIsExpired' /\ ReviewIsShown'
    BY <2>1, <2>2, <1>35
  <2> QED
    BY <2>1, <2>3, <1>8, <1>3, <1>4, <1>27
<1>41. CASE LoadSession
  <2>1. PICK s \in Others : Allowed /\ SwitchEngine(s) /\ UNCHANGED <<flow, planner, jobs, shown>>
    BY <1>41 DEF LoadSession
  <2>2. engine'.state \in {"IDLE", "READY"} \/ engine' = engine
    BY <2>1, <1>1 DEF SwitchEngine, Rest, Engines
  <2>3. OneJob' /\ LateIsExpired' /\ ReviewIsShown'
    BY <2>1, <2>2, <1>35
  <2> QED
    BY <2>1, <2>3, <1>8, <1>3, <1>4, <1>27
<1>42. CASE DeleteSession
  <2>1. Allowed /\ UNCHANGED <<engine, flow, planner, jobs, shown>>
    BY <1>42 DEF DeleteSession
  <2> QED
    BY <2>1, <1>8, <1>3, <1>4, <1>27, <1>35
<1>43. CASE UNCHANGED planningVars
  <2>1. UNCHANGED <<engine, flow, manager, file, planner, jobs, shown>>
    BY <1>43 DEF planningVars, sessionVars
  <2>2. ApprovedIsShown'
    BY <2>1, <1>3 DEF ApprovedIsShown, OnDisk, Live
  <2> QED
    BY <2>1, <2>2, <1>3, <1>4, <1>35
<1> QED
  BY <1>10, <1>11, <1>13, <1>14, <1>15, <1>16, <1>19, <1>20, <1>21, <1>23, <1>24, <1>26, <1>29, <1>30, <1>31, <1>32, <1>33, <1>34, <1>36,
     <1>37, <1>38, <1>39, <1>40, <1>41, <1>42, <1>43 DEF PlanningNext, JobStep, Command

\* The invariant holds at the start.
LEMMA PatientInit == PlanningInit => PatientInv
<1> SUFFICES ASSUME PlanningInit PROVE PatientInv
  OBVIOUS
<1>1. \A j \in Jobs : ~Live(j)
  BY DEF PlanningInit, NoJob, Live
<1>2. engine.state = "IDLE" /\ ~planner.auto /\ ~planner.timedOut /\ ~flow.approved /\ flow.step = "none"
  BY DEF PlanningInit, NoFlow
<1> QED
  BY <1>1, <1>2 DEF PatientInv, OneJob, LateIsExpired, ReviewIsShown, ApprovedIsShown

\* The code behaviour: PlanningController, PlannerAgent and the session commands keep
\* their state in its types, whatever jobs, timeouts and switches follow each other.
THEOREM PlanningTypeCorrect == PlanningSpec => []PlanningTypeOK
<1>1. PlanningInv => PlanningTypeOK
  BY DEF PlanningInv
<1> QED
  BY <1>1, PlanningInitInv, PlanningTypeStep, PTL DEF PlanningSpec

\* Only the two steps of an approval lead to READY while one is under way.
LEMMA ReadyIsApproved ==
  ASSUME PlanningInv, PatientInv, [PlanningNext]_planningVars,
         mode.patient, flow.approved, engine.state # "READY", engine'.state = "READY"
  PROVE  engine'.runbook = shown
<1>1. engine \in Engines /\ flow \in Flows /\ manager \in Bindings /\ row \in [Sessions -> Texts] /\ engine.state \in EngineStates
  BY DEF PlanningInv, PlanningTypeOK, Engines, Flows, Bindings
<1>2. ApprovedIsShown /\ flow # NoFlow
  BY DEF PatientInv, NoFlow
<1>3. flow.step \in {"save", "load"} /\ ~planner.auto /\ (\A j \in Jobs : ~Live(j)) /\ engine.state \in {"PLAN_REVIEW", "PARSING"}
  BY <1>1, <1>2 DEF ApprovedIsShown, Flows
<1>4. engine' # engine
  OBVIOUS
<1>5. ~Allowed
  BY <1>2 DEF Allowed, Quiet
<1>6. ASSUME NEW j \in Jobs PROVE ~(JobStep(j) \/ JobWrites(j) \/ JobTalks(j) \/ Timeout(j))
  <2>1. jobs[j].stage = "none"
    BY <1>3 DEF Live
  <2> QED
    BY <2>1 DEF JobStep, JobWrites, JobTalks, Timeout, BuildPrompt, JobStarts, JobFails, JobExits, ReadPlan, ReadNothing,
                ParseFromStdout, RetryPlan, GiveUp, Unparsed
<1>7. ~AutoRetryParse
  BY <1>3 DEF AutoRetryParse
<1>8. ~Command
  <2>1. ~(PlanRequest \/ PlanRequestRefused \/ PlanRejected \/ Approve \/ RetryParse \/ Abort \/ NewSession \/ CmdReset
            \/ LoadSession \/ DeleteSession)
    BY <1>5 DEF PlanRequest, PlanRequestRefused, PlanRejected, Approve, RetryParse, Abort, NewSession, CmdReset, Reset,
                LoadSession, DeleteSession
  <2>2. ~LoadRunbook
    BY <1>2 DEF LoadRunbook
  <2>3. ~(Start \/ Finish)
    BY <1>1, <1>3, EventsOfReview DEF Start, Finish
  <2> QED
    BY <2>1, <2>2, <2>3 DEF Command
<1>9. CASE ApproveSaved
  <2> DEFINE task == manager.engine.task
             plan == IF task \in Sessions THEN At(row, task, flow.plan)[task] ELSE Nothing
  <2>1. flow.step = "save" /\ flow.plan = shown
    BY <1>2, <1>9 DEF ApproveSaved, ApprovedIsShown
  <2>2. Load([engine EXCEPT !.state = "PARSING"], At(row, task, flow.plan), TRUE)
    BY <1>4, <1>9 DEF ApproveSaved
  <2>3. plan # Nothing
    BY <2>2, <1>1 DEF Load, Engines
  <2>4. plan = flow.plan
    BY <2>3, <1>1 DEF At
  <2>5. engine' = [[engine EXCEPT !.state = "PARSING"] EXCEPT !.state = Fire(@, "PARSE_SUCCESS"), !.runbook = plan]
    BY <2>2, <2>3 DEF Load
  <2> QED
    BY <2>1, <2>4, <2>5, <1>1 DEF Engines
<1>10. CASE LoadedFromFile
  <2>1. engine.state = "PARSING" /\ OnDisk(manager.engine.dir) \in {Nothing, shown}
    BY <1>2, <1>10 DEF LoadedFromFile, ApprovedIsShown
  <2>2. Fire("PARSING", "PARSE_FAILURE") = "IDLE"
    BY DEF Fire, Accepts, Transitions
  <2>3. OnDisk(manager.engine.dir) # Nothing
    BY <2>1, <2>2, <1>1, <1>10 DEF LoadedFromFile, Engines
  <2> QED
    BY <2>1, <2>3, <1>1, <1>10 DEF LoadedFromFile, Engines
<1> QED
  BY <1>4, <1>6, <1>7, <1>8, <1>9, <1>10 DEF PlanningNext, planningVars

\* The code behaviour: planApproved saves the draft, and the runbook that it then loads, from
\* the database or from the file, is the plan that the user was shown.
THEOREM ShownPlanRunsHolds == PlanningSpec => ShownPlanRuns
<1>1. PlanningInv /\ PatientInv /\ [PlanningNext]_planningVars
        => [mode.patient /\ flow.approved /\ engine.state # "READY" /\ engine'.state = "READY"
              => engine'.runbook = shown]_planningVars
  BY ReadyIsApproved
<1>2. PlanningInit => PlanningInv /\ PatientInv
  BY PlanningInitInv, PatientInit
<1>3. PlanningInv /\ PatientInv /\ [PlanningNext]_planningVars => (PlanningInv /\ PatientInv)'
  BY PlanningTypeStep, PatientStep
<1> QED
  BY <1>1, <1>2, <1>3, PTL DEF PlanningSpec, ShownPlanRuns

-----------------------------------------------------------------------------
(* The sort                                                                *)

\* A sequence without repetitions.
Once(s) == \A i, j \in DOMAIN s : s[i] = s[j] => i = j

\* Sorting a set of phases lists each of them once.
LEMMA AscendingLists ==
  ASSUME NEW S \in SUBSET Nodes
  PROVE  /\ Ascending(S) \in Seq(S)
         /\ Once(Ascending(S))
         /\ Range(Ascending(S)) = S
<1> DEFINE K == Cardinality(S)
           place == [n \in S |-> Cardinality(UpTo(S, n))]
<1>1. IsFiniteSet(S) /\ K \in Nat /\ S \subseteq Int
  <2>1. IsFiniteSet(Nodes)
    BY NAssumption, FS_Interval DEF Nodes
  <2>2. IsFiniteSet(S)
    BY <2>1, FS_Subset
  <2>3. K \in Nat
    BY <2>2, FS_CardinalityType
  <2>4. S \subseteq Int
    BY NAssumption DEF Nodes
  <2> QED
    BY <2>2, <2>3, <2>4
<1>2. \A n \in S : UpTo(S, n) \in SUBSET S /\ n \in UpTo(S, n)
  BY <1>1 DEF UpTo
<1>3. \A n \in S : IsFiniteSet(UpTo(S, n)) /\ Cardinality(UpTo(S, n)) \in Nat /\ Cardinality(UpTo(S, n)) <= K
  BY <1>1, <1>2, FS_Subset, FS_CardinalityType
<1>4. \A n \in S : Cardinality(UpTo(S, n)) # 0
  BY <1>2, <1>3, FS_EmptySet
<1>5. place \in [S -> 1..K]
  BY <1>1, <1>3, <1>4
<1>6. ASSUME NEW m \in S, NEW n \in S, m < n PROVE place[m] # place[n]
  <2>1. m \in Int /\ n \in Int /\ (\A k \in S : k \in Int)
    BY <1>1
  <2>2. \A k \in S : k <= m => k <= n
    BY <2>1, <1>6
  <2>3. ~(n <= m)
    BY <2>1, <1>6
  <2>4. UpTo(S, m) \in SUBSET UpTo(S, n) /\ n \notin UpTo(S, m)
    BY <2>2, <2>3 DEF UpTo
  <2>5. UpTo(S, m) # UpTo(S, n)
    BY <2>4, <1>2
  <2> QED
    BY <2>4, <2>5, <1>3, FS_Subset
<1>7. place \in Injection(S, 1..K)
  <2>1. \A m, n \in S : m # n => place[m] # place[n]
    BY <1>1, <1>6
  <2> QED
    BY <2>1, <1>5, Fun_IsInj
<1>8. IsFiniteSet(1..K) /\ Cardinality(1..K) = K
  BY <1>1, FS_Interval
<1>9. place \in Surjection(S, 1..K)
  BY <1>7, <1>8, FS_Injection
<1>10. \A i \in 1..K : \E n \in S : Cardinality(UpTo(S, n)) = i
  BY <1>9 DEF Surjection
<1>11. \A i \in 1..K : Ascending(S)[i] \in S /\ Cardinality(UpTo(S, Ascending(S)[i])) = i
  BY <1>10 DEF Ascending
<1>12. Ascending(S) \in [1..K -> S]
  BY <1>11 DEF Ascending
<1>13. Ascending(S) \in Seq(S) /\ DOMAIN Ascending(S) = 1..K
  BY <1>1, <1>12
<1>14. Once(Ascending(S))
  BY <1>11, <1>13 DEF Once
<1>15. ASSUME NEW n \in S PROVE \E i \in 1..K : Ascending(S)[i] = n
  <2>1. place[n] \in 1..K
    BY <1>5
  <2>2. place[Ascending(S)[place[n]]] = place[n] /\ Ascending(S)[place[n]] \in S
    BY <2>1, <1>11
  <2>3. Ascending(S)[place[n]] = n
    BY <2>2, <1>7 DEF Injection, IsInjective
  <2> QED
    BY <2>1, <2>3
<1>16. Range(Ascending(S)) = S
  BY <1>11, <1>13, <1>15 DEF Range
<1> QED
  BY <1>13, <1>14, <1>16

\* Appending something new adds it.
LEMMA AppendRange ==
  ASSUME NEW S, NEW s \in Seq(S), NEW e \in S, Once(s), e \notin Range(s)
  PROVE  /\ Range(Append(s, e)) = Range(s) \cup {e}
         /\ Once(Append(s, e))
<1>1. DOMAIN s = 1..Len(s) /\ Len(s) \in Nat
  OBVIOUS
<1>2. DOMAIN Append(s, e) = 1..(Len(s) + 1)
  OBVIOUS
<1>3. \A i \in 1..(Len(s) + 1) : Append(s, e)[i] = IF i <= Len(s) THEN s[i] ELSE e
  OBVIOUS
<1>4. Len(s) + 1 \in DOMAIN Append(s, e) /\ Append(s, e)[Len(s) + 1] = e
  BY <1>1, <1>2, <1>3
<1>5. \A i \in DOMAIN s : i \in DOMAIN Append(s, e) /\ Append(s, e)[i] = s[i] /\ s[i] # e
  BY <1>1, <1>2, <1>3 DEF Range
<1>6. \A i \in DOMAIN Append(s, e) : i \in DOMAIN s \/ i = Len(s) + 1
  BY <1>1, <1>2
<1>7. Range(Append(s, e)) = Range(s) \cup {e}
  BY <1>4, <1>5, <1>6, Zenon DEF Range
<1>8. Once(Append(s, e))
  BY <1>4, <1>5, <1>6 DEF Once
<1> QED
  BY <1>7, <1>8

\* Taking the head off a sequence without repetitions removes it.
LEMMA TailRange ==
  ASSUME NEW S, NEW s \in Seq(S), s # << >>, Once(s)
  PROVE  /\ Head(s) \in Range(s)
         /\ Range(Tail(s)) = Range(s) \ {Head(s)}
         /\ Once(Tail(s))
<1>1. DOMAIN s = 1..Len(s) /\ Len(s) \in Nat \ {0} /\ Head(s) = s[1]
  BY EmptySeq
<1>2. DOMAIN Tail(s) = 1..(Len(s) - 1)
  BY <1>1
<1>3. \A i \in 1..(Len(s) - 1) : Tail(s)[i] = s[i + 1]
  BY <1>1
<1>4. \A i \in 2..Len(s) : s[i] # s[1] /\ Tail(s)[i - 1] = s[i] /\ i - 1 \in DOMAIN Tail(s)
  BY <1>1, <1>2, <1>3 DEF Once
<1>5. \A i \in DOMAIN Tail(s) : i + 1 \in DOMAIN s /\ Tail(s)[i] = s[i + 1] /\ i + 1 # 1
  BY <1>1, <1>2, <1>3
<1>6. ASSUME NEW v \in Range(s) \ {Head(s)} PROVE v \in Range(Tail(s))
  <2>1. PICK i \in DOMAIN s : s[i] = v
    BY DEF Range
  <2>2. i \in 2..Len(s)
    BY <2>1, <1>1
  <2> QED
    BY <2>1, <2>2, <1>4 DEF Range
<1>7. \A v \in Range(Tail(s)) : v \in Range(s) /\ v # Head(s)
  BY <1>1, <1>5 DEF Range, Once
<1>8. Once(Tail(s))
  BY <1>1, <1>2, <1>5 DEF Once
<1>9. Head(s) \in Range(s)
  BY <1>1 DEF Range
<1> QED
  BY <1>6, <1>7, <1>8, <1>9

\* Two sequences that share nothing, one after the other.
LEMMA ConcatRange ==
  ASSUME NEW S, NEW s \in Seq(S), NEW t \in Seq(S), Once(s), Once(t), Range(s) \cap Range(t) = {}
  PROVE  /\ Range(s \o t) = Range(s) \cup Range(t)
         /\ Once(s \o t)
<1>1. DOMAIN s = 1..Len(s) /\ Len(s) \in Nat /\ DOMAIN t = 1..Len(t) /\ Len(t) \in Nat
  OBVIOUS
<1>2. DOMAIN (s \o t) = 1..(Len(s) + Len(t))
  OBVIOUS
<1>3. \A i \in 1..Len(s) : (s \o t)[i] = s[i] /\ i \in DOMAIN (s \o t)
  BY <1>1, <1>2
<1>4. \A i \in 1..Len(t) : (s \o t)[Len(s) + i] = t[i] /\ Len(s) + i \in DOMAIN (s \o t)
  BY <1>1, <1>2
<1>5. \A k \in DOMAIN (s \o t) : k \in 1..Len(s) \/ (\E i \in 1..Len(t) : k = Len(s) + i)
  <2> TAKE k \in DOMAIN (s \o t)
  <2>1. CASE k <= Len(s)
    BY <2>1, <1>1, <1>2
  <2>2. CASE k > Len(s)
    <3>1. k - Len(s) \in 1..Len(t) /\ k = Len(s) + (k - Len(s))
      BY <2>2, <1>1, <1>2
    <3> QED
      BY <3>1
  <2> QED
    BY <2>1, <2>2, <1>1, <1>2
<1>6. Range(s \o t) = Range(s) \cup Range(t)
  BY <1>1, <1>3, <1>4, <1>5 DEF Range
<1>7. \A i \in 1..Len(s), j \in 1..Len(t) : s[i] # t[j]
  BY <1>1 DEF Range
<1>8. ASSUME NEW k \in DOMAIN (s \o t), NEW l \in DOMAIN (s \o t), (s \o t)[k] = (s \o t)[l] PROVE k = l
  <2>1. CASE k \in 1..Len(s) /\ l \in 1..Len(s)
    BY <2>1, <1>1, <1>3, <1>8 DEF Once
  <2>2. CASE k \in 1..Len(s) /\ (\E j \in 1..Len(t) : l = Len(s) + j)
    BY <2>2, <1>3, <1>4, <1>7, <1>8
  <2>3. CASE (\E j \in 1..Len(t) : k = Len(s) + j) /\ l \in 1..Len(s)
    BY <2>3, <1>3, <1>4, <1>7, <1>8
  <2>4. CASE (\E i \in 1..Len(t) : k = Len(s) + i) /\ (\E j \in 1..Len(t) : l = Len(s) + j)
    BY <2>4, <1>1, <1>4, <1>8 DEF Once
  <2> QED
    BY <1>5, <2>1, <2>2, <2>3, <2>4
<1> QED
  BY <1>6, <1>8 DEF Once


\* The types of the sort.
SortTypeOK ==
  /\ deps \in [Nodes -> SUBSET (Nodes \cup Missing)]
  /\ inDegree \in [Nodes -> Int]
  /\ queue \in Seq(Nodes) /\ order \in Seq(Nodes)
  /\ pc \in {"build", "sort", "done"}

\* The phases visited so far.
Visited == Range(order)

\* A phase is queued once and visited once.
VisitsOnce ==
  /\ Once(order) /\ Once(queue)
  /\ Visited \cap Range(queue) = {}

\* A phase's in-degree counts the dependencies that are still to be visited, and a phase
\* without any is queued or has been.
CountsWaiting == pc # "build" => \A m \in Nodes :
  /\ inDegree[m] = Cardinality(deps[m] \ Visited)
  /\ inDegree[m] = 0 <=> m \in Visited \cup Range(queue)

\* A phase comes after everything it depends on.
DepsComeFirst ==
  \A i \in DOMAIN order : \A d \in deps[order[i]] : \E j \in 1..(i - 1) : order[j] = d

\* The invariant of the loop; a phase that can never start is not visited.
SortInv ==
  /\ SortTypeOK /\ VisitsOnce /\ CountsWaiting /\ DepsComeFirst
  /\ pc = "build" => order = << >> /\ queue = << >>
  /\ pc = "done" => queue = << >>
  /\ Visited \cap Blocked = {}

\* The dependencies of a phase can be counted.
LEMMA DepsFinite ==
  ASSUME SortTypeOK, NEW m \in Nodes, NEW S
  PROVE  IsFiniteSet(deps[m]) /\ IsFiniteSet(deps[m] \ S) /\ Cardinality(deps[m] \ S) \in Nat
<1>1. IsFiniteSet(Nodes)
  BY NAssumption, FS_Interval DEF Nodes
<1>2. IsFiniteSet(Nodes \cup Missing)
  BY <1>1, MissingAssumption, FS_Union
<1>3. deps[m] \in SUBSET (Nodes \cup Missing)
  BY DEF SortTypeOK
<1>4. IsFiniteSet(deps[m])
  BY <1>2, <1>3, FS_Subset
<1>5. IsFiniteSet(deps[m] \ S)
  BY <1>4, FS_Difference
<1> QED
  BY <1>4, <1>5, FS_CardinalityType

\* A blocked phase waits for a phase that is missing or blocked.
LEMMA BlockedWaits ==
  ASSUME NEW n \in Blocked
  PROVE  n \in Nodes /\ \E d \in deps[n] : d \notin Nodes \/ d \in Blocked
  BY DEF Blocked

\* The invariant holds before the loop.
LEMMA SortInitInv == SortInit => SortInv
<1> SUFFICES ASSUME SortInit PROVE SortInv
  OBVIOUS
<1>1. queue = << >> /\ order = << >> /\ pc = "build"
  BY DEF SortInit
<1>2. Range(order) = {} /\ Range(queue) = {} /\ DOMAIN order = {} /\ DOMAIN queue = {}
  BY <1>1 DEF Range
<1>3. SortTypeOK
  BY <1>1, EmptySeq DEF SortInit, SortTypeOK
<1> QED
  BY <1>1, <1>2, <1>3 DEF SortInv, VisitsOnce, CountsWaiting, DepsComeFirst, Visited, Once

\* Building the graph keeps the invariant.
LEMMA BuildStep == SortInv /\ Build => SortInv'
<1> SUFFICES ASSUME SortInv, Build PROVE SortInv'
  OBVIOUS
<1> DEFINE Free == {n \in Nodes : InitialInDegree[n] = 0}
<1>1. SortTypeOK /\ order = << >> /\ pc = "build" /\ pc' = "sort" /\ UNCHANGED <<deps, order>>
  BY DEF SortInv, Build
<1>2. Free \in SUBSET Nodes /\ queue' = Ascending(Free)
  BY DEF Build
<1>3. queue' \in Seq(Free) /\ Once(queue') /\ Range(queue') = Free
  BY <1>2, AscendingLists
<1>4. queue' \in Seq(Nodes)
  BY <1>2, <1>3, SeqMonotonic
<1>5. Visited = {} /\ Visited' = {} /\ DOMAIN order' = {}
  BY <1>1 DEF Visited, Range
<1>6. \A m \in Nodes : deps[m] \ Visited' = deps[m]
  BY <1>5
<1>7. \A m \in Nodes : inDegree'[m] = Cardinality(deps[m]) /\ Cardinality(deps[m]) \in Nat
  <2> TAKE m \in Nodes
  <2>1. Cardinality(deps[m] \ Visited') \in Nat
    BY <1>1, DepsFinite
  <2> QED
    BY <2>1, <1>6 DEF Build, InitialInDegree
<1>8. inDegree' \in [Nodes -> Int]
  BY <1>7 DEF Build, InitialInDegree
<1>9. SortTypeOK'
  BY <1>1, <1>4, <1>8 DEF SortTypeOK
<1>10. VisitsOnce'
  BY <1>3, <1>5 DEF VisitsOnce, Once
<1>11. \A m \in Nodes : inDegree'[m] = 0 <=> m \in Range(queue')
  BY <1>3 DEF Build
<1>12. CountsWaiting'
  BY <1>1, <1>5, <1>6, <1>7, <1>11 DEF CountsWaiting
<1>13. DepsComeFirst'
  BY <1>5 DEF DepsComeFirst
<1> QED
  BY <1>1, <1>5, <1>9, <1>10, <1>12, <1>13 DEF SortInv

\* A visit keeps the invariant: it takes one off the counts of the neighbours, and queues
\* those that it frees, none of which was queued before.
LEMMA VisitStep == SortInv /\ Visit => SortInv'
<1> SUFFICES ASSUME SortInv, Visit PROVE SortInv'
  OBVIOUS
<1> DEFINE n == Head(queue)
           Freed == {m \in Neighbours(n) : inDegree'[m] = 0}
<1>1. SortTypeOK /\ VisitsOnce /\ CountsWaiting /\ DepsComeFirst /\ Visited \cap Blocked = {}
      /\ pc = "sort" /\ pc' = "sort" /\ queue # << >> /\ UNCHANGED deps
  BY DEF SortInv, Visit
<1>2. queue \in Seq(Nodes) /\ order \in Seq(Nodes) /\ deps \in [Nodes -> SUBSET (Nodes \cup Missing)]
      /\ inDegree \in [Nodes -> Int]
  BY <1>1 DEF SortTypeOK
<1>3. order' = Append(order, n) /\ queue' = Tail(queue) \o Ascending(Freed)
  BY DEF Visit
<1>4. inDegree' = [m \in Nodes |-> IF m \in Neighbours(n) THEN inDegree[m] - 1 ELSE inDegree[m]]
  BY DEF Visit
<1>5. n \in Range(queue) /\ Range(Tail(queue)) = Range(queue) \ {n} /\ Once(Tail(queue)) /\ n \in Nodes
      /\ Tail(queue) \in Seq(Nodes)
  <2>1. n \in Range(queue) /\ Range(Tail(queue)) = Range(queue) \ {n} /\ Once(Tail(queue))
    BY <1>1, <1>2, TailRange DEF VisitsOnce
  <2> QED
    BY <2>1, <1>1, <1>2, HeadTailProperties
<1>6. Visited' = Visited \cup {n} /\ Once(order') /\ n \notin Visited
  BY <1>1, <1>2, <1>3, <1>5, AppendRange DEF Visited, VisitsOnce
<1>7. deps[n] \subseteq Visited
  <2>1. Cardinality(deps[n] \ Visited) = 0 /\ IsFiniteSet(deps[n] \ Visited)
    BY <1>1, <1>5, DepsFinite DEF CountsWaiting
  <2> QED
    BY <2>1, FS_EmptySet
<1>8. \A m \in Nodes : Cardinality(deps[m] \ Visited) \in Nat /\ Cardinality(deps[m] \ Visited') \in Nat
  BY <1>1, DepsFinite
<1>9. ASSUME NEW m \in Nodes PROVE inDegree'[m] = Cardinality(deps[m] \ Visited')
  <2>1. CASE m \in Neighbours(n)
    <3>1. n \in deps[m] \ Visited /\ deps[m] \ Visited' = (deps[m] \ Visited) \ {n}
      BY <2>1, <1>6 DEF Neighbours
    <3>2. IsFiniteSet(deps[m] \ Visited)
      BY <1>1, DepsFinite
    <3>3. Cardinality(deps[m] \ Visited') = Cardinality(deps[m] \ Visited) - 1
      BY <3>1, <3>2, FS_RemoveElement
    <3> QED
      BY <3>3, <2>1, <1>1, <1>4 DEF CountsWaiting
  <2>2. CASE m \notin Neighbours(n)
    <3>1. deps[m] \ Visited' = deps[m] \ Visited
      BY <2>2, <1>6 DEF Neighbours
    <3> QED
      BY <3>1, <2>2, <1>1, <1>4 DEF CountsWaiting
  <2> QED
    BY <2>1, <2>2
<1>10. Freed \in SUBSET Nodes /\ Ascending(Freed) \in Seq(Freed) /\ Once(Ascending(Freed)) /\ Range(Ascending(Freed)) = Freed
  <2>1. Freed \in SUBSET Nodes
    BY DEF Neighbours
  <2> QED
    BY <2>1, AscendingLists
<1>11. \A m \in Freed : inDegree[m] = 1
  BY <1>2, <1>4, <1>10
<1>12. \A m \in Nodes : inDegree[m] = 0 <=> m \in Visited \cup Range(queue)
  BY <1>1 DEF CountsWaiting
<1>13. Freed \cap (Visited \cup Range(queue)) = {}
  BY <1>10, <1>11, <1>12
<1>14. /\ Range(queue') = Range(Tail(queue)) \cup Freed /\ Once(queue') /\ queue' \in Seq(Nodes)
  <2>1. Ascending(Freed) \in Seq(Nodes)
    BY <1>10, SeqMonotonic
  <2>2. Range(Tail(queue)) \cap Range(Ascending(Freed)) = {}
    BY <1>5, <1>10, <1>13
  <2>3. Range(Tail(queue) \o Ascending(Freed)) = Range(Tail(queue)) \cup Range(Ascending(Freed))
        /\ Once(Tail(queue) \o Ascending(Freed))
    BY <2>1, <2>2, <1>5, <1>10, ConcatRange
  <2>4. Tail(queue) \o Ascending(Freed) \in Seq(Nodes)
    BY <2>1, <1>5, ConcatProperties
  <2> QED
    BY <2>3, <2>4, <1>3, <1>10
<1>15. SortTypeOK'
  <2>1. order' \in Seq(Nodes)
    BY <1>2, <1>3, <1>5
  <2>2. inDegree' \in [Nodes -> Int]
    BY <1>2, <1>4
  <2> QED
    BY <2>1, <2>2, <1>1, <1>2, <1>14 DEF SortTypeOK
<1>16. VisitsOnce'
  <2>1. Visited \cap Range(queue) = {}
    BY <1>1 DEF VisitsOnce
  <2>2. Visited' \cap Range(queue') = {}
    BY <2>1, <1>5, <1>6, <1>13, <1>14
  <2> QED
    BY <2>2, <1>6, <1>14 DEF VisitsOnce
<1>17. ASSUME NEW m \in Nodes PROVE inDegree'[m] = 0 <=> m \in Visited' \cup Range(queue')
  <2>1. CASE m \in Neighbours(n)
    <3>1. inDegree'[m] = 0 <=> m \in Freed
      BY <2>1
    <3>2. inDegree[m] # 0
      <4>1. n \in deps[m] \ Visited /\ IsFiniteSet(deps[m] \ Visited)
        BY <2>1, <1>1, <1>6, DepsFinite DEF Neighbours
      <4>2. Cardinality(deps[m] \ Visited) # 0
        BY <4>1, FS_EmptySet
      <4> QED
        BY <4>2, <1>1 DEF CountsWaiting
    <3>3. m \notin Visited' \cup Range(Tail(queue))
      BY <3>2, <1>5, <1>6, <1>12
    <3> QED
      BY <3>1, <3>3, <1>14
  <2>2. CASE m \notin Neighbours(n)
    <3>1. inDegree'[m] = inDegree[m] /\ m \notin Freed
      BY <2>2, <1>4
    <3>2. m \in Visited \cup Range(queue) <=> m \in Visited' \cup Range(queue')
      BY <3>1, <1>5, <1>6, <1>14
    <3> QED
      BY <3>1, <3>2, <1>12
  <2> QED
    BY <2>1, <2>2
<1>18. CountsWaiting'
  BY <1>1, <1>9, <1>17 DEF CountsWaiting
<1>19. DepsComeFirst'
  <2>1. DOMAIN order = 1..Len(order) /\ Len(order) \in Nat /\ DOMAIN order' = 1..(Len(order) + 1)
        /\ order'[Len(order) + 1] = n /\ (\A i \in 1..Len(order) : order'[i] = order[i])
    BY <1>2, <1>3, <1>5
  <2>2. ASSUME NEW i \in 1..Len(order), NEW d \in deps[order[i]] PROVE \E j \in 1..(i - 1) : order'[j] = d
    <3>1. PICK j \in 1..(i - 1) : order[j] = d
      BY <2>1, <1>1 DEF DepsComeFirst
    <3>2. j \in 1..Len(order)
      BY <2>1
    <3> QED
      BY <3>1, <3>2, <2>1
  <2>3. ASSUME NEW d \in deps[n] PROVE \E j \in 1..Len(order) : order'[j] = d
    BY <2>1, <1>7 DEF Visited, Range
  <2>4. ASSUME NEW i \in DOMAIN order', NEW d \in deps[order'[i]] PROVE \E j \in 1..(i - 1) : order'[j] = d
    <3>1. CASE i \in 1..Len(order)
      BY <3>1, <2>1, <2>2
    <3>2. CASE i = Len(order) + 1
      <4>1. d \in deps[n] /\ 1..(i - 1) = 1..Len(order)
        BY <3>2, <2>1
      <4> QED
        BY <4>1, <2>3
    <3> QED
      BY <3>1, <3>2, <2>1
  <2> QED
    BY <2>4, <1>1 DEF DepsComeFirst
<1>20. (Visited \cap Blocked)' = {}
  <2>1. Visited \subseteq Nodes
    BY <1>2 DEF Visited, Range
  <2>2. n \notin Blocked
    BY <2>1, <1>1, <1>7, BlockedWaits
  <2>3. Blocked' = Blocked
    BY <1>1 DEF Blocked
  <2> QED
    BY <2>2, <2>3, <1>1, <1>6
<1> QED
  BY <1>1, <1>15, <1>16, <1>18, <1>19, <1>20 DEF SortInv

\* Each step of the sort keeps the invariant.
LEMMA SortStep == SortInv /\ [SortNext]_sortVars => SortInv'
<1> SUFFICES ASSUME SortInv, [SortNext]_sortVars PROVE SortInv'
  OBVIOUS
<1>1. CASE EndLoop
  <2>1. UNCHANGED <<deps, inDegree, queue, order>> /\ pc = "sort" /\ pc' = "done" /\ queue = << >>
    BY <1>1 DEF EndLoop
  <2>2. Visited' = Visited /\ Blocked' = Blocked
    BY <2>1 DEF Visited, Blocked
  <2> QED
    BY <2>1, <2>2 DEF SortInv, SortTypeOK, VisitsOnce, CountsWaiting, DepsComeFirst
<1>2. CASE UNCHANGED sortVars
  <2>1. Visited' = Visited /\ Blocked' = Blocked
    BY <1>2 DEF Visited, Blocked, sortVars
  <2> QED
    BY <1>2, <2>1 DEF sortVars, SortInv, SortTypeOK, VisitsOnce, CountsWaiting, DepsComeFirst
<1> QED
  BY <1>1, <1>2, BuildStep, VisitStep DEF SortNext

\* The invariant holds throughout.
LEMMA SortHolds == SortSpec => []SortInv
  BY SortInitInv, SortStep, PTL DEF SortSpec

\* The code behaviour: kahnSort's order, which getExecutionOrder returns, has every phase
\* once, and after the phases it depends on.
THEOREM OrderRespectsDepsHolds == SortSpec => []OrderRespectsDeps
<1>1. SortInv => OrderRespectsDeps
  BY DEF SortInv, VisitsOnce, DepsComeFirst, OrderRespectsDeps, Once
<1> QED
  BY <1>1, SortHolds, PTL

\* What the loop leaves is blocked, and is what still has an in-degree.
LEMMA UnvisitedIsBlocked ==
  ASSUME SortInv, pc = "done"
  PROVE  /\ {n \in Nodes : inDegree[n] > 0} = Nodes \ Visited
         /\ Nodes \ Visited = Blocked
<1>1. SortTypeOK /\ CountsWaiting /\ queue = << >> /\ Visited \cap Blocked = {}
  BY DEF SortInv
<1>2. Range(queue) = {}
  BY <1>1 DEF Range
<1>3. ASSUME NEW n \in Nodes PROVE inDegree[n] > 0 <=> n \notin Visited
  <2>1. inDegree[n] \in Nat
    BY <1>1, DepsFinite DEF CountsWaiting
  <2>2. inDegree[n] = 0 <=> n \in Visited
    BY <1>1, <1>2 DEF CountsWaiting
  <2> QED
    BY <2>1, <2>2
<1>4. ASSUME NEW n \in Nodes \ Visited PROVE \E d \in deps[n] : d \notin Nodes \/ d \in Nodes \ Visited
  <2>1. Cardinality(deps[n] \ Visited) # 0
    BY <1>1, <1>2 DEF CountsWaiting
  <2>2. deps[n] \ Visited # {}
    BY <2>1, FS_EmptySet
  <2> QED
    BY <2>2
<1>5. Nodes \ Visited \subseteq Blocked
  BY <1>4 DEF Blocked
<1>6. Blocked \subseteq Nodes
  BY DEF Blocked
<1> QED
  BY <1>1, <1>3, <1>5, <1>6

\* An order of as many as there are phases has all of them.
LEMMA AllVisited ==
  ASSUME SortInv, Len(order) = N
  PROVE  Visited = Nodes
<1>1. order \in Seq(Nodes) /\ Once(order)
  BY DEF SortInv, SortTypeOK, VisitsOnce
<1>2. order \in [Nodes -> Nodes] /\ DOMAIN order = Nodes
  BY <1>1 DEF Nodes
<1>3. order \in Injection(Nodes, Nodes)
  BY <1>1, <1>2, Fun_IsInj DEF Once
<1>4. IsFiniteSet(Nodes)
  BY NAssumption, FS_Interval DEF Nodes
<1>5. order \in Surjection(Nodes, Nodes)
  BY <1>3, <1>4, FS_Injection
<1> QED
  BY <1>2, <1>5 DEF Surjection, Visited, Range

\* The code behaviour: detectCycles names exactly the phases that could never become ready,
\* missing dependencies included.
THEOREM RejectsExactlyBlockedHolds == SortSpec => []RejectsExactlyBlocked
<1>1. ASSUME SortInv, pc = "done" PROVE DetectCycles = Blocked
  <2>1. CASE ~IsDAGMode
    <3>1. Blocked = {}
      BY <2>1, BlockedWaits DEF IsDAGMode
    <3> QED
      BY <2>1, <3>1 DEF DetectCycles
  <2>2. CASE Len(order) = N
    <3>1. Blocked = {}
      BY <1>1, <2>2, AllVisited, UnvisitedIsBlocked
    <3> QED
      BY <2>2, <3>1 DEF DetectCycles
  <2>3. CASE ~(~IsDAGMode \/ Len(order) = N)
    BY <1>1, <2>3, UnvisitedIsBlocked DEF DetectCycles
  <2> QED
    BY <2>1, <2>2, <2>3
<1>2. SortInv => RejectsExactlyBlocked
  BY <1>1 DEF RejectsExactlyBlocked
<1> QED
  BY <1>2, SortHolds, PTL

-----------------------------------------------------------------------------
(* The prompt compiler's workspace                                         *)

\* The effective root of a folder that has a manifest is the folder.
LEMMA FolderAlone ==
  ASSUME NEW c, NEW child, HasManifest(c)
  PROVE  Fingerprint([root |-> c, child |-> child]).top = Profile(c, c)
<1> DEFINE ws == [root |-> c, child |-> child]
<1>1. Subprojects(ws) = {}
  BY DEF Subprojects
<1>2. EffectiveRoot(ws) = c
  BY <1>1 DEF EffectiveRoot
<1>3. DOMAIN [f \in Subprojects(ws) |-> ProfileSubproject(ws, f)] = {}
  BY <1>1
<1> HIDE DEF ws
<1>4. Fingerprint(ws).top = Profile(EffectiveRoot(ws), EffectiveRoot(ws))
  BY <1>3 DEF Fingerprint
<1> QED
  BY <1>2, <1>4 DEF ws

\* A subproject is read with itself as the effective root.
LEMMA SubprojectsRead ==
  ASSUME NEW ws
  PROVE  /\ DOMAIN Fingerprint(ws).subprojects = Subprojects(ws)
         /\ \A f \in Subprojects(ws) : Fingerprint(ws).subprojects[f] = Profile(ws.child[f], ws.child[f])
  BY DEF Fingerprint, ProfileSubproject

\* The code behaviour: profileSubproject makes the child the effective root and puts the old one back, so no child is said to use
\* the tools of another, whatever the folders hold and however they change before.
THEOREM SubprojectsAreTheirOwnHolds == CompilerSpec => SubprojectsAreTheirOwn
<1> DEFINE OwnStep ==
      fingerprint = NotYet /\ fingerprint' # NotYet =>
        \A f \in DOMAIN fingerprint'.subprojects :
          LET alone == Fingerprint([root |-> workspace.child[f], child |-> [g \in ToSet(Subfolders) |-> {}]])
          IN fingerprint'.subprojects[f] = alone.top
<1>1. ASSUME [CompilerNext]_compilerVars, fingerprint = NotYet, fingerprint' # NotYet
      PROVE  fingerprint' = Fingerprint(workspace)
  BY <1>1 DEF CompilerNext, CompilePrompt, FallBack, ChangeWorkspace, compilerVars
<1>2. ASSUME NEW f \in Subprojects(workspace) PROVE HasManifest(workspace.child[f])
  BY <1>2 DEF Subprojects
<1>3. [CompilerNext]_compilerVars => OwnStep
  <2> SUFFICES ASSUME [CompilerNext]_compilerVars, fingerprint = NotYet, fingerprint' # NotYet,
                      NEW f \in DOMAIN fingerprint'.subprojects
               PROVE  fingerprint'.subprojects[f]
                        = Fingerprint([root |-> workspace.child[f], child |-> [g \in ToSet(Subfolders) |-> {}]]).top
    OBVIOUS
  <2>1. f \in Subprojects(workspace) /\ fingerprint'.subprojects[f] = Profile(workspace.child[f], workspace.child[f])
    BY <1>1, SubprojectsRead
  <2> QED
    BY <1>2, <2>1, FolderAlone
<1> QED
  BY <1>3, PTL DEF CompilerSpec, SubprojectsAreTheirOwn
=============================================================================
