------------------------------ MODULE PanelProofs ----------------------------
(***************************************************************************)
(* What the user is shown, for any sessions, phases, commands and          *)
(* messages on their way: the failure console offers only the retry that   *)
(* the engine would take (Failures), the handoff shown for a phase is that *)
(* phase's, and the panel shows ids of the session it names (Panel).       *)
(*                                                                         *)
(* Fetches keep to a phase because a resource takes the answer of its own  *)
(* request only, and because no number of an open request is given out     *)
(* again (FreshIsNew).  Sessions are kept apart by the order of messages.  *)
(* A message that mixes two sessions is followed at once by one that puts  *)
(* the view right (Mended), and a message without a name reaches the view  *)
(* only while this shows the running session it is about (RunsAt).         *)
(***************************************************************************)
EXTENDS Failures, Panel, TLAPS, FiniteSetTheorems, FunctionTheorems, SequenceTheorems, WellFoundedInduction

\* A set of numbers has a least one.
LEMMA LeastExists ==
  ASSUME NEW S \in SUBSET Nat, S # {}
  PROVE  \E m \in S : \A n \in S : m <= n
<1>1. PICK m \in S : \A n \in S : ~(<<n, m>> \in OpToRel(<, Nat))
  BY NatLessThanWellFounded, WFMin
<1>2. ASSUME NEW n \in S PROVE m <= n
  <2>1. m \in Nat /\ n \in Nat
    OBVIOUS
  <2>2. ~(n < m)
    BY <1>1, <2>1 DEF OpToRel
  <2> QED
    BY <2>1, <2>2
<1> QED
  BY <1>2

-----------------------------------------------------------------------------
(* The failure console                                                     *)

\* The types of the failure console's engine.
PhaseStates == [status : {"pending", "running", "completed", "failed"}, attempts : Nat]

\* The type invariant of Failures, as far as the proof needs it.
FailuresTypeOK ==
  /\ state \in EngineStates
  /\ phaseOf \in [Tasks -> PhaseStates]
  /\ \E S : console \in Seq(S)

\* An engine that is paused by an error has no worker.
PausedIsStill == state = "ERROR_PAUSED" => With("running") = {}

\* The invariant behind OfferedRetryIsTaken.
FailuresInv == FailuresTypeOK /\ PausedIsStill

\* A transition leads to a state of the machine, whatever the event.
LEMMA FireInStates ==
  ASSUME NEW s \in EngineStates, NEW e
  PROVE  Fire(s, e) \in EngineStates
<1>1. CASE s = "IDLE"
  BY <1>1 DEF Fire, Accepts, Transitions, EngineStates
<1>2. CASE s = "PLANNING"
  BY <1>2 DEF Fire, Accepts, Transitions, EngineStates
<1>3. CASE s = "PLAN_REVIEW"
  BY <1>3 DEF Fire, Accepts, Transitions, EngineStates
<1>4. CASE s = "PARSING"
  BY <1>4 DEF Fire, Accepts, Transitions, EngineStates
<1>5. CASE s = "READY"
  BY <1>5 DEF Fire, Accepts, Transitions, EngineStates
<1>6. CASE s = "EXECUTING_WORKER"
  BY <1>6 DEF Fire, Accepts, Transitions, EngineStates
<1>7. CASE s = "EVALUATING"
  BY <1>7 DEF Fire, Accepts, Transitions, EngineStates
<1>8. CASE s = "ERROR_PAUSED"
  BY <1>8 DEF Fire, Accepts, Transitions, EngineStates
<1>9. CASE s = "COMPLETED"
  BY <1>9 DEF Fire, Accepts, Transitions, EngineStates
<1> QED
  BY <1>1, <1>2, <1>3, <1>4, <1>5, <1>6, <1>7, <1>8, <1>9 DEF EngineStates

\* None of a user's commands pauses the engine, and each ends a pause when it is taken.
LEMMA Resumes ==
  ASSUME NEW s \in EngineStates, NEW e \in {"RETRY", "START", "SKIP_PHASE", "ABORT"}
  PROVE  Fire(s, e) = "ERROR_PAUSED" => s = "ERROR_PAUSED" /\ ~Accepts(s, e)
<1>1. CASE s \in {"IDLE", "PLANNING", "PLAN_REVIEW"}
  BY <1>1 DEF Fire, Accepts, Transitions
<1>2. CASE s \in {"PARSING", "READY", "EXECUTING_WORKER"}
  BY <1>2 DEF Fire, Accepts, Transitions
<1>3. CASE s \in {"EVALUATING", "ERROR_PAUSED", "COMPLETED"}
  BY <1>3 DEF Fire, Accepts, Transitions
<1> QED
  BY <1>1, <1>2, <1>3 DEF EngineStates

\* A paused engine takes a retry.
LEMMA RetryResumes == Accepts("ERROR_PAUSED", "RETRY") /\ Fire("ERROR_PAUSED", "RETRY") = "EXECUTING_WORKER"
  BY DEF Fire, Accepts, Transitions

\* The way from a start to the end of a run does not lead to a pause.
LEMMA PassesOn ==
  ASSUME NEW s \in EngineStates, s # "ERROR_PAUSED"
  PROVE  FireBoth(Fire(s, "START"), "WORKER_EXITED", "ALL_PHASES_PASS") # "ERROR_PAUSED"
<1>1. CASE s \in {"IDLE", "PLANNING", "PLAN_REVIEW"}
  BY <1>1 DEF FireBoth, Fire, Accepts, Transitions
<1>2. CASE s \in {"PARSING", "READY", "EXECUTING_WORKER"}
  BY <1>2 DEF FireBoth, Fire, Accepts, Transitions
<1>3. CASE s \in {"EVALUATING", "COMPLETED"}
  BY <1>3 DEF FireBoth, Fire, Accepts, Transitions
<1> QED
  BY <1>1, <1>2, <1>3 DEF EngineStates

\* A dispatch ends the pause, if there is anything to dispatch.
LEMMA DispatchStep ==
  ASSUME FailuresInv, DispatchPending
  PROVE  /\ state' \in EngineStates /\ phaseOf' \in [Tasks -> PhaseStates]
         /\ state' = "ERROR_PAUSED" => With("running")' = {}
<1>1. state \in EngineStates /\ phaseOf \in [Tasks -> PhaseStates]
  BY DEF FailuresInv, FailuresTypeOK
<1>2. phaseOf' \in [Tasks -> PhaseStates]
  BY <1>1 DEF DispatchPending, PhaseStates
<1>3. state' \in EngineStates
  BY <1>1, FireInStates DEF DispatchPending
<1>4. CASE state = "ERROR_PAUSED" /\ With("pending") # {}
  BY <1>2, <1>3, <1>4, RetryResumes DEF DispatchPending
<1>5. CASE state = "ERROR_PAUSED" /\ With("pending") = {}
  <2>1. \A p \in Tasks : phaseOf'[p].status = phaseOf[p].status
    BY <1>1, <1>5 DEF DispatchPending, With
  <2> QED
    BY <1>2, <1>3, <1>5, <2>1 DEF With, FailuresInv, PausedIsStill
<1>6. CASE state # "ERROR_PAUSED"
  BY <1>2, <1>3, <1>6 DEF DispatchPending
<1> QED
  BY <1>4, <1>5, <1>6

\* The console stays a list.
LEMMA ReportStep ==
  ASSUME NEW p, NEW code, Report(p, code), \E S : console \in Seq(S)
  PROVE  \E S : console' \in Seq(S)
<1>1. PICK S : console \in Seq(S)
  OBVIOUS
<1>2. CASE ~wired
  BY <1>1, <1>2 DEF Report
<1>3. CASE wired
  <2> DEFINE r == BuildRecord(p, code)
  <2>1. console' = Append(console, r)
    BY <1>3 DEF Report, Received
  <2> HIDE DEF r
  <2>2. console \in Seq(S \cup {r})
    BY <1>1
  <2>3. console' \in Seq(S \cup {r})
    BY <2>1, <2>2
  <2> QED
    BY <2>3
<1> QED
  BY <1>2, <1>3

\* The engine pauses with the end of its only worker; whatever starts one ends the pause.
LEMMA FailuresStep ==
  ASSUME FailuresInv, [FailuresNext]_failureVars
  PROVE  FailuresInv'
<1>1. /\ state \in EngineStates /\ phaseOf \in [Tasks -> PhaseStates] /\ (\E S : console \in Seq(S))
      /\ state = "ERROR_PAUSED" => With("running") = {}
  BY DEF FailuresInv, FailuresTypeOK, PausedIsStill
<1>2. ASSUME state' \in EngineStates, phaseOf' \in [Tasks -> PhaseStates], \E S : console' \in Seq(S),
             state' = "ERROR_PAUSED" => With("running")' = {}
      PROVE  FailuresInv'
  BY <1>2 DEF FailuresInv, FailuresTypeOK, PausedIsStill
<1>3. ASSUME phaseOf' = phaseOf, console' = console, state' \in EngineStates,
             state' = "ERROR_PAUSED" => state = "ERROR_PAUSED"
      PROVE  FailuresInv'
  BY <1>1, <1>2, <1>3 DEF With
<1>4. CASE Saved
  <2>1. \E S : console' \in Seq(S)
    BY <1>1, <1>4, ReportStep DEF Saved
  <2>2. CASE DispatchPending
    BY <1>2, <2>1, <2>2, DispatchStep
  <2>3. CASE UNCHANGED <<state, phaseOf>>
    BY <1>1, <1>2, <2>1, <2>3 DEF With
  <2> QED
    BY <1>4, <2>2, <2>3 DEF Saved
<1>5. CASE SkipSaved
  <2>1. /\ Fire(state, "START") \in EngineStates
        /\ FireBoth(Fire(state, "START"), "WORKER_EXITED", "ALL_PHASES_PASS") \in EngineStates
    BY <1>1, FireInStates DEF FireBoth
  <2>2. state' \in EngineStates
    BY <1>1, <1>5, <2>1 DEF SkipSaved
  <2>3. state' = "ERROR_PAUSED" => state = "ERROR_PAUSED"
    BY <1>1, <1>5, Resumes, PassesOn DEF SkipSaved
  <2> QED
    BY <1>3, <1>5, <2>2, <2>3 DEF SkipSaved
<1>6. CASE SaveRejected \/ Dismiss
  <2>1. \E S : console' \in Seq(S)
    <3>1. << >> \in Seq({})
      OBVIOUS
    <3>2. console' = console \/ console' = << >>
      BY <1>6 DEF SaveRejected, Dismiss
    <3> QED
      BY <1>1, <3>1, <3>2
  <2> QED
    BY <1>1, <1>2, <1>6, <2>1 DEF SaveRejected, Dismiss, With
<1>7. CASE Redispatch
  BY <1>1, <1>2, <1>7, DispatchStep DEF Redispatch
<1>8. CASE AbortRun
  <2>1. state' \in EngineStates /\ state' # "ERROR_PAUSED"
    BY <1>1, <1>8, FireInStates, Resumes DEF AbortRun
  <2>2. phaseOf' \in [Tasks -> PhaseStates]
    BY <1>1, <1>8 DEF AbortRun, PhaseStates
  <2> QED
    BY <1>1, <1>2, <1>8, <2>1, <2>2 DEF AbortRun
<1>9. ASSUME NEW p \in Tasks, Passed(p) PROVE FailuresInv'
  <2>1. phaseOf' \in [Tasks -> PhaseStates]
        /\ (\A q \in Tasks : phaseOf'[q].status = IF q = p THEN "completed" ELSE phaseOf[q].status)
    BY <1>1, <1>9 DEF Passed, PhaseStates
  <2>2. state' \in EngineStates
    BY <1>1, <1>9, FireInStates DEF Passed, FireBoth
  <2>3. state' = "ERROR_PAUSED" => With("running")' = {}
    BY <1>1, <1>9, <2>1 DEF Passed, Ends, Alone, With
  <2> QED
    BY <1>1, <1>2, <1>9, <2>1, <2>2, <2>3 DEF Passed
<1>10. ASSUME NEW p \in Tasks, NEW status \in {"pending", "failed"}, Ends(p), Counted(p, status),
             console' = console, state' \in EngineStates, ~Alone(p) => state' = state
      PROVE  FailuresInv'
  <2>1. phaseOf' \in [Tasks -> PhaseStates]
        /\ (\A q \in Tasks : phaseOf'[q].status = IF q = p THEN status ELSE phaseOf[q].status)
    BY <1>1, <1>10 DEF Counted, PhaseStates
  <2>2. state' = "ERROR_PAUSED" => With("running")' = {}
    BY <1>1, <1>10, <2>1 DEF Ends, Alone, With
  <2> QED
    BY <1>1, <1>2, <1>10, <2>1, <2>2
<1>11. ASSUME NEW p \in Tasks, Rejected(p) PROVE FailuresInv'
  <2>1. state' \in EngineStates
    BY <1>1, <1>11, FireInStates DEF Rejected, FireBoth
  <2> QED
    BY <1>10, <1>11, <2>1 DEF Rejected
<1>12. ASSUME NEW p \in Tasks, NEW code, WorkerFails(p, code) PROVE FailuresInv'
  <2>1. state' \in EngineStates
    BY <1>1, <1>12, FireInStates DEF WorkerFails
  <2> QED
    BY <1>10, <1>12, <2>1 DEF WorkerFails
<1>13. ASSUME NEW p \in Tasks, HealFires(p) PROVE FailuresInv'
  BY <1>1, <1>3, <1>13, FireInStates, RetryResumes DEF HealFires
<1>14. ASSUME NEW p \in Tasks, RetryPhase(p) PROVE FailuresInv'
  <2>1. state' \in EngineStates /\ state' # "ERROR_PAUSED"
    BY <1>1, <1>14, FireInStates, Resumes DEF RetryPhase
  <2>2. phaseOf' \in [Tasks -> PhaseStates]
    BY <1>1, <1>14 DEF RetryPhase, SetStatus, PhaseStates
  <2> QED
    BY <1>1, <1>2, <1>14, <2>1, <2>2 DEF RetryPhase
<1>15. ASSUME NEW p \in Tasks, RestartFailed(p) PROVE FailuresInv'
  <2>1. state' \in EngineStates /\ state' # "ERROR_PAUSED"
    <3>1. CASE state = "EXECUTING_WORKER" /\ UNCHANGED state
      BY <1>1, <3>1
    <3>2. CASE state = "ERROR_PAUSED" /\ state' = Fire(state, "RETRY")
      BY <3>2, RetryResumes DEF EngineStates
    <3>3. CASE state \in {"IDLE", "READY"} /\ state' = Fire(state, "START")
      BY <1>1, <3>3, FireInStates, Resumes
    <3> QED
      BY <1>15, <3>1, <3>2, <3>3 DEF RestartFailed
  <2>2. phaseOf' \in [Tasks -> PhaseStates]
    BY <1>1, <1>15 DEF RestartFailed, PhaseStates
  <2> QED
    BY <1>1, <1>2, <1>15, <2>1, <2>2 DEF RestartFailed
<1>16. ASSUME NEW p \in Tasks, Skip(p) PROVE FailuresInv'
  <2>1. state' \in EngineStates /\ state' # "ERROR_PAUSED"
    BY <1>1, <1>16, FireInStates, Resumes DEF Skip
  <2>2. phaseOf' \in [Tasks -> PhaseStates]
    BY <1>1, <1>16 DEF Skip, SetStatus, PhaseStates
  <2> QED
    BY <1>1, <1>2, <1>16, <2>1, <2>2 DEF Skip
<1>17. CASE UNCHANGED failureVars
  BY <1>1, <1>3, <1>17 DEF failureVars
<1> QED
  BY <1>4, <1>5, <1>6, <1>7, <1>8, <1>9, <1>11, <1>12, <1>13, <1>14, <1>15, <1>16, <1>17 DEF FailuresNext

\* A record offers Retry only when it is built with the engine paused.
LEMMA OfferNeedsPause ==
  ASSUME NEW p, NEW code, Offers(BuildRecord(p, code), "retry")
  PROVE  state = "ERROR_PAUSED"
  BY DEF Offers, BuildRecord, Assemble, FilterSuggestions, Legal, LegalityContext

\* What is new on the console is the record that was just built.
LEMMA NewRecordIsBuilt ==
  ASSUME NEW p, NEW code, Report(p, code), \E S : console \in Seq(S),
         NEW i \in DOMAIN console' \ DOMAIN console
  PROVE  console'[i] = BuildRecord(p, code)
<1>1. PICK S : console \in Seq(S)
  OBVIOUS
<1> DEFINE r == BuildRecord(p, code)
<1>2. console' = Append(console, r)
  BY DEF Report, Received
<1> HIDE DEF r
<1>3. console \in Seq(S \cup {r})
  BY <1>1
<1>4. console'[i] = r
  BY <1>2, <1>3
<1> QED
  BY <1>4 DEF r

\* The code behaviour: the record is built after the save, and RecoveryActionRouter judges
\* its actions by the engine as it is then.
THEOREM OfferedRetryHolds == FailuresSpec => OfferedRetryIsTaken
<1>1. FailuresInit => FailuresInv
  <2> SUFFICES ASSUME FailuresInit PROVE FailuresInv
    OBVIOUS
  <2>1. phaseOf \in [Tasks -> PhaseStates] /\ state = "EXECUTING_WORKER" /\ console \in Seq({})
    BY DEF FailuresInit, PhaseStates
  <2> QED
    BY <2>1 DEF FailuresInv, FailuresTypeOK, PausedIsStill, EngineStates
<1>2. FailuresInv /\ [FailuresNext]_failureVars =>
        [\A r \in {console'[i] : i \in DOMAIN console' \ DOMAIN console} :
           Offers(r, "retry") =>
             /\ Accepts(state, "RETRY")
             /\ With("running") = {}]_failureVars
  <2> SUFFICES ASSUME FailuresInv, FailuresNext, NEW i \in DOMAIN console' \ DOMAIN console,
                      Offers(console'[i], "retry")
               PROVE  Accepts(state, "RETRY") /\ With("running") = {}
    OBVIOUS
  <2>1. console' # console
    OBVIOUS
  <2>2. CASE Dismiss
    BY <2>2 DEF Dismiss
  <2>3. CASE Saved
    <3>1. PICK p, code : Report(p, code)
      BY <2>1, <2>3 DEF Saved
    <3>2. console'[i] = BuildRecord(p, code)
      BY <3>1, NewRecordIsBuilt DEF FailuresInv, FailuresTypeOK
    <3>3. state = "ERROR_PAUSED"
      BY <3>2, OfferNeedsPause
    <3> QED
      BY <3>3, RetryResumes DEF FailuresInv, PausedIsStill
  <2> QED
    BY <2>1, <2>2, <2>3 DEF FailuresNext, SkipSaved, SaveRejected, Redispatch, AbortRun, Passed, Rejected,
       HealFires, RetryPhase, RestartFailed, Skip, WorkerFails
<1> QED
  BY <1>1, <1>2, FailuresStep, PTL DEF FailuresSpec, OfferedRetryIsTaken

-----------------------------------------------------------------------------
(* The types of the panel                                                  *)

\* The types of the panel's data, by name.
HostStates == {"IDLE", "PLANNING", "PLAN_REVIEW", "PARSING", "READY", "EXECUTING_WORKER", "COMPLETED"}
Ids == [session : Sessions, phase : PhaseIds, run : 0..MaxRuns]
Entries == [status : {"pending", "running", "completed"}, id : Ids \cup {NoId}]
Partly(R) == UNION {[S -> R] : S \in SUBSET PhaseIds}
Books == [PhaseIds -> Entries] \cup {NoBook}
Names == Sessions \cup {NoTask}
Snapshots == [type : {"snapshot"}, task : Names, state : HostStates, phases : Books]
StatusMessages == [type : {"status"}, phase : PhaseIds, status : {"running", "completed"}]
OpenViews == [open : {TRUE}, task : Names, state : HostStates, phases : Books,
              selected : PhaseIds \cup {NoPhase}, byUser : BOOLEAN]
Requests == (Nat \ {0}) \X PhaseIds
Fetches == [request : Requests, task : Sessions, id : Ids]
Resources == [task : Sessions, id : Ids, request : Requests \cup {NoRequest},
              loading : BOOLEAN, data : SUBSET (Sessions \X Ids)]

\* The types of the host's side.
HostTypeOK ==
  /\ host \in HostStates
  /\ opened \in [session : Sessions, book : Books]
  /\ saved \in [Sessions -> Books]
  /\ handoffs \in SUBSET (Sessions \X (Ids \cup {NoId}))
  /\ approved \in [Sessions -> 0..MaxRuns]
  /\ moves \in 0..MaxMoves

\* The types of the webview's side, and of what is on its way.
ViewTypeOK ==
  /\ inbox \in Seq(Snapshots \cup StatusMessages)
  /\ asked \in SUBSET Fetches /\ IsFiniteSet(asked)
  /\ view \in OpenViews \cup {Closed}
  /\ stores \in Partly(Resources)

\* The type invariant of Panel.
PanelTypeOK == HostTypeOK /\ ViewTypeOK

\* A function on some of the phases is one of Partly.
LEMMA PartlyHas ==
  ASSUME NEW R, NEW S \in SUBSET PhaseIds, NEW f \in [S -> R]
  PROVE  f \in Partly(R)
BY DEF Partly

\* What such a function is.
LEMMA PartlyIs ==
  ASSUME NEW R, NEW f \in Partly(R)
  PROVE  DOMAIN f \in SUBSET PhaseIds /\ f \in [DOMAIN f -> R] /\ \A p \in DOMAIN f : f[p] \in R
BY DEF Partly

\* The empty function is one.
LEMMA NothingIsPartly ==
  ASSUME NEW R
  PROVE  << >> \in Partly(R) /\ DOMAIN << >> = {}
<1>1. << >> \in [{} -> R] /\ DOMAIN << >> = {}
  OBVIOUS
<1> QED
  BY <1>1, PartlyHas

\* A book gives each of its phases a status and an id.
LEMMA BookIs ==
  ASSUME NEW b \in Books
  PROVE  DOMAIN b \in SUBSET PhaseIds /\ b \in [DOMAIN b -> Entries] /\ \A p \in DOMAIN b : b[p] \in Entries
<1>1. << >> \in [{} -> Entries] /\ DOMAIN << >> = {}
  OBVIOUS
<1> QED
  BY <1>1 DEF Books, NoBook

\* What does so for the phases of a book is a book.
LEMMA BookLike ==
  ASSUME NEW b \in Books, NEW f \in [DOMAIN b -> Entries]
  PROVE  f \in Books
<1>1. << >> \in [{} -> Entries] /\ DOMAIN << >> = {}
  OBVIOUS
<1>2. CASE b = << >>
  <2>1. f \in [{} -> Entries]
    BY <1>1, <1>2
  <2> QED
    BY <1>1, <2>1 DEF Books, NoBook
<1> QED
  BY <1>2 DEF Books, NoBook

\* A snapshot leaves the webview in a state of its type (mergeState of vscode.svelte.ts).
LEMMA MergedIsView ==
  ASSUME NEW v \in OpenViews, NEW m \in Snapshots
  PROVE  Merged(v, m) \in OpenViews
<1> DEFINE kept == [p \in DOMAIN m.phases |->
              IF p \in DOMAIN v.phases /\ v.phases[p].id # NoId
              THEN [m.phases[p] EXCEPT !.id = v.phases[p].id]
              ELSE m.phases[p]]
           phases == IF SessionChanged(v, m) THEN m.phases ELSE kept
           task == IF m.task # NoTask THEN m.task ELSE v.task
<1>1. m.phases \in Books /\ v.phases \in Books /\ task \in Names /\ m.state \in HostStates
  BY DEF Snapshots, OpenViews
<1>2. kept \in Books
  <2>1. ASSUME NEW p \in DOMAIN m.phases PROVE kept[p] \in Entries
    <3>1. m.phases[p] \in Entries
      BY <1>1, BookIs
    <3>2. ASSUME p \in DOMAIN v.phases, v.phases[p].id # NoId
          PROVE [m.phases[p] EXCEPT !.id = v.phases[p].id] \in Entries
      <4>1. v.phases[p] \in Entries
        BY <1>1, <3>2, BookIs
      <4> QED
        BY <3>1, <4>1 DEF Entries
    <3> QED
      BY <3>1, <3>2
  <2>2. DOMAIN m.phases \in SUBSET PhaseIds
    BY <1>1, BookIs
  <2>3. kept \in [DOMAIN m.phases -> Entries]
    BY <2>1
  <2> HIDE DEF kept
  <2> QED
    BY <1>1, <2>3, BookLike
<1>3. phases \in Books
  BY <1>1, <1>2
<1>4. Merged(v, m) = [v EXCEPT !.state = m.state, !.task = task, !.phases = phases]
  BY DEF Merged
<1> HIDE DEF phases, task
<1> QED
  BY <1>1, <1>3, <1>4 DEF OpenViews

\* A phase's status changes neither the session, nor the state, nor an id.
LEMMA WithStatusIsView ==
  ASSUME NEW v \in OpenViews, NEW m \in StatusMessages
  PROVE  /\ WithStatus(v, m) \in OpenViews
         /\ WithStatus(v, m).task = v.task /\ WithStatus(v, m).state = v.state
         /\ DOMAIN WithStatus(v, m).phases = DOMAIN v.phases
         /\ \A p \in DOMAIN v.phases : WithStatus(v, m).phases[p].id = v.phases[p].id
<1>1. CASE m.phase \notin DOMAIN v.phases
  BY <1>1 DEF WithStatus
<1>2. CASE m.phase \in DOMAIN v.phases
  <2> DEFINE phases == [v.phases EXCEPT ![m.phase] = [@ EXCEPT !.status = m.status]]
  <2>1. v.phases \in Books /\ m.status \in {"running", "completed"}
    BY DEF OpenViews, StatusMessages
  <2>2. v.phases \in [DOMAIN v.phases -> Entries] /\ DOMAIN v.phases \in SUBSET PhaseIds
    BY <2>1, BookIs
  <2>3. phases \in [DOMAIN v.phases -> Entries] /\ \A p \in DOMAIN v.phases : phases[p].id = v.phases[p].id
    BY <1>2, <2>1, <2>2 DEF Entries
  <2>4. phases \in Books
    BY <2>1, <2>3, BookLike
  <2>5. WithStatus(v, m) = [v EXCEPT !.phases = phases]
    BY <1>2 DEF WithStatus
  <2> HIDE DEF phases
  <2>6. [v EXCEPT !.phases = phases] \in OpenViews
    BY <2>4 DEF OpenViews
  <2> QED
    BY <2>3, <2>5, <2>6 DEF OpenViews
<1> QED
  BY <1>1, <1>2

\* The phase that is selected for the user is one of those shown.
LEMMA TargetIsPhase ==
  ASSUME NEW v \in OpenViews, v.phases # NoBook
  PROVE  Target(v) \in PhaseIds
<1> DEFINE with(status) == {p \in DOMAIN v.phases : v.phases[p].status = status}
           least(S) == CHOOSE p \in S : \A q \in S : p <= q
<1>1. v.phases \in Books
  BY DEF OpenViews
<1>2. DOMAIN v.phases \in SUBSET PhaseIds /\ v.phases \in [DOMAIN v.phases -> Entries]
  BY <1>1, BookIs
<1>3. DOMAIN v.phases # {}
  <2> SUFFICES ASSUME DOMAIN v.phases = {} PROVE FALSE
    OBVIOUS
  <2>1. << >> \in [{} -> Entries]
    OBVIOUS
  <2>2. v.phases = << >>
    BY <1>2, <2>1
  <2> QED
    BY <2>2 DEF NoBook
<1>4. ASSUME NEW S \in SUBSET PhaseIds, S # {} PROVE least(S) \in PhaseIds
  <2>1. S \in SUBSET Nat
    BY PanelAssumption
  <2>2. \E p \in S : \A q \in S : p <= q
    BY <1>4, <2>1, LeastExists
  <2> QED
    BY <2>2
<1>5. Target(v) = IF with("running") # {} THEN least(with("running"))
      ELSE IF with("pending") # {} THEN least(with("pending"))
      ELSE least(DOMAIN v.phases)
  BY DEF Target
<1>6. with("running") \in SUBSET PhaseIds /\ with("pending") \in SUBSET PhaseIds
  BY <1>2
<1> HIDE DEF with, least
<1> QED
  BY <1>2, <1>3, <1>4, <1>5, <1>6

\* Selecting a phase changes nothing else.
LEMMA SelectingIsView ==
  ASSUME NEW v \in OpenViews
  PROVE  /\ Selecting(v) \in OpenViews
         /\ Selecting(v).task = v.task /\ Selecting(v).state = v.state
         /\ Selecting(v).phases = v.phases /\ Selecting(v).open
<1>1. CASE v.byUser \/ v.phases = NoBook
  BY <1>1 DEF Selecting, OpenViews
<1>2. CASE ~(v.byUser \/ v.phases = NoBook)
  <2>1. Target(v) \in PhaseIds
    BY <1>2, TargetIsPhase
  <2>2. Selecting(v) = [v EXCEPT !.selected = Target(v)]
    BY <1>2 DEF Selecting
  <2> QED
    BY <2>1, <2>2 DEF OpenViews
<1> QED
  BY <1>1, <1>2

\* There is a number that no open request has: those of the requests are finitely many.
LEMMA FreshIsNew ==
  ASSUME ViewTypeOK
  PROVE  Fresh \in Nat \ {0} /\ Fresh \notin InUse
<1> DEFINE A == {a.request[1] : a \in asked}
           B == {stores[p].request[1] : p \in DOMAIN stores}
           k == Cardinality(InUse)
<1>1. IsFiniteSet(A)
  <2>1. [a \in asked |-> a.request[1]] \in Surjection(asked, A)
    BY DEF Surjection
  <2> QED
    BY <2>1, FS_Surjection DEF ViewTypeOK
<1>2. IsFiniteSet(DOMAIN stores)
  BY PartlyIs, PanelAssumption, FS_Subset DEF ViewTypeOK
<1>3. IsFiniteSet(B)
  <2>1. [p \in DOMAIN stores |-> stores[p].request[1]] \in Surjection(DOMAIN stores, B)
    BY DEF Surjection
  <2> QED
    BY <1>2, <2>1, FS_Surjection
<1>4. IsFiniteSet(InUse)
  BY <1>1, <1>3, FS_Union DEF InUse
<1>5. k \in Nat
  BY <1>4, FS_CardinalityType
<1>6. IsFiniteSet(1..(k + 1)) /\ Cardinality(1..(k + 1)) = k + 1
  BY <1>5, FS_Interval
<1>7. \E n \in 1..(k + 1) : n \notin InUse
  <2> SUFFICES ASSUME \A n \in 1..(k + 1) : n \in InUse PROVE FALSE
    OBVIOUS
  <2>1. 1..(k + 1) \subseteq InUse
    OBVIOUS
  <2>2. Cardinality(1..(k + 1)) <= k
    BY <1>4, <2>1, FS_Subset
  <2> QED
    BY <1>5, <1>6, <2>2
<1>8. Fresh \in 1..(k + 1) /\ Fresh \notin InUse
  BY <1>7 DEF Fresh
<1> QED
  BY <1>5, <1>8

\* The resources asked for are those of completed phases, each with a request of its own.
LEMMA FetchingIsPartly ==
  ASSUME NEW v \in OpenViews, ViewTypeOK
  PROVE  /\ Fetching(v) \in Partly(Resources)
         /\ \A p \in DOMAIN Fetching(v) :
              /\ Chosen(v) /\ p \in DOMAIN v.phases
              /\ Fetching(v)[p].task = v.task /\ Fetching(v)[p].id = v.phases[p].id
              /\ Fetching(v)[p].request = <<Fresh, p>> /\ Fetching(v)[p].data = {}
<1>1. v.phases \in Books /\ v.task \in Names
  BY DEF OpenViews
<1>2. DOMAIN v.phases \in SUBSET PhaseIds /\ v.phases \in [DOMAIN v.phases -> Entries]
  BY <1>1, BookIs
<1>3. Wanted(v) \in SUBSET DOMAIN v.phases
  BY DEF Wanted, Fetchable
<1>4. ASSUME NEW p \in Wanted(v)
      PROVE  /\ Chosen(v) /\ v.task \in Sessions /\ v.phases[p].id \in Ids
             /\ Fetching(v)[p] \in Resources
  <2>1. Chosen(v) /\ v.task # NoTask /\ v.phases[p].id # NoId
    BY <1>4 DEF Wanted, Fetchable
  <2>2. v.task \in Sessions
    BY <1>1, <2>1 DEF Names
  <2>3. v.phases[p].id \in Ids
    BY <1>2, <1>3, <2>1 DEF Entries
  <2>4. <<Fresh, p>> \in Requests
    BY <1>2, <1>3, FreshIsNew DEF Requests
  <2>5. Fetching(v)[p] = [task |-> v.task, id |-> v.phases[p].id, request |-> <<Fresh, p>>,
      loading |-> TRUE, data |-> {}]
    BY DEF Fetching
  <2>6. Fetching(v)[p] \in Resources
    BY <2>2, <2>3, <2>4, <2>5 DEF Resources
  <2> QED
    BY <2>1, <2>2, <2>3, <2>6
<1>5. Fetching(v) \in [Wanted(v) -> Resources]
  BY <1>4 DEF Fetching
<1>6. Fetching(v) \in Partly(Resources)
  BY <1>2, <1>3, <1>5, PartlyHas
<1>7. ASSUME NEW p \in DOMAIN Fetching(v)
      PROVE   /\ Chosen(v) /\ p \in DOMAIN v.phases
              /\ Fetching(v)[p].task = v.task /\ Fetching(v)[p].id = v.phases[p].id
              /\ Fetching(v)[p].request = <<Fresh, p>> /\ Fetching(v)[p].data = {}
  <2>1. p \in Wanted(v)
    BY <1>7 DEF Fetching
  <2> QED
    BY <1>3, <1>4, <2>1 DEF Fetching
<1> QED
  BY <1>6, <1>7

-----------------------------------------------------------------------------
(* The resources and their requests                                        *)

\* What a resource shows is its own, and it takes the answer of its own request.
OwnAnswers ==
  /\ \A p \in DOMAIN stores : stores[p].data \subseteq {<<stores[p].task, stores[p].id>>}
  /\ \A p \in DOMAIN stores, a \in asked :
       stores[p].request = a.request => stores[p].task = a.task /\ stores[p].id = a.id

\* The resources are those of the phase chosen in the session shown.
ShownNow ==
  \A p \in DOMAIN stores :
    /\ Chosen(view)
    /\ stores[p].task = view.task
    /\ p = view.selected => stores[p].id = view.phases[p].id

\* What the effects do to the view.
LEMMA RendersView ==
  ASSUME NEW v \in OpenViews, Renders(v)
  PROVE  /\ view' \in OpenViews
         /\ view'.task = v.task /\ view'.state = v.state /\ view'.phases = v.phases /\ view'.open
BY SelectingIsView DEF Renders

\* What the effects do to the resources and to the fetches under way.
LEMMA RendersTypes ==
  ASSUME ViewTypeOK, NEW v \in OpenViews, Renders(v)
  PROVE  stores' \in Partly(Resources) /\ asked' \in SUBSET Fetches /\ IsFiniteSet(asked')
<1> DEFINE next == Selecting(v)
           new == {[request |-> stores'[p].request, task |-> stores'[p].task, id |-> stores'[p].id] :
                     p \in DOMAIN stores'}
<1>1. CASE Key(next) = Key(view)
  BY <1>1 DEF Renders, ViewTypeOK
<1>2. CASE Key(next) # Key(view)
  <2>1. next \in OpenViews
    BY SelectingIsView
  <2>2. stores' = Fetching(next) /\ asked' = asked \cup new
    BY <1>2 DEF Renders
  <2> HIDE DEF next
  <2>3. stores' \in Partly(Resources)
    BY <2>1, <2>2, FetchingIsPartly
  <2>4. IsFiniteSet(DOMAIN stores')
    BY <2>3, PartlyIs, PanelAssumption, FS_Subset
  <2>5. [p \in DOMAIN stores' |-> [request |-> stores'[p].request, task |-> stores'[p].task, id |-> stores'[p].id]]
          \in Surjection(DOMAIN stores', new)
    BY DEF Surjection
  <2>6. IsFiniteSet(new)
    BY <2>4, <2>5, FS_Surjection
  <2>7. ASSUME NEW p \in DOMAIN stores'
        PROVE  [request |-> stores'[p].request, task |-> stores'[p].task, id |-> stores'[p].id] \in Fetches
    <3>1. stores'[p].request = <<Fresh, p>> /\ p \in PhaseIds /\ stores'[p] \in Resources
      BY <2>1, <2>2, <2>3, <2>7, FetchingIsPartly, PartlyIs
    <3>2. stores'[p].request \in Requests
      BY <3>1, FreshIsNew DEF Requests
    <3> QED
      BY <3>1, <3>2 DEF Fetches, Resources
  <2>8. new \in SUBSET Fetches
    BY <2>7
  <2> HIDE DEF new
  <2>9. IsFiniteSet(asked')
    BY <2>2, <2>6, FS_Union DEF ViewTypeOK
  <2> QED
    BY <2>2, <2>3, <2>8, <2>9 DEF ViewTypeOK
<1> QED
  BY <1>1, <1>2

\* PhaseDetails keeps its resources only if phase, entry and session are the same.
LEMMA SameKey ==
  ASSUME NEW v, NEW w, Chosen(v), Key(w) = Key(v)
  PROVE  /\ Chosen(w) /\ w.task = v.task /\ w.selected = v.selected
         /\ w.phases[w.selected] = v.phases[v.selected]
<1>1. Key(v) = <<v.selected, v.phases[v.selected], v.task>> /\ Len(Key(v)) = 3
  BY DEF Key
<1>2. Chosen(w)
  <2> SUFFICES ASSUME ~Chosen(w) PROVE FALSE
    OBVIOUS
  <2>1. Key(w) = <<w.task>> \/ Key(w) = << >>
    BY DEF Key
  <2>2. Len(Key(w)) = 1 \/ Len(Key(w)) = 0
    BY <2>1
  <2> QED
    BY <1>1, <2>2
<1>3. Key(w) = <<w.selected, w.phases[w.selected], w.task>>
  BY <1>2 DEF Key
<1> QED
  BY <1>1, <1>2, <1>3

\* The effects keep the resources those of what is shown.
LEMMA RendersFetches ==
  ASSUME ViewTypeOK, OwnAnswers, ShownNow, NEW v \in OpenViews, Renders(v)
  PROVE  OwnAnswers' /\ ShownNow'
<1> DEFINE next == Selecting(v)
           new == {[request |-> stores'[p].request, task |-> stores'[p].task, id |-> stores'[p].id] :
                     p \in DOMAIN stores'}
<1>1. view' = next /\ next \in OpenViews
  BY SelectingIsView DEF Renders
<1> HIDE DEF next
<1>2. CASE Key(next) = Key(view)
  <2>1. UNCHANGED <<stores, asked>>
    BY <1>2 DEF Renders, next
  <2>2. OwnAnswers'
    BY <2>1 DEF OwnAnswers
  <2>3. ASSUME NEW p \in DOMAIN stores
        PROVE  Chosen(view') /\ stores[p].task = view'.task /\ (p = view'.selected => stores[p].id = view'.phases[p].id)
    <3>1. Chosen(view)
      BY <2>3 DEF ShownNow
    <3>2. /\ Chosen(view') /\ view'.task = view.task /\ view'.selected = view.selected
          /\ view'.phases[view'.selected] = view.phases[view.selected]
      BY <1>1, <1>2, <3>1, SameKey
    <3> QED
      BY <2>3, <3>2 DEF ShownNow
  <2>4. ShownNow'
    BY <2>1, <2>3 DEF ShownNow, Chosen
  <2> QED
    BY <2>2, <2>4
<1>3. CASE Key(next) # Key(view)
  <2>1. stores' = Fetching(next) /\ asked' = asked \cup new
    BY <1>3 DEF Renders, next
  <2>2. \A p \in DOMAIN stores' :
              /\ Chosen(next) /\ p \in DOMAIN next.phases
              /\ stores'[p].task = next.task /\ stores'[p].id = next.phases[p].id
              /\ stores'[p].request = <<Fresh, p>> /\ stores'[p].data = {}
    BY <1>1, <2>1, FetchingIsPartly
  <2>3. ShownNow'
    BY <1>1, <2>2 DEF ShownNow, Chosen
  <2>4. ASSUME NEW p \in DOMAIN stores', NEW a \in asked', stores'[p].request = a.request
        PROVE  stores'[p].task = a.task /\ stores'[p].id = a.id
    <3>1. CASE a \in asked
      <4>1. a.request[1] \in InUse
        BY <3>1 DEF InUse
      <4>2. a.request[1] = Fresh
        BY <2>2, <2>4
      <4> QED
        BY <4>1, <4>2, FreshIsNew
    <3>2. CASE a \in new
      <4>1. PICK q \in DOMAIN stores' :
               a = [request |-> stores'[q].request, task |-> stores'[q].task, id |-> stores'[q].id]
        BY <3>2
      <4>2. <<Fresh, p>> = <<Fresh, q>>
        BY <2>2, <2>4, <4>1
      <4> QED
        BY <4>1, <4>2
    <3> QED
      BY <2>1, <3>1, <3>2
  <2>5. OwnAnswers'
    BY <2>2, <2>4 DEF OwnAnswers
  <2> QED
    BY <2>3, <2>5
<1> QED
  BY <1>2, <1>3

-----------------------------------------------------------------------------
(* The messages on their way                                               *)

\* The phases of a book have ids of one session.
OfSession(book, s) == \A p \in DOMAIN book : book[p].id # NoId => book[p].id.session = s

\* Runbooks have ids of their own session.
HostClean == OfSession(opened.book, opened.session) /\ \A s \in Sessions : OfSession(saved[s], s)

\* The messages, and those that name a session.
Messages == Snapshots \cup StatusMessages
Named(m) == m.type = "snapshot" /\ m.task # NoTask

\* A message that leaves a view of another session than s with its own ids only.
Mends(m, s) == Named(m) /\ m.task # s /\ OfSession(m.phases, m.task)

\* A message whose ids are not of the session it names has one behind it that mends the view.
Mended(q) ==
  \A i \in 1..Len(q) :
    Named(q[i]) /\ ~OfSession(q[i].phases, q[i].task) => i < Len(q) /\ Mends(q[i + 1], q[i].task)

\* The panel shows ids of the session it names, or the next message mends it.
ViewMends ==
  view.open => \/ OfSession(view.phases, view.task)
               \/ inbox # << >> /\ Mends(inbox[1], view.task)

\* A message that leaves the view with session s running.
KeepsRunning(m, s) ==
  m.type = "snapshot" => m.state = "EXECUTING_WORKER" /\ m.task \in {s, NoTask}

\* The view shows session s running when it comes to message i.
RunsAt(i, s) ==
  \/ /\ view.open /\ view.task = s /\ view.state = "EXECUTING_WORKER"
     /\ \A k \in 1..(i - 1) : KeepsRunning(inbox[k], s)
  \/ \E j \in 1..(i - 1) :
       /\ inbox[j].type = "snapshot" /\ inbox[j].task = s /\ inbox[j].state = "EXECUTING_WORKER"
       /\ \A k \in (j + 1)..(i - 1) : KeepsRunning(inbox[k], s)

\* A message without a name meets a view that shows the running session it is about.
UnnamedFit ==
  \A i \in 1..Len(inbox) :
    inbox[i].type = "snapshot" /\ inbox[i].task = NoTask =>
      \A p \in DOMAIN inbox[i].phases :
        inbox[i].phases[p].id # NoId => RunsAt(i, inbox[i].phases[p].id.session)

\* While the engine runs, the panel, once it has read all, shows the open session running.
HostHeard ==
  view.open /\ host = "EXECUTING_WORKER" => RunsAt(Len(inbox) + 1, opened.session)

\* No message is on its way to a closed panel.
ClosedIsEmpty == ~view.open => inbox = << >>

\* The invariant of the messages.
MessageInv == Mended(inbox) /\ ViewMends /\ UnnamedFit /\ ClosedIsEmpty

\* What is appended leaves the messages before it as they are.
LEMMA Appending ==
  ASSUME NEW msgs \in Seq(Messages), inbox \in Seq(Messages), inbox' = inbox \o msgs
  PROVE  /\ Len(inbox) \in Nat /\ Len(msgs) \in Nat /\ Len(inbox') = Len(inbox) + Len(msgs)
         /\ \A i \in 1..Len(inbox) : inbox'[i] = inbox[i]
         /\ \A i \in 1..Len(msgs) : inbox'[Len(inbox) + i] = msgs[i]
OBVIOUS

\* Messages that are appended change nothing about those before, nor does a view that was
\* not showing a run.
LEMMA RunsStay ==
  ASSUME NEW msgs \in Seq(Messages), inbox \in Seq(Messages), inbox' = inbox \o msgs,
         view' = view \/ view.state # "EXECUTING_WORKER",
         NEW i \in 1..(Len(inbox) + 1), NEW s, RunsAt(i, s)
  PROVE  RunsAt(i, s)'
<1>1. /\ Len(inbox) \in Nat
      /\ \A k \in 1..Len(inbox) : inbox'[k] = inbox[k]
  BY Appending
<1>2. CASE /\ view.open /\ view.task = s /\ view.state = "EXECUTING_WORKER"
           /\ \A k \in 1..(i - 1) : KeepsRunning(inbox[k], s)
  <2>1. \A k \in 1..(i - 1) : KeepsRunning(inbox'[k], s)
    BY <1>1, <1>2
  <2>2. view' = view
    BY <1>2
  <2> QED
    BY <1>2, <2>1, <2>2 DEF RunsAt
<1>3. ASSUME NEW j \in 1..(i - 1),
             inbox[j].type = "snapshot" /\ inbox[j].task = s /\ inbox[j].state = "EXECUTING_WORKER",
             \A k \in (j + 1)..(i - 1) : KeepsRunning(inbox[k], s)
      PROVE  RunsAt(i, s)'
  <2>1. inbox'[j] = inbox[j] /\ \A k \in (j + 1)..(i - 1) : KeepsRunning(inbox'[k], s)
    BY <1>1, <1>3
  <2> QED
    BY <1>3, <2>1 DEF RunsAt
<1> QED
  BY <1>2, <1>3 DEF RunsAt

\* A session that runs at the end of the inbox runs on through messages that keep it so.
LEMMA RunsThrough ==
  ASSUME NEW msgs \in Seq(Messages), inbox \in Seq(Messages), inbox' = inbox \o msgs, view' = view,
         NEW s, RunsAt(Len(inbox) + 1, s), NEW l \in Nat, l = Len(inbox), NEW n \in 0..Len(msgs),
         \A k \in 1..n : KeepsRunning(msgs[k], s)
  PROVE  RunsAt(l + n + 1, s)'
<1>1. /\ Len(inbox) \in Nat /\ Len(msgs) \in Nat
      /\ \A k \in 1..Len(inbox) : inbox'[k] = inbox[k]
      /\ \A k \in 1..Len(msgs) : inbox'[Len(inbox) + k] = msgs[k]
  BY Appending
<1>2. \A k \in (Len(inbox) + 1)..(Len(inbox) + n) : KeepsRunning(inbox'[k], s)
  <2> TAKE k \in (Len(inbox) + 1)..(Len(inbox) + n)
  <2>1. k - Len(inbox) \in 1..n /\ Len(inbox) + (k - Len(inbox)) = k
    BY <1>1
  <2> QED
    BY <1>1, <2>1
<1>3. CASE /\ view.open /\ view.task = s /\ view.state = "EXECUTING_WORKER"
           /\ \A k \in 1..Len(inbox) : KeepsRunning(inbox[k], s)
  <2>1. \A k \in 1..(Len(inbox) + n) : KeepsRunning(inbox'[k], s)
    BY <1>1, <1>2, <1>3
  <2>2. l + n + 1 - 1 = Len(inbox) + n
    BY <1>1
  <2> QED
    BY <1>3, <2>1, <2>2 DEF RunsAt
<1>4. ASSUME NEW j \in 1..Len(inbox),
             inbox[j].type = "snapshot" /\ inbox[j].task = s /\ inbox[j].state = "EXECUTING_WORKER",
             \A k \in (j + 1)..Len(inbox) : KeepsRunning(inbox[k], s)
      PROVE  RunsAt(l + n + 1, s)'
  <2>1. inbox'[j] = inbox[j] /\ \A k \in (j + 1)..(Len(inbox) + n) : KeepsRunning(inbox'[k], s)
    BY <1>1, <1>2, <1>4
  <2>2. l + n + 1 - 1 = Len(inbox) + n /\ j \in 1..(Len(inbox) + n)
    BY <1>1
  <2> QED
    BY <1>4, <2>1, <2>2 DEF RunsAt
<1>5. Len(inbox) + 1 - 1 = Len(inbox)
  BY <1>1
<1>6. \/ /\ view.open /\ view.task = s /\ view.state = "EXECUTING_WORKER"
         /\ \A k \in 1..Len(inbox) : KeepsRunning(inbox[k], s)
      \/ \E j \in 1..Len(inbox) :
           /\ inbox[j].type = "snapshot" /\ inbox[j].task = s /\ inbox[j].state = "EXECUTING_WORKER"
           /\ \A k \in (j + 1)..Len(inbox) : KeepsRunning(inbox[k], s)
  <2> DEFINE m == Len(inbox) + 1
  <2>1. RunsAt(m, s) /\ m - 1 = Len(inbox)
    BY <1>5
  <2> HIDE DEF m
  <2> QED
    BY <2>1 DEF RunsAt
<1> QED
  BY <1>3, <1>4, <1>6

\* A view that shows a running session is not taken aback by another of the same state.
LEMMA SameRuns ==
  ASSUME view'.open = view.open, view'.task = view.task, view'.state = view.state, inbox' = inbox,
         NEW i, NEW s, RunsAt(i, s)
  PROVE  RunsAt(i, s)'
BY DEF RunsAt

\* Reading a message moves the others up.
LEMMA RunsShift ==
  ASSUME inbox \in Seq(Messages), inbox # << >>, inbox' = Tail(inbox), view.open, view'.open,
         NEW i \in 2..(Len(inbox) + 1), NEW s \in Sessions, RunsAt(i, s),
         Head(inbox).type = "snapshot" =>
           /\ view'.state = Head(inbox).state
           /\ view'.task = IF Head(inbox).task # NoTask THEN Head(inbox).task ELSE view.task,
         Head(inbox).type # "snapshot" => view'.state = view.state /\ view'.task = view.task
  PROVE  RunsAt(i - 1, s)'
<1>1. /\ Len(inbox) \in Nat \ {0} /\ Head(inbox) = inbox[1]
      /\ \A k \in 1..(Len(inbox) - 1) : inbox'[k] = inbox[k + 1]
  OBVIOUS
<1>2. i - 1 \in 1..Len(inbox) /\ i - 1 - 1 = i - 2 /\ i \in Nat
  BY <1>1
<1>3. CASE /\ view.open /\ view.task = s /\ view.state = "EXECUTING_WORKER"
           /\ \A k \in 1..(i - 1) : KeepsRunning(inbox[k], s)
  <2>1. view'.task = s /\ view'.state = "EXECUTING_WORKER"
    BY <1>1, <1>2, <1>3 DEF KeepsRunning
  <2>2. \A k \in 1..(i - 2) : KeepsRunning(inbox'[k], s)
    <3> TAKE k \in 1..(i - 2)
    <3>1. k + 1 \in 1..(i - 1) /\ k \in 1..(Len(inbox) - 1)
      BY <1>1, <1>2
    <3> QED
      BY <1>1, <1>3, <3>1
  <2> QED
    BY <1>2, <2>1, <2>2 DEF RunsAt
<1>4. ASSUME NEW j \in 1..(i - 1),
             inbox[j].type = "snapshot" /\ inbox[j].task = s /\ inbox[j].state = "EXECUTING_WORKER",
             \A k \in (j + 1)..(i - 1) : KeepsRunning(inbox[k], s)
      PROVE  RunsAt(i - 1, s)'
  <2>1. \A k \in j..(i - 2) : KeepsRunning(inbox'[k], s)
    <3> TAKE k \in j..(i - 2)
    <3>1. k + 1 \in (j + 1)..(i - 1) /\ k \in 1..(Len(inbox) - 1)
      BY <1>1, <1>2
    <3> QED
      BY <1>1, <1>4, <3>1
  <2>2. CASE j = 1
    <3>1. view'.task = s /\ view'.state = "EXECUTING_WORKER"
      BY <1>1, <1>4, <2>2, PanelAssumption
    <3> QED
      BY <1>2, <2>1, <2>2, <3>1 DEF RunsAt
  <2>3. CASE j # 1
    <3>1. j - 1 \in 1..(i - 2) /\ inbox'[j - 1] = inbox[j] /\ j - 1 + 1 = j
      BY <1>1, <1>2, <2>3
    <3> QED
      BY <1>2, <1>4, <2>1, <3>1 DEF RunsAt
  <2> QED
    BY <2>2, <2>3
<1> QED
  BY <1>3, <1>4 DEF RunsAt

\* Messages that mend each other do so behind others.
LEMMA MendedAppend ==
  ASSUME NEW q \in Seq(Messages), NEW r \in Seq(Messages), Mended(q), Mended(r)
  PROVE  Mended(q \o r)
<1>1. /\ Len(q) \in Nat /\ Len(r) \in Nat /\ Len(q \o r) = Len(q) + Len(r)
      /\ \A i \in 1..Len(q) : (q \o r)[i] = q[i]
      /\ \A i \in 1..Len(r) : (q \o r)[Len(q) + i] = r[i]
  OBVIOUS
<1> DEFINE t == q \o r
<1> HIDE DEF t
<1>2. ASSUME NEW i \in 1..Len(t), Named(t[i]), ~OfSession(t[i].phases, t[i].task)
      PROVE  i < Len(t) /\ Mends(t[i + 1], t[i].task)
  <2>1. CASE i \in 1..Len(q)
    <3>1. i < Len(q) /\ Mends(q[i + 1], q[i].task)
      BY <1>1, <1>2, <2>1 DEF Mended, t
    <3>2. t[i] = q[i] /\ t[i + 1] = q[i + 1] /\ i < Len(t)
      BY <1>1, <2>1, <3>1 DEF t
    <3> QED
      BY <3>1, <3>2
  <2>2. CASE i \notin 1..Len(q)
    <3>1. i - Len(q) \in 1..Len(r) /\ Len(q) + (i - Len(q)) = i /\ Len(q) + (i - Len(q) + 1) = i + 1
      BY <1>1, <1>2, <2>2 DEF t
    <3>2. t[i] = r[i - Len(q)]
      BY <1>1, <3>1 DEF t
    <3>3. i - Len(q) < Len(r) /\ Mends(r[i - Len(q) + 1], r[i - Len(q)].task)
      BY <1>2, <3>1, <3>2 DEF Mended
    <3>4. i - Len(q) + 1 \in 1..Len(r) /\ i < Len(t)
      BY <1>1, <1>2, <3>1, <3>3 DEF t
    <3>5. t[i + 1] = r[i - Len(q) + 1]
      BY <1>1, <3>1, <3>4 DEF t
    <3> QED
      BY <3>2, <3>3, <3>4, <3>5
  <2> QED
    BY <2>1, <2>2
<1>3. Mended(t)
  BY <1>2 DEF Mended
<1> QED
  BY <1>3 DEF t

\* The messages that are left when one is read mend each other still.
LEMMA MendedTail ==
  ASSUME NEW q \in Seq(Messages), q # << >>, Mended(q)
  PROVE  Mended(Tail(q))
<1>1. /\ Len(q) \in Nat \ {0} /\ Len(Tail(q)) = Len(q) - 1
      /\ \A i \in 1..(Len(q) - 1) : Tail(q)[i] = q[i + 1]
  OBVIOUS
<1> DEFINE t == Tail(q)
<1> HIDE DEF t
<1>2. ASSUME NEW i \in 1..Len(t), Named(t[i]), ~OfSession(t[i].phases, t[i].task)
      PROVE  i < Len(t) /\ Mends(t[i + 1], t[i].task)
  <2>1. t[i] = q[i + 1] /\ i + 1 \in 1..Len(q)
    BY <1>1 DEF t
  <2>2. i + 1 < Len(q) /\ Mends(q[i + 1 + 1], q[i + 1].task)
    BY <1>2, <2>1 DEF Mended
  <2>3. i + 1 \in 1..(Len(q) - 1) /\ i < Len(t)
    BY <1>1, <2>1, <2>2 DEF t
  <2>4. t[i + 1] = q[i + 1 + 1]
    BY <1>1, <2>3 DEF t
  <2> QED
    BY <2>1, <2>2, <2>3, <2>4
<1>3. Mended(t)
  BY <1>2 DEF Mended
<1> QED
  BY <1>3 DEF t

\* What the host may send: unnamed books with ids only of the session that runs.
Sendable(msgs) ==
  /\ msgs \in Seq(Messages) /\ Mended(msgs)
  /\ \A i \in 1..Len(msgs) :
       msgs[i].type = "snapshot" /\ msgs[i].task = NoTask =>
         \/ msgs[i].phases = NoBook
         \/ /\ host = "EXECUTING_WORKER" /\ OfSession(msgs[i].phases, opened.session)
            /\ \A k \in 1..(i - 1) : KeepsRunning(msgs[k], opened.session)

\* The messages stay fit when the host sends what it may send.
LEMMA SayFits ==
  ASSUME NEW msgs, inbox \in Seq(Messages), MessageInv, HostHeard, Sendable(msgs), Say(msgs), view' = view
  PROVE  MessageInv'
<1>1. CASE ~view.open
  <2>1. inbox' = << >>
    BY <1>1 DEF Say, Sent, MessageInv, ClosedIsEmpty
  <2>2. Len(inbox') = 0
    BY <2>1
  <2> QED
    BY <1>1, <2>1, <2>2 DEF MessageInv, Mended, ViewMends, UnnamedFit, ClosedIsEmpty
<1>2. CASE view.open
  <2>1. inbox' = inbox \o msgs /\ msgs \in Seq(Messages)
    BY <1>2 DEF Say, Sent, Sendable
  <2>2. PICK l \in Nat : l = Len(inbox)
    BY <2>1
  <2>3. /\ Len(msgs) \in Nat /\ Len(inbox') = l + Len(msgs)
        /\ \A i \in 1..l : inbox'[i] = inbox[i]
        /\ \A i \in 1..Len(msgs) : inbox'[l + i] = msgs[i]
    BY <2>1, <2>2, Appending
  <2>4. Mended(inbox)'
    BY <2>1, MendedAppend DEF MessageInv, Sendable
  <2>5. ViewMends'
    <3>1. CASE OfSession(view.phases, view.task)
      BY <3>1 DEF ViewMends
    <3>2. CASE inbox # << >> /\ Mends(inbox[1], view.task)
      <4>1. inbox' # << >> /\ inbox'[1] = inbox[1]
        <5>1. l > 0
          BY <2>1, <2>2, <3>2
        <5> QED
          BY <2>3, <5>1
      <4> QED
        BY <3>2, <4>1 DEF ViewMends
    <3> QED
      BY <1>2, <3>1, <3>2 DEF MessageInv, ViewMends
  <2>6. ASSUME NEW i \in 1..Len(inbox'), inbox'[i].type = "snapshot", inbox'[i].task = NoTask,
               NEW p \in DOMAIN inbox'[i].phases, inbox'[i].phases[p].id # NoId
        PROVE  RunsAt(i, inbox[i].phases[p].id.session)'
    <3>1. CASE i \in 1..l
      <4>1. inbox'[i] = inbox[i]
        BY <2>3, <3>1
      <4>2. PICK s : s = inbox[i].phases[p].id.session
        OBVIOUS
      <4>3. RunsAt(i, s)
        BY <2>2, <2>6, <3>1, <4>1, <4>2 DEF MessageInv, UnnamedFit
      <4>4. RunsAt(i, s)'
        <5>1. i \in 1..(Len(inbox) + 1)
          BY <2>2, <3>1
        <5> QED
          BY <2>1, <4>3, <5>1, RunsStay
      <4> QED
        BY <4>1, <4>2, <4>4
    <3>2. CASE i \notin 1..l
      <4>1. PICK k \in 1..Len(msgs) : i = l + k
        <5>1. i - l \in 1..Len(msgs) /\ i = l + (i - l)
          BY <2>3, <3>2
        <5> QED
          BY <5>1
      <4>2. inbox'[i] = msgs[k]
        BY <2>3, <4>1
      <4>3. msgs[k].phases # NoBook
        <5>1. DOMAIN << >> = {}
          OBVIOUS
        <5> QED
          BY <2>6, <4>2, <5>1 DEF NoBook
      <4>4. /\ host = "EXECUTING_WORKER" /\ msgs[k].phases[p].id.session = opened.session
            /\ \A j \in 1..(k - 1) : KeepsRunning(msgs[j], opened.session)
        BY <2>6, <4>2, <4>3 DEF Sendable, OfSession
      <4>5. PICK s : s = opened.session
        OBVIOUS
      <4>6. RunsAt(Len(inbox) + 1, s)
        BY <1>2, <4>4, <4>5 DEF HostHeard
      <4>7. PICK n \in 0..Len(msgs) : n = k - 1 /\ l + n + 1 = i
        BY <2>3, <4>1
      <4>8. RunsAt(l + n + 1, s)'
        BY <2>1, <2>2, <4>4, <4>5, <4>6, <4>7, RunsThrough
      <4> QED
        BY <4>2, <4>4, <4>5, <4>7, <4>8
    <3> QED
      BY <3>1, <3>2
  <2>7. UnnamedFit'
    BY <2>6 DEF UnnamedFit
  <2> QED
    BY <1>2, <2>4, <2>5, <2>7 DEF MessageInv, ClosedIsEmpty
<1> QED
  BY <1>1, <1>2

\* What it sends during a run keeps the panel's view of it.
LEMMA SayHeard ==
  ASSUME NEW msgs \in Seq(Messages), inbox \in Seq(Messages), HostHeard, Say(msgs), view' = view,
         host = "EXECUTING_WORKER", opened'.session = opened.session,
         \A k \in 1..Len(msgs) : KeepsRunning(msgs[k], opened.session)
  PROVE  HostHeard'
<1> SUFFICES ASSUME view.open PROVE RunsAt(Len(inbox) + 1, opened.session)'
  BY DEF HostHeard
<1>1. inbox' = inbox \o msgs
  BY DEF Say, Sent
<1>2. PICK l \in Nat : l = Len(inbox)
  OBVIOUS
<1>3. PICK s : s = opened.session
  OBVIOUS
<1>4. PICK n \in 0..Len(msgs) : n = Len(msgs)
  OBVIOUS
<1>5. RunsAt(Len(inbox) + 1, s)
  BY <1>3 DEF HostHeard
<1>6. RunsAt(l + n + 1, s)'
  BY <1>1, <1>2, <1>3, <1>4, <1>5, RunsThrough
<1>7. Len(inbox') + 1 = l + n + 1
  BY <1>1, <1>2, <1>4, Appending
<1> QED
  BY <1>3, <1>6, <1>7

-----------------------------------------------------------------------------
(* The steps of the host                                                    *)

\* A plan is under way only where another one may be approved.
PlansLeft == host \in {"PLANNING", "PLAN_REVIEW"} => approved[opened.session] < MaxRuns

\* Who is ready to run, or has run, has a runbook.
BookThere == host \in {"READY", "EXECUTING_WORKER", "COMPLETED"} => opened.book \in [PhaseIds -> Entries]

\* The host's part of the invariant.
HostInv == HostTypeOK /\ PlansLeft /\ BookThere /\ HostClean
\* The invariant behind the properties of the panel.
PanelInv == HostInv /\ ViewTypeOK /\ HostHeard /\ MessageInv /\ OwnAnswers /\ ShownNow

\* A new plan is a book without ids.
LEMMA NewPlanIs == NewPlan \in [PhaseIds -> Entries] /\ \A s : OfSession(NewPlan, s)
BY DEF NewPlan, Entry, Entries, OfSession

\* No book is a book without ids.
LEMMA NoBookIs == NoBook \in Books /\ \A s : OfSession(NoBook, s)
<1>1. DOMAIN << >> = {}
  OBVIOUS
<1> QED
  BY <1>1 DEF NoBook, Books, OfSession

\* The id that a phase gets is of the open session.
LEMMA PhaseIdIs ==
  ASSUME HostTypeOK, NEW s \in Sessions, NEW p \in PhaseIds
  PROVE  PhaseIdOf(s, p, approved[s]) \in Ids /\ PhaseIdOf(s, p, approved[s]).session = s
BY DEF PhaseIdOf, Ids, HostTypeOK

\* A runbook that is loaded has ids of its own session.
LEMMA WithIdsIs ==
  ASSUME HostInv, NEW s \in Sessions
  PROVE  /\ WithIds(s) \in Books /\ OfSession(WithIds(s), s)
         /\ saved[s] # NoBook => WithIds(s) \in [PhaseIds -> Entries]
<1>1. saved[s] \in Books
  BY DEF HostInv, HostTypeOK
<1>2. DOMAIN WithIds(s) = DOMAIN saved[s]
  BY DEF WithIds
<1>3. ASSUME NEW p \in DOMAIN saved[s]
      PROVE  WithIds(s)[p] \in Entries /\ WithIds(s)[p].id.session = s
  <2>1. saved[s][p] \in Entries /\ p \in PhaseIds
    BY <1>1, <1>3, BookIs
  <2>2. CASE saved[s][p].id # NoId
    BY <1>3, <2>1, <2>2 DEF WithIds, HostInv, HostClean, OfSession
  <2>3. CASE saved[s][p].id = NoId
    <3>1. PhaseIdOf(s, p, approved[s]) \in Ids /\ PhaseIdOf(s, p, approved[s]).session = s
      BY <2>1, PhaseIdIs DEF HostInv
    <3>2. WithIds(s)[p] = [saved[s][p] EXCEPT !.id = PhaseIdOf(s, p, approved[s])]
      BY <1>3, <2>3 DEF WithIds
    <3> QED
      BY <2>1, <3>1, <3>2 DEF Entries
  <2> QED
    BY <2>2, <2>3
<1>4. WithIds(s) \in [DOMAIN saved[s] -> Entries]
  BY <1>3 DEF WithIds
<1>5. WithIds(s) \in Books
  BY <1>1, <1>4, BookLike
<1>6. OfSession(WithIds(s), s)
  BY <1>2, <1>3 DEF OfSession
<1>7. ASSUME saved[s] # NoBook PROVE WithIds(s) \in [PhaseIds -> Entries]
  <2>1. DOMAIN saved[s] = PhaseIds
    BY <1>1, <1>7 DEF Books
  <2> QED
    BY <1>4, <2>1
<1> QED
  BY <1>5, <1>6, <1>7

\* A message about the session that is open, with its own ids.
Plain(m) ==
  /\ m \in Messages
  /\ m.type = "snapshot" => m.task = opened.session /\ OfSession(m.phases, opened.session)

\* A snapshot is a message.
LEMMA SnapshotIs ==
  ASSUME NEW t \in Names, NEW st \in HostStates, NEW b \in Books
  PROVE  /\ Snapshot(t, st, b) \in Messages /\ Snapshot(t, st, b).type = "snapshot"
         /\ Snapshot(t, st, b).task = t /\ Snapshot(t, st, b).state = st /\ Snapshot(t, st, b).phases = b
BY DEF Snapshot, Snapshots, Messages

\* A phase's status is a message.
LEMMA StatusIs ==
  ASSUME NEW p \in PhaseIds, NEW st \in {"running", "completed"}
  PROVE  PhaseStatus(p, st) \in Messages /\ PhaseStatus(p, st).type = "status"
BY DEF PhaseStatus, StatusMessages, Messages

\* A change of state is a message about the open session.
LEMMA ChangedIsPlain ==
  ASSUME HostInv, NEW st \in HostStates, NEW b \in Books, OfSession(b, opened.session)
  PROVE  Plain(Changed(st, b)) /\ Changed(st, b).state = st /\ Changed(st, b).type = "snapshot"
<1>1. opened.session \in Names
  BY DEF HostInv, HostTypeOK, Names
<1> QED
  BY <1>1, SnapshotIs DEF Plain, Changed

\* Messages about the open session may be sent.
LEMMA PlainIsSendable ==
  ASSUME HostInv, NEW msgs \in Seq(Messages), \A i \in 1..Len(msgs) : Plain(msgs[i])
  PROVE  Sendable(msgs)
<1>1. opened.session # NoTask
  BY PanelAssumption DEF HostInv, HostTypeOK
<1>2. Mended(msgs)
  BY DEF Mended, Plain, Named
<1> QED
  BY <1>1, <1>2 DEF Sendable, Plain

\* One of them may be sent alone.
LEMMA OneIsSendable ==
  ASSUME HostInv, NEW a, Plain(a)
  PROVE  Sendable(<<a>>) /\ <<a>> \in Seq(Messages) /\ Len(<<a>>) = 1 /\ <<a>>[1] = a
<1>1. <<a>> \in Seq(Messages) /\ Len(<<a>>) = 1 /\ <<a>>[1] = a
  BY DEF Plain
<1>2. \A i \in 1..Len(<<a>>) : Plain(<<a>>[i])
  BY <1>1
<1> QED
  BY <1>1, <1>2, PlainIsSendable

\* Two of them may be sent together.
LEMMA TwoAreSendable ==
  ASSUME HostInv, NEW a, NEW b, Plain(a), Plain(b)
  PROVE  /\ Sendable(<<a, b>>) /\ <<a, b>> \in Seq(Messages) /\ Len(<<a, b>>) = 2
         /\ <<a, b>>[1] = a /\ <<a, b>>[2] = b
<1>1. <<a, b>> \in Seq(Messages) /\ Len(<<a, b>>) = 2 /\ <<a, b>>[1] = a /\ <<a, b>>[2] = b
  BY DEF Plain
<1>2. \A i \in 1..Len(<<a, b>>) : Plain(<<a, b>>[i])
  <2> TAKE i \in 1..Len(<<a, b>>)
  <2>1. i = 1 \/ i = 2
    BY <1>1
  <2> QED
    BY <1>1, <2>1
<1> QED
  BY <1>1, <1>2, PlainIsSendable

\* A step of the host that only sends keeps the invariant, if it keeps the host's part.
LEMMA SayStep ==
  ASSUME PanelInv, NEW msgs, Sendable(msgs), Say(msgs), UNCHANGED <<asked, view, stores>>,
         HostInv', HostHeard'
  PROVE  PanelInv'
<1>1. inbox \in Seq(Messages)
  BY DEF PanelInv, ViewTypeOK, Messages
<1>2. MessageInv'
  BY <1>1, SayFits DEF PanelInv
<1>3. inbox' \in Seq(Messages)
  <2>1. msgs \in Seq(Messages)
    BY DEF Sendable
  <2> QED
    BY <1>1, <2>1 DEF Say, Sent
<1>4. ViewTypeOK' /\ OwnAnswers' /\ ShownNow'
  BY <1>3 DEF PanelInv, ViewTypeOK, OwnAnswers, ShownNow, Messages, Chosen
<1> QED
  BY <1>2, <1>4 DEF PanelInv

\* What a panel is told when it is opened or shown is about the open session.
LEMMA CurrentIs ==
  ASSUME HostInv
  PROVE  Plain(Current) /\ Current.state = host /\ Current.type = "snapshot" /\ Current.task = opened.session
<1> DEFINE b == IF opened.book # NoBook THEN opened.book
                ELSE IF host = "PLAN_REVIEW" THEN NewPlan ELSE NoBook
<1>1. b \in Books /\ OfSession(b, opened.session) /\ host \in HostStates
  BY NewPlanIs, NoBookIs DEF Books, HostInv, HostTypeOK, HostClean
<1>2. Current = Changed(host, b)
  BY DEF Current, Changed
<1> HIDE DEF b
<1> QED
  BY <1>1, <1>2, ChangedIsPlain DEF Plain

\* The user's moves are bounded.
LEMMA MovesFit ==
  ASSUME moves \in 0..MaxMoves, Moves
  PROVE  moves' \in 0..MaxMoves
BY PanelAssumption DEF Moves

\* Planning, starting and showing the panel again keep the invariant.
LEMMA PlanStep ==
  ASSUME PanelInv, PressPlan \/ PlanGenerated \/ PressStart \/ Reveal
  PROVE  PanelInv'
<1>1. HostInv /\ HostTypeOK /\ opened.book \in Books /\ OfSession(opened.book, opened.session)
      /\ inbox \in Seq(Messages) /\ opened.session \in Sessions
  BY DEF PanelInv, HostInv, HostTypeOK, HostClean, ViewTypeOK, Messages
<1>2. CASE PressPlan
  <2>1. Plain(Changed("PLANNING", opened.book))
    BY <1>1, ChangedIsPlain DEF HostStates
  <2>2. HostInv' /\ HostHeard'
    BY <1>1, <1>2 DEF PressPlan, HostInv, HostTypeOK, PlansLeft, BookThere, HostClean, HostHeard, HostStates
  <2> QED
    BY <1>1, <1>2, <2>1, <2>2, OneIsSendable, SayStep DEF PressPlan
<1>3. CASE PlanGenerated
  <2>1. Plain(Changed("PLAN_REVIEW", opened.book)) /\ Plain(Changed("PLAN_REVIEW", NewPlan))
    BY <1>1, ChangedIsPlain, NewPlanIs DEF HostStates, Books
  <2>2. HostInv' /\ HostHeard'
    BY <1>1, <1>3 DEF PlanGenerated, HostInv, HostTypeOK, PlansLeft, BookThere, HostClean, HostHeard, HostStates
  <2> QED
    BY <1>1, <1>3, <2>1, <2>2, TwoAreSendable, SayStep DEF PlanGenerated
<1>4. CASE PressStart
  <2> DEFINE m == Changed("EXECUTING_WORKER", opened.book)
  <2>1. Plain(m) /\ m.state = "EXECUTING_WORKER" /\ m.type = "snapshot"
    BY <1>1, ChangedIsPlain DEF HostStates
  <2>2. HostInv'
    BY <1>1, <1>4 DEF PressStart, HostInv, HostTypeOK, PlansLeft, BookThere, HostClean, HostStates
  <2>3. Say(<<m>>) /\ view' = view /\ opened' = opened
    BY <1>4 DEF PressStart
  <2> HIDE DEF m
  <2>4. HostHeard'
    <3> SUFFICES ASSUME view.open PROVE RunsAt(Len(inbox) + 1, opened.session)'
      BY <2>3 DEF HostHeard
    <3>1. inbox' = inbox \o <<m>>
      BY <2>3 DEF Say, Sent
    <3>2. PICK l \in Nat : l = Len(inbox)
      BY <1>1
    <3>3. Len(inbox') = l + 1 /\ inbox'[l + 1] = m
      BY <1>1, <2>1, <3>1, <3>2, Appending, OneIsSendable
    <3>4. \A k \in (l + 1 + 1)..(l + 2 - 1) : FALSE
      BY <3>2
    <3>5. l + 1 \in 1..(l + 2 - 1) /\ Len(inbox') + 1 = l + 2
      BY <3>2, <3>3
    <3>6. m.task = opened.session
      BY <2>1 DEF Plain
    <3> QED
      BY <2>1, <2>3, <3>3, <3>4, <3>5, <3>6 DEF RunsAt
  <2> QED
    BY <1>1, <1>4, <2>1, <2>2, <2>3, <2>4, OneIsSendable, SayStep DEF PressStart
<1>5. CASE Reveal
  <2>1. Plain(Current) /\ Current.state = host /\ Current.type = "snapshot" /\ Current.task = opened.session
    BY <1>1, CurrentIs
  <2>2. HostInv'
    BY <1>1, <1>5, MovesFit DEF Reveal, HostInv, HostTypeOK, PlansLeft, BookThere, HostClean
  <2>3. Say(<<Current>>) /\ UNCHANGED <<asked, view, stores, host, opened>>
    BY <1>5 DEF Reveal
  <2>4. HostHeard'
    <3>1. CASE host # "EXECUTING_WORKER"
      BY <2>3, <3>1 DEF HostHeard
    <3>2. CASE host = "EXECUTING_WORKER"
      <4>1. \A k \in 1..Len(<<Current>>) : KeepsRunning(<<Current>>[k], opened.session)
        BY <1>1, <2>1, <3>2, OneIsSendable DEF KeepsRunning
      <4> QED
        BY <1>1, <2>1, <2>3, <3>2, <4>1, OneIsSendable, SayHeard DEF PanelInv
    <3> QED
      BY <3>1, <3>2
  <2> QED
    BY <1>1, <2>1, <2>2, <2>3, <2>4, OneIsSendable, SayStep
<1> QED
  BY <1>2, <1>3, <1>4, <1>5

\* One message, alone or with another behind it, as a sequence.
LEMMA OneOrTwo ==
  ASSUME NEW a, NEW b
  PROVE  <<a>> \o << >> = <<a>> /\ <<a>> \o <<b>> = <<a, b>>
<1> DEFINE S == {a, b}
<1>1. <<a>> \in Seq(S) /\ <<b>> \in Seq(S) /\ << >> \in Seq(S) /\ <<a, b>> \in Seq(S)
  OBVIOUS
<1>2. <<a>> \o << >> = <<a>>
  BY <1>1, ConcatEmptySeq
<1>3. <<a>> \o <<b>> = Append(<<a>>, b)
  BY <1>1, AppendIsConcat
<1>4. Append(<<a>>, b) = <<a, b>>
  <2> DEFINE t == Append(<<a>>, b)
  <2>1. t \in Seq(S) /\ Len(t) = 2 /\ t[1] = a /\ t[2] = b
    BY <1>1
  <2>2. Len(<<a, b>>) = 2 /\ <<a, b>>[1] = a /\ <<a, b>>[2] = b
    OBVIOUS
  <2> HIDE DEF t
  <2>3. \A i \in 1..Len(t) : t[i] = <<a, b>>[i]
    <3> TAKE i \in 1..Len(t)
    <3>1. i = 1 \/ i = 2
      BY <2>1
    <3> QED
      BY <2>1, <2>2, <3>1
  <2>4. t = <<a, b>>
    BY <1>1, <2>1, <2>2, <2>3, SeqEqual
  <2> QED
    BY <2>4 DEF t
<1> QED
  BY <1>2, <1>3, <1>4

\* An approval keeps the invariant: the draft it saves has no ids.
LEMMA ApproveStep ==
  ASSUME PanelInv, PressApprove
  PROVE  PanelInv'
<1>1. HostInv /\ HostTypeOK /\ opened.book \in Books /\ OfSession(opened.book, opened.session)
      /\ opened.session \in Sessions /\ approved[opened.session] \in 0..MaxRuns
  BY DEF PanelInv, HostInv, HostTypeOK, HostClean
<1> DEFINE s == opened.session
<1>2. opened' \in [session : Sessions, book : Books] /\ opened'.session = s /\ opened'.book = NewPlan
  BY <1>1, NewPlanIs DEF PressApprove, HostTypeOK, Books
<1>3. saved' \in [Sessions -> Books] /\ \A t \in Sessions : saved'[t] = IF t = s THEN NewPlan ELSE saved[t]
  BY <1>1, NewPlanIs DEF PressApprove, HostTypeOK, Books
<1>4. approved[s] < MaxRuns
  BY <1>1 DEF PressApprove, HostInv, PlansLeft
<1>5. approved' \in [Sessions -> 0..MaxRuns]
  BY <1>1, <1>4, PanelAssumption DEF PressApprove, HostTypeOK
<1>6. HostTypeOK'
  BY <1>1, <1>2, <1>3, <1>5 DEF PressApprove, HostTypeOK, HostStates
<1>7. HostClean'
  BY <1>1, <1>2, <1>3, NewPlanIs DEF HostInv, HostClean
<1>8. HostInv' /\ HostHeard'
  BY <1>2, <1>6, <1>7, NewPlanIs DEF PressApprove, HostInv, PlansLeft, BookThere, HostHeard
<1>9. Plain(Changed("PARSING", opened.book)) /\ Plain(Changed("READY", NewPlan))
  BY <1>1, ChangedIsPlain, NewPlanIs DEF HostStates, Books
<1> QED
  BY <1>1, <1>8, <1>9, TwoAreSendable, SayStep DEF PressApprove

\* A dispatch keeps the invariant: its snapshot names no task, and the engine runs.
LEMMA DispatchKeeps ==
  ASSUME PanelInv, NEW p \in PhaseIds, Dispatch(p)
  PROVE  PanelInv'
<1> DEFINE s == opened.session
           id == IF opened.book[p].id # NoId THEN opened.book[p].id ELSE PhaseIdOf(s, p, approved[s])
           book == [opened.book EXCEPT ![p] = Entry("running", id)]
           a == PhaseStatus(p, "running")
           b == Snapshot(NoTask, host, book)
<1>1. /\ HostInv /\ HostTypeOK /\ s \in Sessions /\ host = "EXECUTING_WORKER"
      /\ opened.book \in [PhaseIds -> Entries] /\ OfSession(opened.book, s)
      /\ inbox \in Seq(Messages)
  BY DEF Dispatch, PanelInv, HostInv, HostTypeOK, HostClean, BookThere, ViewTypeOK, Messages
<1>2. id \in Ids /\ id.session = s
  BY <1>1, PhaseIdIs DEF Entries, OfSession
<1>3. /\ opened' = [opened EXCEPT !.book = book]
      /\ saved' = [saved EXCEPT ![s] = book]
      /\ Say(<<a, b>>)
      /\ UNCHANGED <<moves, host, handoffs, approved, asked, view, stores>>
  BY DEF Dispatch
<1> HIDE DEF id
<1>4. book \in [PhaseIds -> Entries] /\ OfSession(book, s)
  BY <1>1, <1>2 DEF Entry, Entries, OfSession
<1> HIDE DEF book
<1>5. opened' \in [session : Sessions, book : Books] /\ opened'.session = s /\ opened'.book = book
  BY <1>1, <1>3, <1>4 DEF HostTypeOK, Books
<1>6. saved' \in [Sessions -> Books] /\ \A t \in Sessions : saved'[t] = IF t = s THEN book ELSE saved[t]
  BY <1>1, <1>3, <1>4 DEF HostTypeOK, Books
<1>7. HostClean'
  BY <1>1, <1>4, <1>5, <1>6 DEF HostInv, HostClean
<1>8. HostInv'
  BY <1>1, <1>3, <1>4, <1>5, <1>6, <1>7 DEF HostInv, HostTypeOK, PlansLeft, BookThere
<1>9. /\ a \in Messages /\ a.type = "status"
      /\ b \in Messages /\ b.type = "snapshot" /\ b.task = NoTask /\ b.state = "EXECUTING_WORKER" /\ b.phases = book
  <2>1. a \in Messages /\ a.type = "status"
    BY StatusIs
  <2>2. NoTask \in Names /\ host \in HostStates /\ book \in Books
    BY <1>1, <1>4 DEF HostStates, Names, Books
  <2>3. b \in Messages /\ b.type = "snapshot" /\ b.task = NoTask /\ b.state = host /\ b.phases = book
    BY <2>2, SnapshotIs
  <2> QED
    BY <1>1, <2>1, <2>3
<1> HIDE DEF a, b
<1>10. /\ <<a, b>> \in Seq(Messages) /\ Len(<<a, b>>) = 2 /\ <<a, b>>[1] = a /\ <<a, b>>[2] = b
      /\ \A i \in 1..Len(<<a, b>>) : i = 1 \/ i = 2
  BY <1>9
<1>11. \A i \in 1..Len(<<a, b>>) : KeepsRunning(<<a, b>>[i], s)
  BY <1>9, <1>10 DEF KeepsRunning
<1>12. Sendable(<<a, b>>)
  BY <1>1, <1>4, <1>9, <1>10, <1>11 DEF Sendable, Mended, Named
<1>13. HostHeard'
  BY <1>1, <1>3, <1>5, <1>10, <1>11, SayHeard DEF PanelInv
<1> QED
  BY <1>3, <1>8, <1>12, <1>13, SayStep

\* A phase that completes keeps the invariant.
LEMMA CompleteKeeps ==
  ASSUME PanelInv, NEW p \in PhaseIds, Complete(p)
  PROVE  PanelInv'
<1> DEFINE s == opened.session
           book == [opened.book EXCEPT ![p].status = "completed"]
           st == IF \A q \in PhaseIds : book[q].status = "completed" THEN "COMPLETED" ELSE "EXECUTING_WORKER"
           alone == \A q \in PhaseIds : book[q].status # "running"
           a == PhaseStatus(p, "completed")
           b == Changed(st, book)
<1>1. /\ HostInv /\ HostTypeOK /\ s \in Sessions /\ host = "EXECUTING_WORKER"
      /\ opened.book \in [PhaseIds -> Entries] /\ OfSession(opened.book, s)
      /\ inbox \in Seq(Messages)
  BY DEF Complete, PanelInv, HostInv, HostTypeOK, HostClean, BookThere, ViewTypeOK, Messages
<1>2. /\ opened' = [opened EXCEPT !.book = book]
      /\ saved' = [saved EXCEPT ![s] = book]
      /\ host' = st
      /\ Say(<<a>> \o IF alone THEN <<b>> ELSE << >>)
      /\ handoffs' = handoffs \cup {<<s, opened.book[p].id>>}
      /\ UNCHANGED <<moves, approved, asked, view, stores>>
  BY DEF Complete
<1>3. st \in HostStates /\ st \in {"COMPLETED", "EXECUTING_WORKER"}
  BY DEF HostStates
<1>4. book \in [PhaseIds -> Entries] /\ OfSession(book, s)
  BY <1>1 DEF Entries, OfSession
<1> HIDE DEF st, alone, book
<1>5. opened' \in [session : Sessions, book : Books] /\ opened'.session = s /\ opened'.book = book
  BY <1>1, <1>2, <1>4 DEF HostTypeOK, Books
<1>6. saved' \in [Sessions -> Books] /\ \A t \in Sessions : saved'[t] = IF t = s THEN book ELSE saved[t]
  BY <1>1, <1>2, <1>4 DEF HostTypeOK, Books
<1>7. handoffs' \in SUBSET (Sessions \X (Ids \cup {NoId}))
  BY <1>1, <1>2 DEF HostTypeOK, Entries
<1>8. HostClean'
  BY <1>1, <1>4, <1>5, <1>6 DEF HostInv, HostClean
<1>9. HostInv'
  BY <1>1, <1>2, <1>3, <1>4, <1>5, <1>6, <1>7, <1>8 DEF HostInv, HostTypeOK, PlansLeft, BookThere
<1>10. a \in Messages /\ a.type = "status" /\ Plain(a)
  BY StatusIs DEF Plain
<1>11. Plain(b) /\ b.state = st /\ b.type = "snapshot"
  BY <1>1, <1>3, <1>4, ChangedIsPlain DEF Books
<1> HIDE DEF a, b
<1>12. PICK msgs : msgs = (<<a>> \o IF alone THEN <<b>> ELSE << >>)
  OBVIOUS
<1>13. msgs = <<a>> \/ msgs = <<a, b>>
  <2>1. <<a>> \o << >> = <<a>> /\ <<a>> \o <<b>> = <<a, b>>
    BY OneOrTwo
  <2> QED
    BY <1>12, <2>1
<1>14. Sendable(msgs) /\ msgs \in Seq(Messages)
  <2>1. CASE msgs = <<a>>
    BY <1>1, <1>10, <2>1, OneIsSendable
  <2>2. CASE msgs = <<a, b>>
    BY <1>1, <1>10, <1>11, <2>2, TwoAreSendable
  <2> QED
    BY <1>13, <2>1, <2>2
<1>15. HostHeard'
  <2>1. CASE st # "EXECUTING_WORKER"
    BY <1>2, <2>1 DEF HostHeard
  <2>2. CASE st = "EXECUTING_WORKER"
    <3>1. KeepsRunning(a, s) /\ KeepsRunning(b, s)
      BY <1>10, <1>11, <2>2 DEF KeepsRunning, Plain
    <3>2. \A k \in 1..Len(msgs) : KeepsRunning(msgs[k], s)
      BY <1>13, <3>1
    <3> QED
      BY <1>1, <1>2, <1>5, <1>12, <1>14, <3>2, SayHeard DEF PanelInv
  <2> QED
    BY <2>1, <2>2
<1> QED
  BY <1>2, <1>9, <1>12, <1>14, <1>15, SayStep

\* An abort keeps the invariant.
LEMMA AbortKeeps ==
  ASSUME PanelInv, PressAbort
  PROVE  PanelInv'
<1> DEFINE s == opened.session
           book == [p \in DOMAIN opened.book |->
                    IF opened.book[p].status = "running"
                    THEN [opened.book[p] EXCEPT !.status = "pending"] ELSE opened.book[p]]
           a == Changed("IDLE", opened.book)
           b == Changed("IDLE", book)
<1>1. /\ HostInv /\ HostTypeOK /\ s \in Sessions
      /\ opened.book \in Books /\ OfSession(opened.book, s)
  BY DEF PanelInv, HostInv, HostTypeOK, HostClean
<1>2. /\ opened' = [opened EXCEPT !.book = book]
      /\ saved' = IF book = NoBook THEN saved ELSE [saved EXCEPT ![s] = book]
      /\ host' = "IDLE" /\ Moves
      /\ Say(<<a>> \o IF book = NoBook THEN << >> ELSE <<b>>)
      /\ UNCHANGED <<handoffs, approved, asked, view, stores>>
  BY DEF PressAbort
<1>3. ASSUME NEW p \in DOMAIN opened.book
      PROVE  book[p] \in Entries /\ book[p].id = opened.book[p].id
  <2>1. opened.book[p] \in Entries
    BY <1>1, BookIs
  <2> QED
    BY <2>1 DEF Entries
<1>4. book \in Books /\ OfSession(book, s)
  <2>1. book \in [DOMAIN opened.book -> Entries] /\ DOMAIN book = DOMAIN opened.book
    BY <1>3
  <2>2. OfSession(book, s)
    BY <1>1, <1>3, <2>1 DEF OfSession
  <2> HIDE DEF book
  <2> QED
    BY <1>1, <2>1, <2>2, BookLike
<1> HIDE DEF book
<1>5. opened' \in [session : Sessions, book : Books] /\ opened'.session = s /\ opened'.book = book
  BY <1>1, <1>2, <1>4 DEF HostTypeOK
<1>6. saved' \in [Sessions -> Books] /\ \A t \in Sessions : saved'[t] = saved[t] \/ (t = s /\ saved'[t] = book)
  BY <1>1, <1>2, <1>4 DEF HostTypeOK
<1>7. HostClean'
  BY <1>1, <1>4, <1>5, <1>6 DEF HostInv, HostClean
<1>8. HostInv' /\ HostHeard'
  BY <1>1, <1>2, <1>5, <1>6, <1>7, MovesFit DEF HostInv, HostTypeOK, PlansLeft, BookThere, HostHeard, HostStates
<1>9. Plain(a) /\ Plain(b)
  BY <1>1, <1>4, ChangedIsPlain DEF HostStates
<1> HIDE DEF a, b
<1>10. PICK msgs : msgs = (<<a>> \o IF book = NoBook THEN << >> ELSE <<b>>)
  OBVIOUS
<1>11. msgs = <<a>> \/ msgs = <<a, b>>
  <2>1. <<a>> \o << >> = <<a>> /\ <<a>> \o <<b>> = <<a, b>>
    BY OneOrTwo
  <2> QED
    BY <1>10, <2>1
<1>12. Sendable(msgs)
  BY <1>1, <1>9, <1>11, OneIsSendable, TwoAreSendable
<1> QED
  BY <1>2, <1>8, <1>10, <1>12, SayStep

\* Loading the open session's runbook keeps the invariant.
LEMMA LoadKeeps ==
  ASSUME PanelInv, LoadSaved
  PROVE  PanelInv'
<1> DEFINE s == opened.session
           book == WithIds(s)
<1>1. /\ HostInv /\ HostTypeOK /\ s \in Sessions
      /\ opened.book \in Books /\ OfSession(opened.book, s)
  BY DEF PanelInv, HostInv, HostTypeOK, HostClean
<1>2. /\ opened' = [opened EXCEPT !.book = book] /\ saved[s] # NoBook
      /\ host' = "READY" /\ Moves
      /\ Say(<<Changed("PARSING", opened.book), Changed("READY", book)>>)
      /\ UNCHANGED <<saved, handoffs, approved, asked, view, stores>>
  BY DEF LoadSaved
<1>3. book \in Books /\ book \in [PhaseIds -> Entries] /\ OfSession(book, s)
  BY <1>1, <1>2, WithIdsIs
<1> HIDE DEF book
<1>4. opened' \in [session : Sessions, book : Books] /\ opened'.session = s /\ opened'.book = book
  BY <1>1, <1>2, <1>3 DEF HostTypeOK
<1>5. HostInv' /\ HostHeard'
  BY <1>1, <1>2, <1>3, <1>4, MovesFit DEF HostInv, HostTypeOK, PlansLeft, BookThere, HostClean, HostHeard, HostStates
<1>6. Plain(Changed("PARSING", opened.book)) /\ Plain(Changed("READY", book))
  BY <1>1, <1>3, ChangedIsPlain DEF HostStates
<1> QED
  BY <1>1, <1>2, <1>5, <1>6, TwoAreSendable, SayStep

\* What the host says when it starts anew.
LEMMA ResetIs ==
  ASSUME HostInv
  PROVE  /\ ResetMessages \in Seq(Messages) /\ Sendable(ResetMessages)
         /\ \A i \in 1..Len(ResetMessages) :
              ResetMessages[i].type = "snapshot" /\ ResetMessages[i].task = NoTask => ResetMessages[i].phases = NoBook
<1> DEFINE a == Changed("IDLE", opened.book)
           b == Snapshot(NoTask, "IDLE", NoBook)
<1>1. opened.book \in Books /\ OfSession(opened.book, opened.session) /\ opened.session \in Sessions
  BY DEF HostInv, HostTypeOK, HostClean
<1>2. a \in Messages /\ a.task = opened.session /\ OfSession(a.phases, a.task) /\ a.type = "snapshot"
  BY <1>1, ChangedIsPlain DEF HostStates, Plain
<1>3. b \in Messages /\ b.task = NoTask /\ b.phases = NoBook
  BY SnapshotIs, NoBookIs DEF HostStates, Names
<1> HIDE DEF a, b
<1>4. <<a, b>> \in Seq(Messages) /\ Len(<<a, b>>) = 2 /\ <<a, b>>[1] = a /\ <<a, b>>[2] = b
      /\ \A i \in 1..Len(<<a, b>>) : i = 1 \/ i = 2
  BY <1>2, <1>3
<1>5. ResetMessages = <<a, b>>
  BY DEF ResetMessages, a, b
<1>6. a.task # NoTask
  BY <1>1, <1>2, PanelAssumption
<1>7. Mended(<<a, b>>)
  BY <1>2, <1>3, <1>4 DEF Mended, Named
<1>8. \A i \in 1..Len(<<a, b>>) :
        <<a, b>>[i].type = "snapshot" /\ <<a, b>>[i].task = NoTask => <<a, b>>[i].phases = NoBook
  BY <1>3, <1>4, <1>6
<1> QED
  BY <1>4, <1>5, <1>7, <1>8 DEF Sendable

\* A new session has no runbook.
LEMMA NewRunKeeps ==
  ASSUME HostInv, Moves, NEW s \in Sessions, NewRun(s), UNCHANGED <<saved, handoffs, approved>>
  PROVE  HostInv' /\ HostHeard'
<1>1. opened'.session = s /\ opened'.book = NoBook /\ opened' \in [session : Sessions, book : Books]
  BY NoBookIs DEF NewRun
<1> QED
  BY <1>1, NoBookIs, MovesFit DEF NewRun, HostInv, HostTypeOK, PlansLeft, BookThere, HostClean, HostHeard, HostStates

\* A new session keeps the invariant.
LEMMA NewSessionKeeps ==
  ASSUME PanelInv, NEW s \in Sessions, NewSession(s)
  PROVE  PanelInv'
<1>1. HostInv
  BY DEF PanelInv
<1>2. HostInv' /\ HostHeard'
  BY <1>1, NewRunKeeps DEF NewSession
<1> QED
  BY <1>1, <1>2, ResetIs, SayStep DEF NewSession

\* The view that is cleared has not been showing a run, so that no message about one
\* rests on what it showed.
LEMMA NewChatKeeps ==
  ASSUME PanelInv, NEW s \in Sessions, PressNewChat(s)
  PROVE  PanelInv'
<1>1. /\ HostInv /\ inbox \in Seq(Messages) /\ ViewTypeOK /\ view.open
      /\ view.state # "EXECUTING_WORKER"
  BY DEF PressNewChat, PanelInv, ViewTypeOK, Messages
<1>2. HostInv' /\ HostHeard'
  BY <1>1, NewRunKeeps DEF PressNewChat
<1>3. DefaultAppState \in OpenViews
  BY NoBookIs DEF DefaultAppState, OpenViews, Names, HostStates
<1>4. /\ view' \in OpenViews /\ view'.open /\ view'.phases = NoBook
      /\ stores' \in Partly(Resources) /\ asked' \in SUBSET Fetches /\ IsFiniteSet(asked')
      /\ OwnAnswers' /\ ShownNow'
  <2>1. Renders(DefaultAppState)
    BY DEF PressNewChat
  <2>2. DefaultAppState.phases = NoBook
    BY DEF DefaultAppState
  <2> QED
    BY <1>1, <1>3, <2>1, <2>2, RendersView, RendersTypes, RendersFetches DEF PanelInv
<1>5. inbox' = inbox \o ResetMessages /\ ResetMessages \in Seq(Messages)
  BY <1>1, ResetIs DEF PressNewChat, Say, Sent
<1>6. PICK l \in Nat : l = Len(inbox)
  BY <1>1
<1>7. /\ Len(ResetMessages) \in Nat /\ Len(inbox') = l + Len(ResetMessages)
      /\ \A i \in 1..l : inbox'[i] = inbox[i]
      /\ \A i \in 1..Len(ResetMessages) : inbox'[l + i] = ResetMessages[i]
  BY <1>1, <1>5, <1>6, Appending
<1>8. Mended(inbox)'
  BY <1>1, <1>5, ResetIs, MendedAppend DEF PanelInv, MessageInv, Sendable
<1>9. ASSUME NEW i \in 1..Len(inbox'), inbox'[i].type = "snapshot", inbox'[i].task = NoTask,
             NEW p \in DOMAIN inbox'[i].phases, inbox'[i].phases[p].id # NoId
      PROVE  RunsAt(i, inbox[i].phases[p].id.session)'
  <2>1. CASE i \in 1..l
    <3>1. inbox'[i] = inbox[i]
      BY <1>7, <2>1
    <3>2. PICK t : t = inbox[i].phases[p].id.session
      OBVIOUS
    <3>3. RunsAt(i, t)
      BY <1>6, <1>9, <2>1, <3>1, <3>2 DEF PanelInv, MessageInv, UnnamedFit
    <3>4. i \in 1..(Len(inbox) + 1)
      BY <1>6, <2>1
    <3>5. RunsAt(i, t)'
      BY <1>1, <1>5, <3>3, <3>4, RunsStay
    <3> QED
      BY <3>1, <3>2, <3>5
  <2>2. CASE i \notin 1..l
    <3>1. i - l \in 1..Len(ResetMessages) /\ i = l + (i - l)
      BY <1>7, <2>2
    <3>2. inbox'[i].phases = NoBook
      BY <1>1, <1>7, <1>9, <3>1, ResetIs
    <3>3. DOMAIN << >> = {}
      OBVIOUS
    <3> QED
      BY <1>9, <3>2, <3>3 DEF NoBook
  <2> QED
    BY <2>1, <2>2
<1>10. UnnamedFit'
  BY <1>9 DEF UnnamedFit
<1>11. ViewMends' /\ ClosedIsEmpty'
  BY <1>4, NoBookIs DEF ViewMends, ClosedIsEmpty
<1>12. inbox' \in Seq(Messages)
  BY <1>1, <1>5
<1> QED
  BY <1>2, <1>4, <1>8, <1>10, <1>11, <1>12 DEF PanelInv, MessageInv, ViewTypeOK, Messages

\* Opening another session keeps the invariant: of its messages, the one with the new ids under
\* the old name has the one with the new name behind it.
LEMMA OpenSessionKeeps ==
  ASSUME PanelInv, NEW s \in Sessions, OpenSession(s)
  PROVE  PanelInv'
<1> DEFINE to == Restored(s)
           a == Changed("IDLE", opened.book)
           b == Changed("PARSING", NoBook)
           c == Changed(to.state, to.book)
           d == Snapshot(s, to.state, to.book)
           X == IF host = "IDLE" THEN << >> ELSE <<a>>
           Z == IF to.book = NoBook THEN << >> ELSE <<d>>
<1>1. /\ HostInv /\ HostTypeOK /\ opened.session \in Sessions /\ opened.session # NoTask
      /\ opened.book \in Books /\ OfSession(opened.book, opened.session) /\ s # NoTask
  BY PanelAssumption DEF PanelInv, HostInv, HostTypeOK, HostClean
<1>2. /\ host' = to.state /\ opened' = [session |-> s, book |-> to.book] /\ Moves
      /\ Say(X \o <<b, c>> \o Z) /\ s # opened.session
      /\ UNCHANGED <<saved, handoffs, approved, asked, view, stores>>
  BY DEF OpenSession, Loadable
<1>3. /\ to.state \in {"IDLE", "READY"} /\ to.book \in Books /\ OfSession(to.book, s)
      /\ to.state = "READY" => to.book \in [PhaseIds -> Entries]
  <2>1. CASE saved[s] = NoBook
    BY <2>1, NoBookIs DEF Restored
  <2>2. CASE saved[s] # NoBook
    BY <1>1, <2>2, WithIdsIs DEF Restored
  <2> QED
    BY <2>1, <2>2
<1> HIDE DEF to
<1>4. opened'.session = s /\ opened'.book = to.book /\ opened' \in [session : Sessions, book : Books]
  BY <1>2, <1>3
<1>5. HostInv' /\ HostHeard'
  BY <1>1, <1>2, <1>3, <1>4, MovesFit
     DEF HostInv, HostTypeOK, PlansLeft, BookThere, HostClean, HostHeard, HostStates
<1>6. /\ Plain(a) /\ Plain(b) /\ a.type = "snapshot" /\ b.type = "snapshot"
  BY <1>1, ChangedIsPlain, NoBookIs DEF HostStates
<1>7. /\ c \in Messages /\ c.type = "snapshot" /\ c.task = opened.session /\ c.phases = to.book
      /\ d \in Messages /\ d.type = "snapshot" /\ d.task = s /\ d.phases = to.book
  <2>1. to.state \in HostStates /\ s \in Names /\ opened.session \in Names
    BY <1>1, <1>3 DEF HostStates, Names
  <2> QED
    BY <1>3, <2>1, SnapshotIs DEF Changed
<1>8. a.task # NoTask /\ b.task # NoTask /\ c.task # NoTask /\ d.task # NoTask
  BY <1>1, <1>6, <1>7 DEF Plain
<1>9. /\ OfSession(a.phases, a.task) /\ OfSession(b.phases, b.task) /\ a \in Messages /\ b \in Messages
      /\ Mends(d, c.task)
  BY <1>1, <1>2, <1>3, <1>6, <1>7 DEF Plain, Mends, Named
<1> HIDE DEF a, b, c, d
<1>10. /\ X \in Seq(Messages) /\ Mended(X) /\ \A i \in 1..Len(X) : X[i].task # NoTask
  <2>1. /\ << >> \in Seq(Messages) /\ <<a>> \in Seq(Messages) /\ Len(<< >>) = 0
        /\ \A i \in 1..Len(<<a>>) : <<a>>[i] = a
    BY <1>9
  <2>2. Mended(<< >>) /\ Mended(<<a>>)
    BY <1>9, <2>1 DEF Mended
  <2> QED
    BY <1>8, <2>1, <2>2
<1> HIDE DEF X
<1>11. PICK Y \in Seq(Messages) : Y = <<b, c>> \o Z
  <2>1. <<b, c>> \in Seq(Messages) /\ Z \in Seq(Messages)
    BY <1>7, <1>9
  <2> HIDE DEF Z
  <2>2. <<b, c>> \o Z \in Seq(Messages)
    BY <2>1
  <2> QED
    BY <2>2
<1>12. Mended(Y) /\ \A i \in 1..Len(Y) : Y[i].task # NoTask
  <2>1. CASE to.book = NoBook
    <3>1. Len(Y) = 2 /\ Y[1] = b /\ Y[2] = c
      BY <1>7, <1>9, <1>11, <2>1
    <3>2. OfSession(c.phases, c.task)
      BY <1>7, <2>1, NoBookIs
    <3>3. \A i \in 1..Len(Y) : i = 1 \/ i = 2
      BY <3>1
    <3> QED
      BY <1>8, <1>9, <3>1, <3>2, <3>3 DEF Mended
  <2>2. CASE to.book # NoBook
    <3>1. Len(Y) = 3 /\ Y[1] = b /\ Y[2] = c /\ Y[3] = d
      BY <1>7, <1>9, <1>11, <2>2
    <3>2. OfSession(d.phases, d.task)
      BY <1>3, <1>7
    <3>3. \A i \in 1..Len(Y) : i = 1 \/ i = 2 \/ i = 3
      BY <3>1
    <3> QED
      BY <1>8, <1>9, <3>1, <3>2, <3>3 DEF Mended
  <2> QED
    BY <2>1, <2>2
<1>13. PICK msgs \in Seq(Messages) : msgs = X \o Y
  <2>1. X \o Y \in Seq(Messages)
    BY <1>10
  <2> QED
    BY <2>1
<1>14. X \o <<b, c>> \o Z = msgs
  <2>1. <<b, c>> \in Seq(Messages) /\ Z \in Seq(Messages)
    BY <1>7, <1>9
  <2> HIDE DEF Z
  <2> QED
    BY <1>10, <1>11, <1>13, <2>1, ConcatAssociative
<1>15. Mended(msgs)
  BY <1>10, <1>12, <1>13, MendedAppend
<1>16. ASSUME NEW i \in 1..Len(msgs) PROVE msgs[i].task # NoTask
  <2>1. /\ Len(X) \in Nat /\ Len(Y) \in Nat /\ Len(msgs) = Len(X) + Len(Y)
        /\ \A j \in 1..Len(X) : msgs[j] = X[j]
        /\ \A j \in 1..Len(Y) : msgs[Len(X) + j] = Y[j]
    BY <1>10, <1>13
  <2>2. CASE i \in 1..Len(X)
    BY <1>10, <2>1, <2>2
  <2>3. CASE i \notin 1..Len(X)
    <3>1. i - Len(X) \in 1..Len(Y) /\ i = Len(X) + (i - Len(X))
      BY <2>1, <2>3
    <3> QED
      BY <1>12, <2>1, <3>1
  <2> QED
    BY <2>2, <2>3
<1>17. Sendable(msgs)
  BY <1>15, <1>16 DEF Sendable
<1> QED
  BY <1>2, <1>5, <1>14, <1>17, SayStep

-----------------------------------------------------------------------------
(* The steps of the webview                                                 *)

\* A snapshot leaves a view that names a session with that session's ids only, if it
\* brings them, or if the view had them and it brings none of another.
LEMMA MergedFits ==
  ASSUME NEW v \in OpenViews, NEW m \in Snapshots
  PROVE  /\ Merged(v, m).task = IF m.task # NoTask THEN m.task ELSE v.task
         /\ Merged(v, m).state = m.state
         /\ OfSession(m.phases, Merged(v, m).task) /\ (SessionChanged(v, m) \/ OfSession(v.phases, v.task)) =>
              OfSession(Merged(v, m).phases, Merged(v, m).task)
<1> DEFINE kept == [p \in DOMAIN m.phases |->
              IF p \in DOMAIN v.phases /\ v.phases[p].id # NoId
              THEN [m.phases[p] EXCEPT !.id = v.phases[p].id]
              ELSE m.phases[p]]
           phases == IF SessionChanged(v, m) THEN m.phases ELSE kept
           task == IF m.task # NoTask THEN m.task ELSE v.task
<1>1. Merged(v, m) = [v EXCEPT !.state = m.state, !.task = task, !.phases = phases]
  BY DEF Merged
<1>2. m.phases \in Books /\ v.phases \in Books
  BY DEF Snapshots, OpenViews
<1>3. ASSUME OfSession(m.phases, task), SessionChanged(v, m) \/ OfSession(v.phases, v.task)
      PROVE  OfSession(phases, task)
  <2>1. CASE SessionChanged(v, m)
    BY <1>3, <2>1
  <2>2. CASE ~SessionChanged(v, m)
    <3>1. task = v.task /\ OfSession(v.phases, v.task)
      BY <1>3, <2>2 DEF SessionChanged
    <3>2. ASSUME NEW p \in DOMAIN kept, kept[p].id # NoId PROVE kept[p].id.session = task
      <4>1. CASE p \in DOMAIN v.phases /\ v.phases[p].id # NoId
        <5>1. m.phases[p] \in Entries
          BY <1>2, <3>2, BookIs
        <5>2. kept[p].id = v.phases[p].id
          BY <3>2, <4>1, <5>1 DEF Entries
        <5> QED
          BY <3>1, <4>1, <5>2 DEF OfSession
      <4>2. CASE ~(p \in DOMAIN v.phases /\ v.phases[p].id # NoId)
        BY <1>3, <3>2, <4>2 DEF OfSession
      <4> QED
        BY <4>1, <4>2
    <3> QED
      BY <2>2, <3>2 DEF OfSession
  <2> QED
    BY <2>1, <2>2
<1> HIDE DEF phases, task
<1>4. Merged(v, m).task = task /\ Merged(v, m).state = m.state /\ Merged(v, m).phases = phases
  BY <1>1 DEF OpenViews
<1> QED
  BY <1>3, <1>4 DEF task

\* A message that is read keeps the invariant.
LEMMA ReceiveKeeps ==
  ASSUME PanelInv, Receive
  PROVE  PanelInv'
<1> DEFINE m == Head(inbox)
<1>1. /\ inbox \in Seq(Messages) /\ inbox # << >> /\ inbox' = Tail(inbox) /\ view.open /\ view \in OpenViews
      /\ ViewTypeOK /\ UNCHANGED <<moves, host, opened, saved, handoffs, approved>>
  BY DEF Receive, PanelInv, ViewTypeOK, Messages, Closed
<1>2. /\ Len(inbox) \in Nat \ {0} /\ m = inbox[1] /\ m \in Messages /\ Len(inbox') = Len(inbox) - 1
      /\ inbox' \in Seq(Messages)
      /\ \A k \in 1..(Len(inbox) - 1) : inbox'[k] = inbox[k + 1]
  BY <1>1
<1>3. PICK l \in Nat \ {0} : l = Len(inbox)
  BY <1>2
<1> HIDE DEF m
<1>4. HostInv'
  BY <1>1 DEF PanelInv, HostInv, HostTypeOK, PlansLeft, BookThere, HostClean
<1>5. Mended(inbox)'
  BY <1>1, MendedTail DEF PanelInv, MessageInv
<1>6. ASSUME NEW v \in OpenViews, Renders(v),
             m.type = "snapshot" =>
               v.state = m.state /\ v.task = IF m.task # NoTask THEN m.task ELSE view.task,
             m.type # "snapshot" => v.state = view.state /\ v.task = view.task,
             OfSession(v.phases, v.task) \/ (inbox' # << >> /\ Mends(inbox'[1], v.task))
      PROVE  PanelInv'
  <2>1. /\ view' \in OpenViews
        /\ view'.task = v.task /\ view'.state = v.state /\ view'.phases = v.phases /\ view'.open
    BY <1>6, RendersView
  <2>2. stores' \in Partly(Resources) /\ asked' \in SUBSET Fetches /\ IsFiniteSet(asked')
    BY <1>1, <1>6, RendersTypes
  <2>3. OwnAnswers' /\ ShownNow'
    BY <1>1, <1>6, RendersFetches DEF PanelInv
  <2>4. ASSUME NEW i \in 2..(l + 1), NEW s \in Sessions, RunsAt(i, s) PROVE RunsAt(i - 1, s)'
    <3>1. /\ m.type = "snapshot" =>
               view'.state = m.state /\ view'.task = IF m.task # NoTask THEN m.task ELSE view.task
          /\ m.type # "snapshot" => view'.state = view.state /\ view'.task = view.task
      BY <1>6, <2>1
    <3> QED
      BY <1>1, <1>3, <2>1, <2>4, <3>1, RunsShift DEF m
  <2>5. UnnamedFit'
    <3> SUFFICES ASSUME NEW i \in 1..Len(inbox'), inbox'[i].type = "snapshot", inbox'[i].task = NoTask,
                        NEW p \in DOMAIN inbox'[i].phases, inbox'[i].phases[p].id # NoId
                 PROVE  RunsAt(i, inbox[i].phases[p].id.session)'
      BY DEF UnnamedFit
    <3>1. inbox'[i] = inbox[i + 1] /\ i + 1 \in 1..Len(inbox) /\ i + 1 \in 2..(l + 1) /\ i + 1 - 1 = i
      BY <1>2, <1>3
    <3>2. inbox[i + 1] \in Snapshots
      BY <1>1, <3>1 DEF Messages, StatusMessages
    <3>3. inbox[i + 1].phases[p] \in Entries
      <4>1. inbox[i + 1].phases \in Books
        BY <3>2 DEF Snapshots
      <4> QED
        BY <3>1, <4>1, BookIs
    <3>4. PICK s \in Sessions : s = inbox[i + 1].phases[p].id.session
      BY <3>1, <3>3 DEF Entries, Ids
    <3>5. RunsAt(i + 1, s)
      BY <3>1, <3>4 DEF PanelInv, MessageInv, UnnamedFit
    <3>6. RunsAt(i, s)'
      <4>1. RunsAt(i + 1 - 1, s)'
        BY <2>4, <3>1, <3>5
      <4> QED
        BY <3>1, <4>1
    <3> QED
      BY <3>1, <3>4, <3>6
  <2>6. HostHeard'
    <3> SUFFICES ASSUME host = "EXECUTING_WORKER" PROVE RunsAt(Len(inbox) + 1, opened.session)'
      BY <1>1 DEF HostHeard
    <3>1. PICK s \in Sessions : s = opened.session
      BY DEF PanelInv, HostInv, HostTypeOK
    <3>2. RunsAt(l + 1, s)
      BY <1>1, <1>3, <3>1 DEF PanelInv, HostHeard
    <3>3. l + 1 \in 2..(l + 1) /\ Len(inbox') + 1 = l + 1 - 1
      BY <1>2, <1>3
    <3>4. RunsAt(l + 1 - 1, s)'
      BY <2>4, <3>2, <3>3
    <3> QED
      BY <1>1, <3>1, <3>3, <3>4
  <2>7. ViewMends' /\ ClosedIsEmpty'
    BY <1>6, <2>1 DEF ViewMends, ClosedIsEmpty
  <2> QED
    BY <1>2, <1>4, <1>5, <2>1, <2>2, <2>3, <2>5, <2>6, <2>7 DEF PanelInv, MessageInv, ViewTypeOK, Messages
<1>7. CASE m.type = "snapshot" /\ Renders(Merged(view, m))
  <2> DEFINE v == Merged(view, m)
  <2>1. m \in Snapshots
    BY <1>2, <1>7 DEF Messages, StatusMessages
  <2>2. v \in OpenViews
    BY <1>1, <2>1, MergedIsView
  <2>3. /\ v.task = IF m.task # NoTask THEN m.task ELSE view.task
        /\ v.state = m.state
        /\ OfSession(m.phases, v.task) /\ (SessionChanged(view, m) \/ OfSession(view.phases, view.task)) =>
             OfSession(v.phases, v.task)
    BY <1>1, <2>1, MergedFits
  <2> HIDE DEF v
  <2>4. OfSession(v.phases, v.task) \/ (inbox' # << >> /\ Mends(inbox'[1], v.task))
    <3>1. OfSession(view.phases, view.task) \/ Mends(m, view.task)
      BY <1>1, <1>2 DEF PanelInv, MessageInv, ViewMends
    <3>2. CASE m.task = NoTask
      <4>1. OfSession(m.phases, view.task)
        <5>1. ASSUME NEW p \in DOMAIN m.phases, m.phases[p].id # NoId
              PROVE  m.phases[p].id.session = view.task
          <6>1. RunsAt(1, m.phases[p].id.session)
            BY <1>2, <1>7, <3>2, <5>1 DEF PanelInv, MessageInv, UnnamedFit
          <6>2. \A j \in 1..(1 - 1) : FALSE
            OBVIOUS
          <6> QED
            BY <6>1, <6>2 DEF RunsAt
        <5> QED
          BY <5>1 DEF OfSession
      <4> QED
        BY <2>3, <3>1, <3>2, <4>1 DEF Mends, Named
    <3>3. CASE m.task # NoTask /\ OfSession(m.phases, m.task)
      BY <2>3, <3>1, <3>3 DEF Mends, SessionChanged
    <3>4. CASE m.task # NoTask /\ ~OfSession(m.phases, m.task)
      <4>1. 1 < Len(inbox) /\ Mends(inbox[2], m.task)
        BY <1>2, <1>7, <3>4 DEF PanelInv, MessageInv, Mended, Named
      <4>2. inbox' # << >> /\ inbox'[1] = inbox[2]
        <5>1. 1 \in 1..(Len(inbox) - 1) /\ Len(inbox') > 0
          BY <1>2, <4>1
        <5> QED
          BY <1>2, <5>1
      <4> QED
        BY <2>3, <3>4, <4>1, <4>2
    <3> QED
      BY <3>2, <3>3, <3>4
  <2> QED
    BY <1>6, <1>7, <2>2, <2>3, <2>4 DEF v
<1>8. CASE m.type = "status" /\ Renders(WithStatus(view, m))
  <2> DEFINE v == WithStatus(view, m)
  <2>1. m \in StatusMessages
    BY <1>2, <1>8 DEF Messages, Snapshots
  <2>2. /\ v \in OpenViews /\ v.task = view.task /\ v.state = view.state
        /\ DOMAIN v.phases = DOMAIN view.phases
        /\ \A p \in DOMAIN view.phases : v.phases[p].id = view.phases[p].id
    BY <1>1, <2>1, WithStatusIsView
  <2> HIDE DEF v
  <2>3. OfSession(view.phases, view.task)
    BY <1>1, <1>2, <1>8 DEF PanelInv, MessageInv, ViewMends, Mends, Named
  <2>4. OfSession(v.phases, v.task)
    BY <2>2, <2>3 DEF OfSession
  <2> QED
    BY <1>6, <1>8, <2>2, <2>4 DEF v
<1> QED
  BY <1>7, <1>8 DEF Receive, m

\* A selection of the user keeps the invariant.
LEMMA SelectKeeps ==
  ASSUME PanelInv, NEW p \in PhaseIds, SelectPhase(p)
  PROVE  PanelInv'
<1> DEFINE v == [view EXCEPT !.selected = p, !.byUser = TRUE]
<1>1. /\ view.open /\ view \in OpenViews /\ ViewTypeOK /\ Renders(v) /\ Moves
      /\ UNCHANGED <<host, opened, saved, handoffs, approved, inbox>>
  BY DEF SelectPhase, PanelInv, ViewTypeOK, Closed
<1>2. v \in OpenViews /\ v.task = view.task /\ v.state = view.state /\ v.phases = view.phases
  BY <1>1 DEF OpenViews
<1> HIDE DEF v
<1>3. /\ view' \in OpenViews /\ view'.open
      /\ view'.task = view.task /\ view'.state = view.state /\ view'.phases = view.phases
  BY <1>1, <1>2, RendersView
<1>4. stores' \in Partly(Resources) /\ asked' \in SUBSET Fetches /\ IsFiniteSet(asked') /\ OwnAnswers' /\ ShownNow'
  BY <1>1, <1>2, RendersTypes, RendersFetches DEF PanelInv
<1>5. HostInv'
  BY <1>1, MovesFit DEF PanelInv, HostInv, HostTypeOK, PlansLeft, BookThere, HostClean
<1>6. ASSUME NEW i, NEW s, RunsAt(i, s) PROVE RunsAt(i, s)'
  BY <1>1, <1>3, <1>6, SameRuns
<1>7. HostHeard'
  <2> SUFFICES ASSUME host = "EXECUTING_WORKER" PROVE RunsAt(Len(inbox) + 1, opened.session)'
    BY <1>1 DEF HostHeard
  <2>1. PICK i, s : i = Len(inbox) + 1 /\ s = opened.session
    OBVIOUS
  <2>2. RunsAt(i, s)
    BY <1>1, <2>1 DEF PanelInv, HostHeard
  <2> QED
    BY <1>1, <1>6, <2>1, <2>2
<1>8. UnnamedFit'
  <2> SUFFICES ASSUME NEW i \in 1..Len(inbox), inbox[i].type = "snapshot", inbox[i].task = NoTask,
                      NEW q \in DOMAIN inbox[i].phases, inbox[i].phases[q].id # NoId
               PROVE  RunsAt(i, inbox[i].phases[q].id.session)'
    BY <1>1 DEF UnnamedFit
  <2>1. PICK s : s = inbox[i].phases[q].id.session
    OBVIOUS
  <2>2. RunsAt(i, s)
    BY <2>1 DEF PanelInv, MessageInv, UnnamedFit
  <2> QED
    BY <1>1, <1>6, <2>1, <2>2
<1>9. Mended(inbox)' /\ ViewMends' /\ ClosedIsEmpty'
  BY <1>1, <1>3 DEF PanelInv, MessageInv, ViewMends, ClosedIsEmpty
<1> QED
  BY <1>1, <1>3, <1>4, <1>5, <1>7, <1>8, <1>9 DEF PanelInv, MessageInv, ViewTypeOK

\* Opening the panel keeps the invariant: its first message names the session.
LEMMA OpenKeeps ==
  ASSUME PanelInv, OpenPanel
  PROVE  PanelInv'
<1>1. /\ HostInv /\ view' = DefaultAppState /\ stores' = << >> /\ inbox' = <<Current>> /\ Moves
      /\ UNCHANGED <<host, opened, saved, handoffs, approved, asked>> /\ opened.session # NoTask
  BY PanelAssumption DEF OpenPanel, PanelInv, HostInv, HostTypeOK
<1>2. Plain(Current) /\ Current.state = host /\ Current.type = "snapshot" /\ Current.task = opened.session
  BY <1>1, CurrentIs
<1>3. inbox' \in Seq(Messages) /\ Len(inbox') = 1 /\ inbox'[1] = Current /\ Mended(inbox)'
  <2>1. Sendable(<<Current>>) /\ <<Current>> \in Seq(Messages) /\ Len(<<Current>>) = 1 /\ <<Current>>[1] = Current
    BY <1>1, <1>2, OneIsSendable
  <2> QED
    BY <1>1, <2>1 DEF Sendable
<1>4. DefaultAppState \in OpenViews /\ DefaultAppState.open /\ DefaultAppState.phases = NoBook
  BY NoBookIs DEF DefaultAppState, OpenViews, Names, HostStates
<1>5. stores' \in Partly(Resources) /\ DOMAIN stores' = {}
  BY <1>1, NothingIsPartly
<1>6. HostInv'
  BY <1>1, MovesFit DEF HostInv, HostTypeOK, PlansLeft, BookThere, HostClean
<1>7. HostHeard'
  <2> SUFFICES ASSUME host = "EXECUTING_WORKER" PROVE RunsAt(Len(inbox) + 1, opened.session)'
    BY <1>1 DEF HostHeard
  <2>1. Len(inbox') + 1 = 2 /\ 1 \in 1..(2 - 1) /\ \A k \in (1 + 1)..(2 - 1) : FALSE
    BY <1>3
  <2> QED
    BY <1>1, <1>2, <1>3, <2>1 DEF RunsAt
<1>8. UnnamedFit' /\ ViewMends' /\ ClosedIsEmpty'
  BY <1>1, <1>2, <1>3, <1>4, NoBookIs DEF UnnamedFit, ViewMends, ClosedIsEmpty
<1>9. OwnAnswers' /\ ShownNow'
  BY <1>5 DEF OwnAnswers, ShownNow
<1>10. ViewTypeOK'
  BY <1>1, <1>3, <1>4, <1>5 DEF PanelInv, ViewTypeOK, Messages
<1> QED
  BY <1>3, <1>6, <1>7, <1>8, <1>9, <1>10 DEF PanelInv, MessageInv

\* Closing the panel keeps the invariant.
LEMMA CloseKeeps ==
  ASSUME PanelInv, ClosePanel
  PROVE  PanelInv'
<1>1. /\ view' = Closed /\ stores' = << >> /\ inbox' = << >> /\ Moves
      /\ UNCHANGED <<host, opened, saved, handoffs, approved, asked>>
  BY DEF ClosePanel
<1>2. stores' \in Partly(Resources) /\ DOMAIN stores' = {}
  BY <1>1, NothingIsPartly
<1>3. inbox' \in Seq(Messages) /\ Len(inbox') = 0 /\ ~view'.open
  BY <1>1 DEF Closed
<1>4. HostInv'
  BY <1>1, MovesFit DEF PanelInv, HostInv, HostTypeOK, PlansLeft, BookThere, HostClean
<1>5. MessageInv' /\ HostHeard'
  BY <1>1, <1>3 DEF MessageInv, Mended, ViewMends, UnnamedFit, ClosedIsEmpty, HostHeard
<1>6. OwnAnswers' /\ ShownNow' /\ ViewTypeOK'
  BY <1>1, <1>2, <1>3 DEF PanelInv, OwnAnswers, ShownNow, ViewTypeOK, Messages
<1> QED
  BY <1>4, <1>5, <1>6 DEF PanelInv

\* An answer keeps the invariant: it goes to resources that asked for what it brings.
LEMMA AnswerKeeps ==
  ASSUME PanelInv, NEW a \in asked, AnswerFetch(a)
  PROVE  PanelInv'
<1>1. /\ ViewTypeOK /\ asked' = asked \ {a} /\ a \in Fetches
      /\ UNCHANGED <<moves, host, opened, saved, handoffs, approved, inbox, view>>
  BY DEF AnswerFetch, PanelInv, ViewTypeOK
<1>2. PICK data \in Outcome(a) : stores' = Answered(a, data)
  BY DEF AnswerFetch
<1>3. data \subseteq {<<a.task, a.id>>} /\ data \subseteq Sessions \X Ids
  BY <1>1 DEF Outcome, Fetches
<1>4. /\ DOMAIN stores \in SUBSET PhaseIds /\ \A p \in DOMAIN stores : stores[p] \in Resources
      /\ DOMAIN stores' = DOMAIN stores
  BY <1>1, <1>2, PartlyIs DEF ViewTypeOK, Answered
<1>5. ASSUME NEW p \in DOMAIN stores
      PROVE  /\ stores'[p] \in Resources
             /\ stores'[p].task = stores[p].task /\ stores'[p].id = stores[p].id
             /\ stores'[p].data \subseteq {<<stores[p].task, stores[p].id>>}
             /\ stores'[p].request = stores[p].request \/ stores'[p].request = NoRequest
  <2>1. stores[p] \in Resources /\ stores[p].data \subseteq {<<stores[p].task, stores[p].id>>}
    BY <1>4, <1>5 DEF PanelInv, OwnAnswers
  <2>2. CASE stores[p].request = a.request
    <3>1. stores[p].task = a.task /\ stores[p].id = a.id
      BY <1>5, <2>2 DEF PanelInv, OwnAnswers
    <3>2. stores'[p] = [stores[p] EXCEPT !.request = NoRequest, !.loading = FALSE, !.data = data]
      BY <1>2, <1>5, <2>2 DEF Answered
    <3>3. [stores[p] EXCEPT !.request = NoRequest, !.loading = FALSE, !.data = data] \in Resources
      BY <1>3, <2>1 DEF Resources
    <3>4. /\ stores'[p].task = stores[p].task /\ stores'[p].id = stores[p].id
          /\ stores'[p].data = data /\ stores'[p].request = NoRequest
      BY <2>1, <3>2 DEF Resources
    <3> QED
      BY <1>3, <3>1, <3>2, <3>3, <3>4
  <2>3. CASE stores[p].request # a.request
    BY <1>2, <1>5, <2>1, <2>3 DEF Answered
  <2> QED
    BY <2>2, <2>3
<1>6. stores' \in Partly(Resources)
  <2>1. stores' \in [DOMAIN stores -> Resources]
    BY <1>2, <1>5 DEF Answered
  <2> QED
    BY <1>4, <2>1, PartlyHas
<1>7. ASSUME NEW p \in DOMAIN stores, NEW b \in asked, stores'[p].request = b.request
      PROVE  stores'[p].task = b.task /\ stores'[p].id = b.id
  <2>1. b.request # NoRequest
    BY <1>1 DEF ViewTypeOK, Fetches, Requests, NoRequest
  <2>2. stores[p].request = b.request
    BY <1>5, <1>7, <2>1
  <2> QED
    BY <1>5, <2>2 DEF PanelInv, OwnAnswers
<1>8. OwnAnswers'
  BY <1>1, <1>4, <1>5, <1>7 DEF OwnAnswers
<1>9. ShownNow'
  BY <1>1, <1>4, <1>5 DEF PanelInv, ShownNow, Chosen
<1>10. IsFiniteSet(asked')
  BY <1>1, FS_Subset DEF ViewTypeOK
<1>11. ViewTypeOK'
  BY <1>1, <1>6, <1>10 DEF ViewTypeOK
<1>12. HostInv' /\ HostHeard' /\ MessageInv'
  BY <1>1 DEF PanelInv, HostInv, HostTypeOK, PlansLeft, BookThere, HostClean, HostHeard, MessageInv, ViewMends,
     UnnamedFit, ClosedIsEmpty, RunsAt
<1> QED
  BY <1>8, <1>9, <1>11, <1>12 DEF PanelInv

\* The invariant holds at the start.
LEMMA PanelStart == PanelInit => PanelInv
<1> SUFFICES ASSUME PanelInit PROVE PanelInv
  OBVIOUS
<1>1. ASSUME NEW s \in Sessions
      PROVE  FinishedBook(s) \in [PhaseIds -> Entries] /\ OfSession(FinishedBook(s), s)
  BY <1>1, PanelAssumption DEF FinishedBook, Entry, Entries, PhaseIdOf, Ids, OfSession
<1>2. First \in Sessions /\ First \in Names /\ First # NoTask
  BY PanelAssumption DEF Names
<1>3. HostTypeOK
  <2>1. saved \in [Sessions -> Books]
    BY <1>1, NoBookIs DEF PanelInit, Books
  <2>2. handoffs \in SUBSET (Sessions \X (Ids \cup {NoId}))
    BY PanelAssumption DEF PanelInit, PhaseIdOf, Ids
  <2>3. approved \in [Sessions -> 0..MaxRuns] /\ moves \in 0..MaxMoves
    BY PanelAssumption DEF PanelInit
  <2>4. opened \in [session : Sessions, book : Books] /\ host \in HostStates
    BY <1>2, NoBookIs DEF PanelInit, HostStates
  <2> QED
    BY <2>1, <2>2, <2>3, <2>4 DEF HostTypeOK
<1>4. HostInv /\ HostHeard
  BY <1>1, <1>3, NoBookIs DEF PanelInit, HostInv, PlansLeft, BookThere, HostClean, HostHeard
<1> DEFINE m == Snapshot(First, "IDLE", NoBook)
<1>5. m \in Messages /\ m.type = "snapshot" /\ m.task = First /\ m.phases = NoBook
  BY <1>2, SnapshotIs, NoBookIs DEF HostStates
<1>6. inbox = <<m>>
  BY DEF PanelInit
<1> HIDE DEF m
<1>7. inbox \in Seq(Messages) /\ Len(inbox) = 1 /\ inbox[1] = m /\ \A i \in 1..Len(inbox) : i = 1
  BY <1>5, <1>6
<1>8. view \in OpenViews /\ view.open /\ view.phases = NoBook
  BY NoBookIs DEF PanelInit, DefaultAppState, OpenViews, Names, HostStates
<1>9. MessageInv
  BY <1>2, <1>5, <1>7, <1>8, NoBookIs DEF MessageInv, Mended, ViewMends, UnnamedFit, ClosedIsEmpty
<1>10. stores \in Partly(Resources) /\ DOMAIN stores = {} /\ asked = {} /\ IsFiniteSet(asked)
  BY NothingIsPartly, FS_EmptySet DEF PanelInit
<1>11. ViewTypeOK /\ OwnAnswers /\ ShownNow
  BY <1>7, <1>8, <1>10 DEF ViewTypeOK, OwnAnswers, ShownNow, Messages
<1> QED
  BY <1>4, <1>9, <1>11 DEF PanelInv

\* Every step keeps the invariant.
LEMMA PanelStep == PanelInv /\ [PanelNext]_panelVars => PanelInv'
<1> SUFFICES ASSUME PanelInv, [PanelNext]_panelVars PROVE PanelInv'
  OBVIOUS
<1>1. CASE Receive
  BY <1>1, ReceiveKeeps
<1>2. ASSUME NEW p \in PhaseIds, SelectPhase(p) \/ Dispatch(p) \/ Complete(p) PROVE PanelInv'
  BY <1>2, SelectKeeps, DispatchKeeps, CompleteKeeps
<1>3. CASE PressPlan \/ PlanGenerated \/ PressStart \/ Reveal
  BY <1>3, PlanStep
<1>4. CASE PressApprove \/ PressAbort \/ LoadSaved
  BY <1>4, ApproveStep, AbortKeeps, LoadKeeps
<1>5. CASE OpenPanel \/ ClosePanel
  BY <1>5, OpenKeeps, CloseKeeps
<1>6. ASSUME NEW s \in Sessions, NewSession(s) \/ PressNewChat(s) \/ OpenSession(s) PROVE PanelInv'
  BY <1>6, NewSessionKeeps, NewChatKeeps, OpenSessionKeeps
<1>7. ASSUME NEW a \in asked, AnswerFetch(a) PROVE PanelInv'
  BY <1>7, AnswerKeeps
<1>8. CASE UNCHANGED panelVars
  BY <1>8 DEF panelVars, PanelInv, HostInv, HostTypeOK, PlansLeft, BookThere, HostClean, ViewTypeOK, HostHeard, MessageInv,
     ViewMends, UnnamedFit, ClosedIsEmpty, RunsAt, OwnAnswers, ShownNow, Chosen
<1> QED
  BY <1>1, <1>2, <1>3, <1>4, <1>5, <1>6, <1>7, <1>8 DEF PanelNext

\* The code behaviour: states, runbooks, messages, fetches and resources stay what they are
\* through runs, changes of session and a panel that is closed and opened.
THEOREM PanelTypeCorrect == PanelSpec => []PanelTypeOK
<1>1. PanelInv => PanelTypeOK
  BY DEF PanelInv, HostInv, PanelTypeOK
<1> QED
  BY <1>1, PanelStart, PanelStep, PTL DEF PanelSpec

\* The code behaviour: PhaseDetails drops its resources when phase, entry or session change, and
\* a resource ignores the answers of requests that are not its last.
THEOREM HandoffIsThePhasesHolds == PanelSpec => []HandoffIsThePhases
<1>1. PanelInv => HandoffIsThePhases
  BY DEF PanelInv, OwnAnswers, ShownNow, HandoffIsThePhases
<1> QED
  BY <1>1, PanelStart, PanelStep, PTL DEF PanelSpec

\* The code behaviour: a snapshot of another session replaces the panel's phases, and the switch of
\* sessions ends with a snapshot that names the new one.
THEOREM SessionsDontMixHolds == PanelSpec => []SessionsDontMix
<1>1. PanelInv => SessionsDontMix
  BY DEF PanelInv, MessageInv, ViewMends, OfSession, SessionsDontMix
<1> QED
  BY <1>1, PanelStart, PanelStep, PTL DEF PanelSpec
=============================================================================
