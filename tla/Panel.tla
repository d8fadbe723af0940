------------------------------- MODULE Panel -------------------------------
(* Mission Control: the host sends snapshots and phase states to a webview *)
(* that keeps its own copy of them, and the webview fetches handoffs by     *)
(* the task and the phase id it believes in. Messages keep their order and  *)
(* the panel may lag, be closed and be opened again.                        *)
(* The engine behind it is reduced to the steps that send something here;   *)
(* module Engine has the rest of it.                                        *)
EXTENDS Naturals, FiniteSets, Sequences

CONSTANTS
  Sessions,   \* session directory names, which are the master task ids
  First,      \* the session of the start
  Stored,     \* the sessions whose runbook is on the disk at the start, run to its end
  PhaseIds,   \* the phase numbers, the same in every runbook
  ParentsOf,  \* the dependencies of each phase
  NoTask, NoId, NoPhase,
  MaxRuns,    \* bound: plans approved in one session
  MaxMoves,   \* bound: moves of the user that are not a step of a run
  MaxLag,     \* bound: the host waits while the panel is that far behind
  MaxAsked    \* bound: the panel stands still while more fetches are open

ASSUME PanelAssumption ==
  /\ First \in Sessions \ Stored /\ Stored \subseteq Sessions
  /\ NoTask \notin Sessions
  /\ PhaseIds \subseteq Nat /\ IsFiniteSet(PhaseIds)
  /\ MaxRuns \in Nat /\ MaxMoves \in Nat
  /\ ParentsOf \in [PhaseIds -> SUBSET PhaseIds]

VARIABLES
  host,       \* the engine's state
  opened,     \* [session, book]: the open session and the engine's runbook
  saved,      \* the runbook saved in each session
  handoffs,   \* the <<task, id>> whose handoff is in the database
  approved,   \* plans approved so far in each session
  inbox,      \* messages on their way to the webview
  asked,      \* fetches the host is working on
  moves,      \* moves of the user so far
  view,       \* the webview's own state, or Closed
  stores      \* for each phase with an MCP resource: the resource's state

panelVars == <<host, opened, saved, handoffs, approved, inbox, asked, moves, view, stores>>

NoBook == << >>
Entry(status, id) == [status |-> status, id |-> id]
PhaseIdOf(s, p, n) == [session |-> s, phase |-> p, run |-> n]
NewPlan == [p \in PhaseIds |-> Entry("pending", NoId)]

Snapshot(task, state, phases) ==
  [type |-> "snapshot", task |-> task, state |-> state, phases |-> phases]
PhaseStatus(p, status) == [type |-> "status", phase |-> p, status |-> status]

-----------------------------------------------------------------------------
(* The webview                                                              *)

Closed == [open |-> FALSE]
DefaultAppState ==
  [open |-> TRUE, task |-> NoTask, state |-> "IDLE", phases |-> NoBook,
   selected |-> NoPhase, byUser |-> FALSE]

\* Whether a snapshot is of another session than the one shown.
SessionChanged(v, m) == m.task # NoTask /\ v.task # m.task

\* Within a session the id a phase already has is kept; a snapshot without a task keeps
\* the task.
Merged(v, m) ==
  [v EXCEPT
    !.state = m.state,
    !.task = IF m.task # NoTask THEN m.task ELSE @,
    !.phases =
      IF SessionChanged(v, m) THEN m.phases
      ELSE [p \in DOMAIN m.phases |->
              IF p \in DOMAIN v.phases /\ v.phases[p].id # NoId
              THEN [m.phases[p] EXCEPT !.id = v.phases[p].id]
              ELSE m.phases[p]]]

WithStatus(v, m) ==
  IF m.phase \in DOMAIN v.phases THEN [v EXCEPT !.phases[m.phase].status = m.status] ELSE v

\* While the user has chosen no phase: the running one, else a pending one, else the first.
Target(v) ==
  LET with(status) == {p \in DOMAIN v.phases : v.phases[p].status = status}
      least(S) == CHOOSE p \in S : \A q \in S : p <= q
  IN  IF with("running") # {} THEN least(with("running"))
      ELSE IF with("pending") # {} THEN least(with("pending"))
      ELSE least(DOMAIN v.phases)
Selecting(v) ==
  IF v.byUser \/ v.phases = NoBook THEN v ELSE [v EXCEPT !.selected = Target(v)]

Chosen(v) == v.open /\ v.selected \in DOMAIN v.phases

\* What a change of makes PhaseDetails drop its resources and ask anew.
Key(v) ==
  IF Chosen(v) THEN <<v.selected, v.phases[v.selected], v.task>>
  ELSE IF v.open THEN <<v.task>> ELSE << >>

Fetchable(v, p) == p \in DOMAIN v.phases /\ v.phases[p].status = "completed" /\ v.phases[p].id # NoId

\* The phases whose handoff is asked for: the selected one and those it depends on.
Wanted(v) ==
  IF Chosen(v) /\ v.task # NoTask
  THEN {p \in {v.selected} \cup ParentsOf[v.selected] : Fetchable(v, p)}
  ELSE {}

NoRequest == <<0, NoPhase>>
InUse ==
  {a.request[1] : a \in asked} \cup {stores[p].request[1] : p \in DOMAIN stores}
Fresh == CHOOSE n \in 1 .. (Cardinality(InUse) + 1) : n \notin InUse

Fetching(v) ==
  [p \in Wanted(v) |->
     [task |-> v.task, id |-> v.phases[p].id, request |-> <<Fresh, p>>,
      loading |-> TRUE, data |-> {}]]

\* The webview goes on to v: the effects select a phase and renew the resources.
Renders(v) ==
  LET next == Selecting(v) IN
  /\ Cardinality(asked) <= MaxAsked
  /\ view' = next
  /\ IF Key(next) = Key(view) THEN UNCHANGED <<stores, asked>>
     ELSE /\ stores' = Fetching(next)
          /\ asked' = asked \cup
               {[request |-> stores'[p].request, task |-> stores'[p].task, id |-> stores'[p].id] :
                  p \in DOMAIN stores'}

Receive ==
  /\ view.open /\ inbox # << >>
  /\ inbox' = Tail(inbox)
  /\ LET m == Head(inbox) IN
       \/ m.type = "snapshot" /\ Renders(Merged(view, m))
       \/ m.type = "status" /\ Renders(WithStatus(view, m))
  /\ UNCHANGED <<moves, host, opened, saved, handoffs, approved>>

Moves == moves < MaxMoves /\ moves' = moves + 1

SelectPhase(p) ==
  /\ Moves
  /\ view.open /\ p \in DOMAIN view.phases
  /\ view.selected # p \/ ~view.byUser
  /\ Renders([view EXCEPT !.selected = p, !.byUser = TRUE])
  /\ UNCHANGED <<host, opened, saved, handoffs, approved, inbox>>

-----------------------------------------------------------------------------
(* The host                                                                 *)

\* Without a panel a message is lost.
Sent(msgs) == IF view.open THEN inbox \o msgs ELSE inbox
Say(msgs) == inbox' = Sent(msgs)
Ready == Len(inbox) < MaxLag

\* Each change of the engine's state sends the open session's name and the engine's
\* runbook.
Changed(state, book) == Snapshot(opened.session, state, book)

PressPlan ==
  /\ view.open /\ view.state \in {"IDLE", "ERROR_PAUSED"} /\ host = "IDLE" /\ Ready
  /\ approved[opened.session] < MaxRuns
  /\ host' = "PLANNING"
  /\ Say(<<Changed("PLANNING", opened.book)>>)
  /\ UNCHANGED <<moves, opened, saved, handoffs, approved, asked, view, stores>>

PlanGenerated ==
  /\ host = "PLANNING" /\ Ready
  /\ host' = "PLAN_REVIEW"
  /\ Say(<<Changed("PLAN_REVIEW", opened.book), Changed("PLAN_REVIEW", NewPlan)>>)
  /\ UNCHANGED <<moves, opened, saved, handoffs, approved, asked, view, stores>>

\* The draft is saved and read back; it has no ids.
PressApprove ==
  /\ view.open /\ view.state = "PLAN_REVIEW" /\ host = "PLAN_REVIEW" /\ Ready
  /\ host' = "READY"
  /\ saved' = [saved EXCEPT ![opened.session] = NewPlan]
  /\ approved' = [approved EXCEPT ![opened.session] = @ + 1]
  /\ opened' = [opened EXCEPT !.book = NewPlan]
  /\ Say(<<Changed("PARSING", opened.book), Changed("READY", NewPlan)>>)
  /\ UNCHANGED <<moves, handoffs, asked, view, stores>>

PressStart ==
  /\ view.open /\ view.state = "READY" /\ host = "READY" /\ Ready
  /\ host' = "EXECUTING_WORKER"
  /\ Say(<<Changed("EXECUTING_WORKER", opened.book)>>)
  /\ UNCHANGED <<moves, opened, saved, handoffs, approved, asked, view, stores>>

\* A phase gets its id when it is first dispatched; that snapshot names no task.
Dispatch(p) ==
  /\ host = "EXECUTING_WORKER" /\ Ready
  /\ opened.book[p].status = "pending"
  /\ \A d \in ParentsOf[p] : opened.book[d].status = "completed"
  /\ LET id == IF opened.book[p].id # NoId THEN opened.book[p].id
               ELSE PhaseIdOf(opened.session, p, approved[opened.session])
         book == [opened.book EXCEPT ![p] = Entry("running", id)]
     IN  /\ opened' = [opened EXCEPT !.book = book]
         /\ saved' = [saved EXCEPT ![opened.session] = book]
         /\ Say(<<PhaseStatus(p, "running"), Snapshot(NoTask, host, book)>>)
  /\ UNCHANGED <<moves, host, handoffs, approved, asked, view, stores>>

\* A worker hands its work on and succeeds; the last one of all completes the run.
Complete(p) ==
  /\ host = "EXECUTING_WORKER" /\ Ready
  /\ opened.book[p].status = "running"
  /\ LET book == [opened.book EXCEPT ![p].status = "completed"]
         state == IF \A q \in PhaseIds : book[q].status = "completed"
                  THEN "COMPLETED" ELSE "EXECUTING_WORKER"
         alone == \A q \in PhaseIds : book[q].status # "running"
     IN  /\ opened' = [opened EXCEPT !.book = book]
         /\ saved' = [saved EXCEPT ![opened.session] = book]
         /\ host' = state
         /\ Say(<<PhaseStatus(p, "completed")>> \o
                  IF alone THEN <<Changed(state, book)>> ELSE << >>)
  /\ handoffs' = handoffs \cup {<<opened.session, opened.book[p].id>>}
  /\ UNCHANGED <<moves, approved, asked, view, stores>>

\* The runbook stays with the engine, its running phases pending again.
PressAbort ==
  /\ Moves
  /\ view.open /\ view.state \notin {"IDLE", "COMPLETED"}
  /\ host \notin {"IDLE", "COMPLETED"} /\ Ready
  /\ LET book == [p \in DOMAIN opened.book |->
                    IF opened.book[p].status = "running"
                    THEN [opened.book[p] EXCEPT !.status = "pending"] ELSE opened.book[p]]
     IN  /\ opened' = [opened EXCEPT !.book = book]
         /\ saved' = IF book = NoBook THEN saved ELSE [saved EXCEPT ![opened.session] = book]
         /\ Say(<<Changed("IDLE", opened.book)>> \o
                  IF book = NoBook THEN << >> ELSE <<Changed("IDLE", book)>>)
  /\ host' = "IDLE"
  /\ UNCHANGED <<handoffs, approved, asked, view, stores>>

\* Phases without an id get one when a runbook is loaded.
WithIds(s) ==
  [p \in DOMAIN saved[s] |->
     IF saved[s][p].id # NoId THEN saved[s][p]
     ELSE [saved[s][p] EXCEPT !.id = PhaseIdOf(s, p, approved[s])]]

LoadSaved ==
  /\ Moves
  /\ host = "IDLE" /\ saved[opened.session] # NoBook /\ Ready
  /\ host' = "READY"
  /\ opened' = [opened EXCEPT !.book = WithIds(opened.session)]
  /\ Say(<<Changed("PARSING", opened.book), Changed("READY", WithIds(opened.session))>>)
  /\ UNCHANGED <<saved, handoffs, approved, asked, view, stores>>

\* The engine is reset, then the container goes on to a new session: the two snapshots
\* are the old session's and one without a name.
Unused == {s \in Sessions \ {opened.session} : approved[s] = 0 /\ s \notin Stored}
ResetMessages == <<Changed("IDLE", opened.book), Snapshot(NoTask, "IDLE", NoBook)>>
NewRun(s) ==
  /\ host' = "IDLE"
  /\ opened' = [session |-> s, book |-> NoBook]

NewSession(s) ==
  /\ Moves
  /\ Ready /\ s \in Unused
  /\ NewRun(s)
  /\ Say(ResetMessages)
  /\ UNCHANGED <<saved, handoffs, approved, asked, view, stores>>

\* "+ New Chat" clears the webview before the command is on its way.
PressNewChat(s) ==
  /\ Moves
  /\ view.open /\ view.state \in {"IDLE", "READY", "COMPLETED", "ERROR_PAUSED"}
  /\ Ready /\ s \in Unused
  /\ NewRun(s)
  /\ Say(ResetMessages)
  /\ Renders(DefaultAppState)
  /\ UNCHANGED <<saved, handoffs, approved>>

\* What a session with a row in the database comes back with. One that has no runbook
\* is loaded too, and leaves the engine idle.
Listed(s) == s = First \/ saved[s] # NoBook
Loadable(s) == s # opened.session /\ Listed(s)
Restored(s) ==
  IF saved[s] = NoBook THEN [state |-> "IDLE", book |-> NoBook]
  ELSE [state |-> "READY", book |-> WithIds(s)]

SafeToSwitch == {"IDLE", "READY", "COMPLETED", "ERROR_PAUSED", "PLAN_REVIEW"}

\* A mutant of OpenSession: the snapshot under the new session's name is not sent.
OpenSessionUnnamed(s) ==
  /\ Moves
  /\ Loadable(s) /\ host \in SafeToSwitch /\ Ready
  /\ host' = Restored(s).state
  /\ opened' = [session |-> s, book |-> Restored(s).book]
  /\ Say((IF host = "IDLE" THEN << >> ELSE <<Changed("IDLE", opened.book)>>)
           \o <<Changed("PARSING", NoBook), Changed(Restored(s).state, Restored(s).book)>>)
  /\ UNCHANGED <<saved, handoffs, approved, asked, view, stores>>

\* Loading another session. The state changes still carry the old session's name, as the
\* container goes on to the new one last.
OpenSession(s) ==
  /\ Moves
  /\ Loadable(s) /\ host \in SafeToSwitch /\ Ready
  /\ LET to == Restored(s) IN
       /\ host' = to.state
       /\ opened' = [session |-> s, book |-> to.book]
       /\ Say((IF host = "IDLE" THEN << >> ELSE <<Changed("IDLE", opened.book)>>)
                \o <<Changed("PARSING", NoBook), Changed(to.state, to.book)>>
                \o IF to.book = NoBook THEN << >> ELSE <<Snapshot(s, to.state, to.book)>>)
  /\ UNCHANGED <<saved, handoffs, approved, asked, view, stores>>

\* The state as it is, for a panel that asks for it or becomes visible.
Current ==
  Snapshot(opened.session, host,
           IF opened.book # NoBook THEN opened.book
           ELSE IF host = "PLAN_REVIEW" THEN NewPlan ELSE NoBook)

Reveal ==
  /\ Moves
  /\ view.open /\ Ready /\ inbox = << >>
  /\ Say(<<Current>>)
  /\ UNCHANGED <<host, opened, saved, handoffs, approved, asked, view, stores>>

OpenPanel ==
  /\ Moves
  /\ ~view.open
  /\ view' = DefaultAppState /\ stores' = << >>
  /\ inbox' = <<Current>>
  /\ UNCHANGED <<host, opened, saved, handoffs, approved, asked>>

ClosePanel ==
  /\ Moves
  /\ view.open
  /\ view' = Closed /\ stores' = << >> /\ inbox' = << >>
  /\ UNCHANGED <<host, opened, saved, handoffs, approved, asked>>

\* A fetch ends with the handoff, with the error of a missing one, or with the timeout.
\* Its answer goes to whatever panel there is, and may overtake the other messages; a
\* resource takes only the answer of the request it made last. No data is an error.
Outcome(a) == {{}, {<<a.task, a.id>>} \cap handoffs}

\* A mutant of Answered: any resource that still loads takes it.
AnsweredAny(a, data) ==
  [p \in DOMAIN stores |->
     IF stores[p].loading
     THEN [stores[p] EXCEPT !.request = NoRequest, !.loading = FALSE, !.data = data]
     ELSE stores[p]]

Answered(a, data) ==
  [p \in DOMAIN stores |->
     IF stores[p].request = a.request
     THEN [stores[p] EXCEPT !.request = NoRequest, !.loading = FALSE, !.data = data]
     ELSE stores[p]]

AnswerFetch(a) ==
  /\ asked' = asked \ {a}
  /\ \E data \in Outcome(a) : stores' = Answered(a, data)
  /\ UNCHANGED <<moves, host, opened, saved, handoffs, approved, inbox, view>>

-----------------------------------------------------------------------------

FinishedBook(s) == [p \in PhaseIds |-> Entry("completed", PhaseIdOf(s, p, 0))]

PanelInit ==
  /\ host = "IDLE"
  /\ opened = [session |-> First, book |-> NoBook]
  /\ saved = [s \in Sessions |-> IF s \in Stored THEN FinishedBook(s) ELSE NoBook]
  /\ handoffs = {<<s, PhaseIdOf(s, p, 0)>> : s \in Stored, p \in PhaseIds}
  /\ approved = [s \in Sessions |-> 0]
  /\ view = DefaultAppState /\ stores = << >>
  /\ inbox = <<Snapshot(First, "IDLE", NoBook)>>
  /\ asked = {} /\ moves = 0

PanelNext ==
  \/ Receive
  \/ \E p \in PhaseIds : SelectPhase(p) \/ Dispatch(p) \/ Complete(p)
  \/ PressPlan \/ PlanGenerated \/ PressApprove \/ PressStart \/ PressAbort
  \/ LoadSaved \/ Reveal \/ OpenPanel \/ ClosePanel
  \/ \E s \in Sessions : NewSession(s) \/ PressNewChat(s) \/ OpenSession(s)
  \/ \E a \in asked : AnswerFetch(a)

PanelSpec == PanelInit /\ [][PanelNext]_panelVars

-----------------------------------------------------------------------------
(* Properties                                                               *)

\* What the details of a phase show as its handoff, or as a parent's, is the handoff
\* of that phase in the session shown, whatever answers were late, were given to a
\* phase selected before, or were asked for by a panel since closed.
HandoffIsThePhases ==
  \A p \in DOMAIN stores :
    /\ stores[p].data \subseteq {<<stores[p].task, stores[p].id>>}
    /\ stores[p].task = view.task
    /\ p = view.selected => stores[p].id = view.phases[p].id

\* A panel that has read all its messages shows only phase ids of the session it names:
\* ids do not leak from one session into the phases of another.
SessionsDontMix ==
  view.open /\ inbox = << >> =>
    \A p \in DOMAIN view.phases :
      view.phases[p].id # NoId => view.phases[p].id.session = view.task
=============================================================================
