--------------------------- MODULE AdkController ---------------------------
(***************************************************************************)
(* ADKController and AntigravityADKAdapter: the life of worker sessions.   *)
(*                                                                         *)
(* A worker is one call of spawnWorker and the session it creates.  The    *)
(* call awaits the eviction of the phase's old worker, the adapter's       *)
(* dispatch lock, the creation of the session and its PID file, and only   *)
(* then enters the worker in activeWorkers and listens to its exit.        *)
(* Timers and exits name the phase, not the worker: they act on whatever   *)
(* worker the map holds for it.                                            *)
(*                                                                         *)
(* Output only resets a watchdog that stays armed; it is left out, as are  *)
(* the prompt, the output caps and the modes that reuse a conversation     *)
(* (the default is "isolated").  Every handle has the extension host's own *)
(* process id, so activePids has at most one element.                      *)
(***************************************************************************)
EXTENDS Integers, Sequences, FiniteSets

CONSTANTS
  Phases, Workers,
  PhaseOf,     \* the phase a worker's spawnWorker call is for
  NoWorker,    \* no entry in a map
  Limit,       \* _maxConcurrent
  MaxCrashes   \* bound: crashes of the extension host

ASSUME NoWorkerAssumption == NoWorker \notin Workers
ASSUME PhaseOfAssumption == PhaseOf \in [Workers -> Phases]
ASSUME LimitAssumption == Limit \in Nat \ {0}

VARIABLES
  call,        \* where the worker's spawnWorker call is
  session,     \* the adapter's session
  wired,       \* workers whose handle.onExit has been called
  active,      \* activeWorkers
  timers,      \* armed timers <<worker, kind>>
  lock,        \* createSession calls in the order of dispatchLock; the first holds it
  panel,       \* whose conversation the chat panel shows
  refused,     \* calls for which the editor just refused to open a conversation
  misplaced,   \* history: workers whose prompt left the conversation opened for them
  hostPid,     \* activePids is not empty
  pidFiles,    \* phases with a PID file
  removals,    \* calls of unregisterPID on their way
  sweep,       \* PID files cleanupOrphanedWorkers still has to remove
  shutdown,    \* killAllWorkers waits its five seconds
  crashes,
  owed         \* history: workers entered in the map, less worker:exited and worker:timeout events

mapVars  == <<active, timers, hostPid, removals, owed>>
chatVars == <<lock, panel, refused, misplaced>>
vars == <<call, session, wired, mapVars, chatVars, pidFiles, sweep, shutdown, crashes>>

Stages == {"new", "evicting", "queued", "creating", "registering", "returned"}
Sessions == {"none", "dead", "running", "cancelled", "over"}
Timers == {"timeout", "watchdog"}

TypeOK ==
  /\ call \in [Workers -> Stages]
  /\ session \in [Workers -> Sessions]
  /\ wired \in SUBSET Workers
  /\ active \in [Phases -> Workers \cup {NoWorker}]
  /\ timers \in SUBSET (Workers \X Timers)
  /\ lock \in Seq(Workers)
  /\ panel \in Workers \cup {NoWorker}
  /\ refused \in SUBSET Workers
  /\ misplaced \in SUBSET Workers
  /\ hostPid \in BOOLEAN
  /\ pidFiles \in SUBSET Phases
  /\ removals \in [Phases -> Nat]
  /\ sweep \in SUBSET Phases
  /\ shutdown \in BOOLEAN
  /\ crashes \in Nat
  /\ owed \in [Phases -> Int]

Init ==
  /\ call = [w \in Workers |-> "new"]
  /\ session = [w \in Workers |-> "none"]
  /\ wired = {} /\ active = [p \in Phases |-> NoWorker] /\ timers = {}
  /\ lock = <<>> /\ panel = NoWorker /\ refused = {} /\ misplaced = {}
  /\ hostPid = FALSE /\ pidFiles = {} /\ removals = [p \in Phases |-> 0] /\ sweep = {}
  /\ shutdown = FALSE /\ crashes = 0
  /\ owed = [p \in Phases |-> 0]

-----------------------------------------------------------------------------
(* The map *)

Tracked == {p \in Phases : active[p] # NoWorker}

\* Mutant: the entries are deleted later, after the session is terminated.
ForgetTimersOnly(P) ==
  /\ timers' = {t \in timers : \A p \in P : t[1] # active[p]}
  /\ hostPid' = FALSE
  /\ UNCHANGED active

\* The entries of the phases in P, and their timers, are gone.
Forget(P) ==
  /\ active' = [p \in Phases |-> IF p \in P THEN NoWorker ELSE active[p]]
  /\ timers' = {t \in timers : \A p \in P : t[1] # active[p]}
  /\ hostPid' = FALSE

\* terminateSession: a session that is over is not found.
Cancel(P) ==
  session' = [w \in Workers |->
    IF session[w] = "running" /\ \E p \in P : active[p] = w THEN "cancelled" ELSE session[w]]

\* unregisterPID is called for the phases in P, and not awaited.
Unregister(P) == removals' = [p \in Phases |-> removals[p] + IF p \in P THEN 1 ELSE 0]

Report(P) == owed' = [p \in Phases |-> owed[p] - IF p \in P THEN 1 ELSE 0]

\* Mutant: the exit of a phase that has no worker is reported too.
OnExitUnguarded(p) ==
  /\ Forget({p})
  /\ Unregister({p})
  /\ Report({p})

\* Mutant: the PID file is not removed.
OnExitKeepingPidFile(p) ==
  /\ Forget({p} \cap Tracked)
  /\ UNCHANGED removals
  /\ Report({p} \cap Tracked)

OnExit(p) ==
  \/ p \in Tracked /\ Forget({p}) /\ Unregister({p}) /\ Report({p})
  \/ p \notin Tracked /\ UNCHANGED mapVars

-----------------------------------------------------------------------------
(* spawnWorker *)

\* Up to the first await.  Beyond the limit the call returns null.
Spawn(w) ==
  LET p == PhaseOf[w] IN
  /\ call[w] = "new"
  /\ \/ /\ Cardinality(Tracked) >= Limit
        /\ call' = [call EXCEPT ![w] = "returned"]
        /\ UNCHANGED <<session, active, timers, hostPid, lock>>
     \/ /\ Cardinality(Tracked) < Limit /\ p \in Tracked
        /\ Forget({p}) /\ Cancel({p})
        /\ call' = [call EXCEPT ![w] = "evicting"]
        /\ UNCHANGED lock
     \/ /\ Cardinality(Tracked) < Limit /\ p \notin Tracked
        /\ call' = [call EXCEPT ![w] = "queued"]
        /\ lock' = Append(lock, w)
        /\ UNCHANGED <<session, active, timers, hostPid>>
  /\ UNCHANGED <<wired, removals, owed, panel, refused, misplaced, pidFiles, sweep, shutdown,
                 crashes>>

\* terminateWorker has removed the PID file of the evicted worker.
Evicted(w) ==
  /\ call[w] = "evicting"
  /\ call' = [call EXCEPT ![w] = "queued"]
  /\ pidFiles' = pidFiles \ {PhaseOf[w]}
  /\ lock' = Append(lock, w)
  /\ UNCHANGED <<session, wired, mapVars, panel, refused, misplaced, sweep, shutdown, crashes>>

\* Mutant: createSession does not wait for its predecessors.
LockNotAwaited(w) == \E i \in DOMAIN lock : lock[i] = w

HoldsLock(w) == lock # <<>> /\ Head(lock) = w

\* The finally block of createSession.
ReleaseLock(w) == HoldsLock(w) /\ lock' = Tail(lock)

\* startNewConversation, and the delay that follows it.  A refusal of the
\* editor is only logged: the panel keeps showing what it shows.
OpenConversation(w) ==
  /\ call[w] = "queued" /\ HoldsLock(w)
  /\ call' = [call EXCEPT ![w] = "creating"]
  /\ \/ panel' = w /\ UNCHANGED refused
     \/ refused' = refused \cup {w} /\ UNCHANGED panel
  /\ UNCHANGED <<session, wired, mapVars, lock, misplaced, pidFiles, sweep, shutdown,
                 crashes>>

\* A session over the editor's language model, a session over the chat panel
\* and files, or a dead handle because the prompt could not be put in.
CreateSession(w) ==
  /\ call[w] = "creating"
  /\ \/ /\ session' = [session EXCEPT ![w] = "running"]
        /\ misplaced' \in {misplaced, misplaced \cup ({w} \ ({panel} \cup refused))}
     \/ /\ session' = [session EXCEPT ![w] = "dead"]
        /\ UNCHANGED misplaced
  /\ ReleaseLock(w)
  /\ call' = [call EXCEPT ![w] = "registering"]
  /\ refused' = refused \ {w}
  /\ UNCHANGED <<wired, mapVars, panel, pidFiles, sweep, shutdown, crashes>>

\* Mutant: no finally, the lock stays held.
CreateFailsHoldingLock(w) ==
  /\ call[w] = "creating"
  /\ call' = [call EXCEPT ![w] = "returned"]
  /\ UNCHANGED <<session, wired, mapVars, chatVars, pidFiles, sweep, shutdown, crashes>>

\* createSession throws: worker:crash, and null.
CreateFails(w) ==
  /\ call[w] = "creating"
  /\ ReleaseLock(w)
  /\ call' = [call EXCEPT ![w] = "returned"]
  /\ refused' = refused \ {w}
  /\ UNCHANGED <<session, wired, mapVars, panel, misplaced, pidFiles, sweep, shutdown,
                 crashes>>

Enter(w) ==
  /\ call[w] = "registering"
  /\ call' = [call EXCEPT ![w] = "returned"]
  /\ pidFiles' = pidFiles \cup {PhaseOf[w]}
  /\ wired' = wired \cup {w}
  /\ UNCHANGED <<session, chatVars, sweep, shutdown, crashes>>

\* Mutant: only the idle watchdog is set.
JoinWithoutTimeout(w) ==
  /\ Enter(w) /\ session[w] # "dead"
  /\ active' = [active EXCEPT ![PhaseOf[w]] = w]
  /\ timers' = timers \cup {<<w, "watchdog">>}
  /\ hostPid' = TRUE
  /\ owed' = [owed EXCEPT ![PhaseOf[w]] = @ + 1]
  /\ UNCHANGED removals

\* registerPID has returned: the worker is entered, over the one that may
\* have come in between, whose timers stay armed.
Join(w) ==
  /\ Enter(w) /\ session[w] # "dead"
  /\ active' = [active EXCEPT ![PhaseOf[w]] = w]
  /\ timers' = timers \cup {<<w, k>> : k \in Timers}
  /\ hostPid' = TRUE
  /\ owed' = [owed EXCEPT ![PhaseOf[w]] = @ + 1]
  /\ UNCHANGED removals

\* A dead handle calls back as soon as it is listened to: the worker is
\* entered, replaces what is there, and is gone.
JoinDead(w) ==
  /\ Enter(w) /\ session[w] = "dead"
  /\ active' = [active EXCEPT ![PhaseOf[w]] = NoWorker]
  /\ hostPid' = FALSE
  /\ Unregister({PhaseOf[w]})
  /\ UNCHANGED <<timers, owed>>

-----------------------------------------------------------------------------
(* Exits and timers *)

\* The session answers, fails, or notices that it was cancelled.  Before
\* onExit is called nobody hears of it.
SessionEnds(w) ==
  /\ session[w] \in {"running", "cancelled"}
  /\ session' = [session EXCEPT ![w] = "over"]
  /\ IF w \in wired THEN OnExit(PhaseOf[w]) ELSE UNCHANGED mapVars
  /\ UNCHANGED <<call, wired, chatVars, pidFiles, sweep, shutdown, crashes>>

\* onTimeout and onWatchdogFired: the phase's worker is terminated.
TimerFires(w, k) ==
  LET P == {PhaseOf[w]} \cap Tracked IN
  /\ <<w, k>> \in timers
  /\ active' = [p \in Phases |-> IF p \in P THEN NoWorker ELSE active[p]]
  /\ timers' = {t \in timers : t # <<w, k>> /\ \A p \in P : t[1] # active[p]}
  /\ hostPid' = (hostPid /\ P = {})
  /\ Cancel(P) /\ Unregister(P) /\ Report(P)
  /\ UNCHANGED <<call, wired, chatVars, pidFiles, sweep, shutdown, crashes>>

RemovePidFile(p) ==
  /\ removals[p] > 0
  /\ removals' = [removals EXCEPT ![p] = @ - 1]
  /\ pidFiles' = pidFiles \ {p}
  /\ UNCHANGED <<call, session, wired, active, timers, hostPid, owed, chatVars, sweep,
                 shutdown, crashes>>

-----------------------------------------------------------------------------
(* The end of the host *)

\* killAllWorkers: signals to the host's own process, and five seconds.
\* Without a tracked process it returns at once.
KillAllWorkers ==
  /\ ~shutdown /\ hostPid
  /\ shutdown' = TRUE
  /\ UNCHANGED <<call, session, wired, mapVars, chatVars, pidFiles, sweep, crashes>>

\* The host is still there: every worker is terminated.
TerminateAll ==
  /\ shutdown
  /\ shutdown' = FALSE
  /\ Forget(Tracked) /\ Cancel(Tracked) /\ Unregister(Tracked)
  /\ UNCHANGED <<call, wired, owed, chatVars, pidFiles, sweep, crashes>>

\* The host dies and the extension is activated again: only the PID files are
\* left, and cleanupOrphanedWorkers sets out to remove them.
Crash ==
  /\ crashes < MaxCrashes
  /\ crashes' = crashes + 1
  /\ call' = [w \in Workers |-> IF call[w] = "new" THEN "new" ELSE "returned"]
  /\ session' = [w \in Workers |-> IF session[w] = "none" THEN "none" ELSE "over"]
  /\ active' = [p \in Phases |-> NoWorker] /\ timers' = {} /\ hostPid' = FALSE
  /\ removals' = [p \in Phases |-> 0]
  /\ lock' = <<>> /\ panel' = NoWorker /\ refused' = {}
  /\ shutdown' = FALSE
  /\ sweep' = pidFiles
  /\ UNCHANGED <<wired, misplaced, pidFiles, owed>>

SweepPidFile(p) ==
  /\ p \in sweep
  /\ sweep' = sweep \ {p}
  /\ pidFiles' = pidFiles \ {p}
  /\ UNCHANGED <<call, session, wired, mapVars, chatVars, shutdown, crashes>>

-----------------------------------------------------------------------------
CallStep(w) ==
  Evicted(w) \/ OpenConversation(w) \/ CreateSession(w) \/ CreateFails(w) \/ Join(w) \/ JoinDead(w)

Next ==
  \/ \E w \in Workers :
       \/ Spawn(w) \/ CallStep(w) \/ SessionEnds(w)
       \/ \E k \in Timers : TimerFires(w, k)
  \/ \E p \in Phases : RemovePidFile(p) \/ SweepPidFile(p)
  \/ KillAllWorkers \/ TerminateAll \/ Crash

Spec == Init /\ [][Next]_vars

\* Promises are resolved, timers fire, files are unlinked; a session may be
\* silent for ever.
Fairness ==
  /\ \A w \in Workers : WF_vars(CallStep(w)) /\ WF_vars(TimerFires(w, "timeout"))
  /\ \A p \in Phases : WF_vars(RemovePidFile(p)) /\ WF_vars(SweepPidFile(p))

FairSpec == Spec /\ Fairness

-----------------------------------------------------------------------------
(* Properties *)

\* The engine hears at most once of every worker that was entered, however
\* exits, timeouts, watchdogs and evictions race: a phase never has more
\* worker:exited and worker:timeout events than it has had workers.
ReportsAreOwed == \A p \in Phases : owed[p] >= 0

\* createSession puts a prompt into the conversation opened for it, whatever
\* phases are launched side by side, unless the editor refused to open one.
OwnConversation == misplaced = {}

\* Whatever worker the map holds for a phase is one of that phase, its exit is
\* listened to, and its own timeout is armed: evictions, late exits and
\* replaced workers never leave an entry nobody watches.
EntriesAreWatched ==
  \A p \in Tracked :
    PhaseOf[active[p]] = p /\ active[p] \in wired /\ <<active[p], "timeout">> \in timers

\* A phase is not left with a worker for ever, even when the session is
\* silent, its exit came before anybody listened, or another call replaced it.
WorkersLeave == \A p \in Phases : active[p] # NoWorker ~> active[p] = NoWorker

\* Every spawnWorker call returns: a call that fails passes the lock on.
CallsReturn == \A w \in Workers : call[w] = "queued" ~> call[w] = "returned"

\* No PID file is left behind, by workers or by a host that died.
PidFilesGo == \A p \in Phases : p \in pidFiles ~> p \notin pidFiles
=============================================================================
