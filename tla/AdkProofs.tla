------------------------------ MODULE AdkProofs ------------------------------
(***************************************************************************)
(* What holds of ADKController for any phases, workers and limit: every    *)
(* report is owed, every entry of the map is watched, and no prompt goes   *)
(* into another worker's conversation.                                     *)
(***************************************************************************)
EXTENDS AdkController, TLAPS

\* Every variable of the controller keeps its type.
THEOREM TypeCorrect == Spec => []TypeOK
<1>1. Init => TypeOK
  <2> SUFFICES ASSUME Init PROVE TypeOK
    OBVIOUS
  <2>1. lock \in Seq(Workers) BY DEF Init
  <2>2. active \in [Phases -> Workers \cup {NoWorker}] BY DEF Init
  <2>3. owed \in [Phases -> Int] BY DEF Init
  <2>4. timers \in SUBSET (Workers \X Timers) BY DEF Init
  <2> QED BY <2>1, <2>2, <2>3, <2>4 DEF Init, TypeOK, Stages, Sessions
<1>2. TypeOK /\ [Next]_vars => TypeOK'
  <2> SUFFICES ASSUME TypeOK, [Next]_vars PROVE TypeOK'
    OBVIOUS
  <2> USE DEF TypeOK, Stages, Sessions, Timers
  <2>1. ASSUME NEW w \in Workers, Spawn(w) PROVE TypeOK'
    <3>1. lock' \in Seq(Workers)
      <4>1. Append(lock, w) \in Seq(Workers)
        OBVIOUS
      <4>2. lock' \in {lock, Append(lock, w)}
        BY <2>1 DEF Spawn
      <4> QED
        BY <4>1, <4>2
    <3>2. active' \in [Phases -> Workers \cup {NoWorker}]
      BY <2>1 DEF Spawn, Forget
    <3>3. timers' \in SUBSET (Workers \X Timers)
      BY <2>1 DEF Spawn, Forget
    <3>4. session' \in [Workers -> Sessions]
      BY <2>1 DEF Spawn, Cancel
    <3>5. call' \in [Workers -> Stages] /\ hostPid' \in BOOLEAN
      BY <2>1 DEF Spawn, Forget
    <3> QED
      BY <3>1, <3>2, <3>3, <3>4, <3>5, <2>1 DEF Spawn
  <2>2. ASSUME NEW w \in Workers, Evicted(w) PROVE TypeOK'
    BY <2>2, PhaseOfAssumption DEF Evicted, mapVars
  <2>3. ASSUME NEW w \in Workers, OpenConversation(w) PROVE TypeOK'
    BY <2>3 DEF OpenConversation, mapVars
  <2>4. ASSUME NEW w \in Workers, CreateSession(w) PROVE TypeOK'
    <3>1. lock' \in Seq(Workers)
      BY <2>4 DEF CreateSession, ReleaseLock, HoldsLock
    <3> QED
      BY <3>1, <2>4 DEF CreateSession, mapVars
  <2>5. ASSUME NEW w \in Workers, CreateFails(w) PROVE TypeOK'
    <3>1. lock' \in Seq(Workers)
      BY <2>5 DEF CreateFails, ReleaseLock, HoldsLock
    <3> QED
      BY <3>1, <2>5 DEF CreateFails, mapVars
  <2>6. ASSUME NEW w \in Workers, Join(w) PROVE TypeOK'
    <3>1. PhaseOf[w] \in Phases
      BY PhaseOfAssumption
    <3>2. active' \in [Phases -> Workers \cup {NoWorker}]
      BY <2>6, <3>1 DEF Join
    <3>3. timers' \in SUBSET (Workers \X Timers)
      BY <2>6 DEF Join
    <3>4. owed' \in [Phases -> Int] /\ removals' \in [Phases -> Nat]
      BY <2>6, <3>1 DEF Join
    <3> QED
      BY <3>1, <3>2, <3>3, <3>4, <2>6 DEF Join, Enter, chatVars
  <2>7. ASSUME NEW w \in Workers, JoinDead(w) PROVE TypeOK'
    <3>1. PhaseOf[w] \in Phases
      BY PhaseOfAssumption
    <3>2. active' \in [Phases -> Workers \cup {NoWorker}]
      BY <2>7, <3>1 DEF JoinDead
    <3>3. timers' \in SUBSET (Workers \X Timers)
      BY <2>7 DEF JoinDead
    <3>4. owed' \in [Phases -> Int] /\ removals' \in [Phases -> Nat]
      BY <2>7, <3>1 DEF JoinDead, Unregister
    <3> QED
      BY <3>1, <3>2, <3>3, <3>4, <2>7 DEF JoinDead, Enter, chatVars
  <2>8. ASSUME NEW w \in Workers, SessionEnds(w) PROVE TypeOK'
    <3>1. active' \in [Phases -> Workers \cup {NoWorker}]
      BY <2>8 DEF SessionEnds, OnExit, Forget, mapVars
    <3>2. timers' \in SUBSET (Workers \X Timers) /\ hostPid' \in BOOLEAN
      BY <2>8 DEF SessionEnds, OnExit, Forget, mapVars
    <3>3. removals' \in [Phases -> Nat]
      BY <2>8 DEF SessionEnds, OnExit, Unregister, mapVars
    <3>4. owed' \in [Phases -> Int]
      BY <2>8 DEF SessionEnds, OnExit, Report, mapVars
    <3> QED
      BY <3>1, <3>2, <3>3, <3>4, <2>8 DEF SessionEnds, chatVars
  <2>9. ASSUME NEW w \in Workers, NEW k \in Timers, TimerFires(w, k) PROVE TypeOK'
    BY <2>9, PhaseOfAssumption DEF TimerFires, Cancel, Unregister, Report, chatVars
  <2>10. ASSUME NEW p \in Phases, RemovePidFile(p) PROVE TypeOK'
    BY <2>10 DEF RemovePidFile, chatVars
  <2>11. ASSUME NEW p \in Phases, SweepPidFile(p) PROVE TypeOK'
    BY <2>11 DEF SweepPidFile, mapVars, chatVars
  <2>12. CASE KillAllWorkers
    BY <2>12 DEF KillAllWorkers, mapVars, chatVars
  <2>13. CASE TerminateAll
    <3>1. active' \in [Phases -> Workers \cup {NoWorker}] /\ timers' \in SUBSET (Workers \X Timers)
      BY <2>13 DEF TerminateAll, Forget
    <3>2. session' \in [Workers -> Sessions]
      BY <2>13 DEF TerminateAll, Cancel
    <3>3. removals' \in [Phases -> Nat]
      BY <2>13 DEF TerminateAll, Unregister
    <3> QED
      BY <3>1, <3>2, <3>3, <2>13 DEF TerminateAll, Forget, chatVars
  <2>14. CASE Crash
    <3>1. lock' \in Seq(Workers) /\ crashes' \in Nat
      BY <2>14 DEF Crash
    <3>2. call' \in [Workers -> Stages] /\ session' \in [Workers -> Sessions]
      BY <2>14 DEF Crash
    <3>3. active' \in [Phases -> Workers \cup {NoWorker}] /\ timers' = {}
      BY <2>14 DEF Crash
    <3>4. removals' \in [Phases -> Nat]
      BY <2>14 DEF Crash
    <3> QED
      BY <3>1, <3>2, <3>3, <3>4, <2>14 DEF Crash
  <2>15. CASE UNCHANGED vars
    BY <2>15 DEF vars, mapVars, chatVars
  <2> QED
    BY <2>1, <2>2, <2>3, <2>4, <2>5, <2>6, <2>7, <2>8, <2>9, <2>10, <2>11, <2>12, <2>13,
       <2>14, <2>15 DEF Next, CallStep
<1> QED
  BY <1>1, <1>2, PTL DEF Spec

-----------------------------------------------------------------------------
(* Reports and entries *)

\* A phase with a worker in the map still owes the engine a report.
MapInv ==
  /\ EntriesAreWatched
  /\ \A p \in Phases : owed[p] >= 0 /\ (p \in Tracked => owed[p] >= 1)

\* The steps that touch neither the map, its timers and counters, nor which
\* exits are listened to, keep MapInv.
LEMMA MapUnchanged ==
  ASSUME MapInv, UNCHANGED <<active, timers, owed, wired>>
  PROVE  MapInv'
BY DEF MapInv, EntriesAreWatched, Tracked

\* Removing entries and their timers leaves the entries of other phases
\* watched: an entry's worker belongs to its phase.
LEMMA ForgetKeepsWatch ==
  ASSUME NEW P \in SUBSET Phases, TypeOK, EntriesAreWatched, Forget(P), wired' = wired
  PROVE  /\ EntriesAreWatched'
         /\ Tracked' = Tracked \ P
<1>1. Tracked' = Tracked \ P
  BY DEF Forget, Tracked, TypeOK
<1>2. ASSUME NEW p \in Tracked' PROVE active'[p] = active[p] /\ p \in Tracked /\ p \notin P
  BY <1>1, <1>2 DEF Forget, Tracked, TypeOK
<1>3. ASSUME NEW p \in Tracked' PROVE <<active[p], "timeout">> \in timers'
  <2>1. p \in Tracked /\ <<active[p], "timeout">> \in timers /\ PhaseOf[active[p]] = p
    BY <1>2, <1>3 DEF EntriesAreWatched
  <2>2. ASSUME NEW q \in P, active[q] = active[p] PROVE FALSE
    <3>1. q \in Tracked
      BY <2>1, <2>2 DEF Tracked
    <3>2. PhaseOf[active[q]] = q
      BY <3>1 DEF EntriesAreWatched
    <3> QED
      BY <3>2, <2>1, <2>2, <1>2, <1>3
  <2> QED
    BY <2>1, <2>2 DEF Forget
<1> QED
  BY <1>1, <1>2, <1>3 DEF EntriesAreWatched

\* The map, its timers and the counts of reports keep MapInv.
THEOREM MapInvHolds == Spec => []MapInv
<1>1. Init => MapInv
  <2> SUFFICES ASSUME Init PROVE MapInv
    OBVIOUS
  <2>1. Tracked = {}
    BY DEF Init, Tracked
  <2> QED
    BY <2>1 DEF Init, MapInv, EntriesAreWatched
<1>2. TypeOK /\ MapInv /\ [Next]_vars => MapInv'
  <2> SUFFICES ASSUME TypeOK, MapInv, [Next]_vars PROVE MapInv'
    OBVIOUS
  <2>1. ASSUME NEW w \in Workers, Spawn(w) PROVE MapInv'
    <3>1. CASE UNCHANGED active
      <4>1. UNCHANGED <<active, timers, owed, wired>>
        <5>1. CASE ~Forget({PhaseOf[w]})
          BY <2>1, <5>1 DEF Spawn
        <5>2. CASE Forget({PhaseOf[w]}) /\ PhaseOf[w] \in Tracked
          <6>1. PhaseOf[w] \in Phases
            BY PhaseOfAssumption
          <6>2. active'[PhaseOf[w]] = NoWorker
            BY <5>2, <6>1 DEF Forget
          <6> QED
            BY <6>1, <6>2, <5>2, <3>1 DEF Tracked
        <5>3. CASE PhaseOf[w] \notin Tracked
          BY <2>1, <5>3 DEF Spawn
        <5> QED
          BY <5>1, <5>2, <5>3
      <4> QED
        BY <4>1, MapUnchanged
    <3>2. CASE ~UNCHANGED active
      <4>1. Forget({PhaseOf[w]}) /\ UNCHANGED <<wired, owed>>
        BY <2>1, <3>2 DEF Spawn
      <4>2. {PhaseOf[w]} \in SUBSET Phases
        BY PhaseOfAssumption
      <4>3. EntriesAreWatched' /\ Tracked' = Tracked \ {PhaseOf[w]}
        BY <4>1, <4>2, ForgetKeepsWatch DEF MapInv
      <4> QED
        BY <4>1, <4>3 DEF MapInv
    <3> QED
      BY <3>1, <3>2
  <2>2. ASSUME NEW w \in Workers, CallStep(w), ~Join(w), ~JoinDead(w) PROVE MapInv'
    BY <2>2, MapUnchanged DEF CallStep, Evicted, OpenConversation, CreateSession, CreateFails,
       mapVars
  <2>3. ASSUME NEW w \in Workers, Join(w) PROVE MapInv'
    <3>1. PhaseOf[w] \in Phases
      BY PhaseOfAssumption
    <3>2. \A p \in Phases : active'[p] = IF p = PhaseOf[w] THEN w ELSE active[p]
      BY <2>3, <3>1 DEF Join, TypeOK
    <3>3. Tracked' = Tracked \cup {PhaseOf[w]}
      BY <3>1, <3>2, NoWorkerAssumption DEF Tracked
    <3>4. timers \subseteq timers' /\ <<w, "timeout">> \in timers' /\ wired' = wired \cup {w}
      BY <2>3 DEF Join, Enter, Timers
    <3>5. EntriesAreWatched'
      <4>1. ASSUME NEW p \in Tracked'
            PROVE  /\ PhaseOf[active'[p]] = p
                   /\ active'[p] \in wired'
                   /\ <<active'[p], "timeout">> \in timers'
        <5>1. CASE p = PhaseOf[w]
          BY <5>1, <3>1, <3>2, <3>4
        <5>2. CASE p # PhaseOf[w]
          <6>1. p \in Tracked /\ active'[p] = active[p]
            BY <4>1, <5>2, <3>2, <3>3 DEF Tracked
          <6> QED
            BY <6>1, <3>4 DEF MapInv, EntriesAreWatched
        <5> QED
          BY <5>1, <5>2
      <4> QED
        BY <4>1 DEF EntriesAreWatched
    <3>6. \A p \in Phases : owed'[p] = IF p = PhaseOf[w] THEN owed[p] + 1 ELSE owed[p]
      BY <2>3, <3>1 DEF Join, TypeOK
    <3> QED
      BY <3>1, <3>3, <3>5, <3>6 DEF MapInv, TypeOK
  <2>4. ASSUME NEW w \in Workers, JoinDead(w) PROVE MapInv'
    <3>1. PhaseOf[w] \in Phases
      BY PhaseOfAssumption
    <3>2. \A p \in Phases : active'[p] = IF p = PhaseOf[w] THEN NoWorker ELSE active[p]
      BY <2>4, <3>1 DEF JoinDead, TypeOK
    <3>3. Tracked' = Tracked \ {PhaseOf[w]}
      BY <3>1, <3>2 DEF Tracked
    <3>4. timers' = timers /\ owed' = owed /\ wired \subseteq wired'
      BY <2>4 DEF JoinDead, Enter
    <3>5. ASSUME NEW p \in Tracked' PROVE p \in Tracked /\ active'[p] = active[p]
      BY <3>2, <3>3, <3>5 DEF Tracked
    <3>6. EntriesAreWatched'
      BY <3>4, <3>5 DEF MapInv, EntriesAreWatched
    <3> QED
      BY <3>3, <3>4, <3>6 DEF MapInv
  <2>5. ASSUME NEW w \in Workers, SessionEnds(w) PROVE MapInv'
    <3>1. wired' = wired /\ PhaseOf[w] \in Phases
      BY <2>5, PhaseOfAssumption DEF SessionEnds
    <3>2. CASE UNCHANGED mapVars
      BY <3>1, <3>2, MapUnchanged DEF mapVars
    <3>3. CASE /\ PhaseOf[w] \in Tracked
               /\ Forget({PhaseOf[w]}) /\ Report({PhaseOf[w]})
      <4>1. EntriesAreWatched' /\ Tracked' = Tracked \ {PhaseOf[w]}
        BY <3>1, <3>3, ForgetKeepsWatch DEF MapInv
      <4>2. \A p \in Phases : owed'[p] = owed[p] - IF p \in {PhaseOf[w]} THEN 1 ELSE 0
        BY <3>3 DEF Report
      <4> QED
        BY <3>3, <4>1, <4>2 DEF MapInv, TypeOK
    <3> QED
      BY <2>5, <3>2, <3>3 DEF SessionEnds, OnExit
  <2>6. ASSUME NEW w \in Workers, NEW k \in Timers, TimerFires(w, k) PROVE MapInv'
    <3> DEFINE P == {PhaseOf[w]} \cap Tracked
    <3>1. \A p \in Phases : active'[p] = IF p \in P THEN NoWorker ELSE active[p]
      BY <2>6 DEF TimerFires
    <3>2. Tracked' = Tracked \ P
      BY <3>1 DEF Tracked
    <3>3. ASSUME NEW p \in Tracked' PROVE <<active[p], "timeout">> \in timers'
      <4>1. p \in Tracked /\ p \notin P /\ p \in Phases
        BY <3>2, <3>3 DEF Tracked
      <4>2. PhaseOf[active[p]] = p /\ <<active[p], "timeout">> \in timers
        BY <4>1 DEF MapInv, EntriesAreWatched
      <4>3. active[p] # w
        BY <4>1, <4>2
      <4>4. ASSUME NEW q \in P PROVE active[p] # active[q]
        <5>1. PhaseOf[active[q]] = q
          BY <4>4 DEF MapInv, EntriesAreWatched
        <5> QED
          BY <5>1, <4>1, <4>2, <4>4
      <4> QED
        BY <2>6, <4>2, <4>3, <4>4 DEF TimerFires
    <3>4. EntriesAreWatched'
      <4>1. wired' = wired
        BY <2>6 DEF TimerFires
      <4> QED
        BY <3>1, <3>2, <3>3, <4>1 DEF MapInv, EntriesAreWatched, Tracked
    <3>5. \A p \in Phases : owed'[p] = owed[p] - IF p \in P THEN 1 ELSE 0
      BY <2>6 DEF TimerFires, Report
    <3> QED
      BY <3>2, <3>4, <3>5 DEF MapInv, TypeOK
  <2>7. ASSUME NEW p \in Phases, RemovePidFile(p) \/ SweepPidFile(p) PROVE MapInv'
    BY <2>7, MapUnchanged DEF RemovePidFile, SweepPidFile, mapVars
  <2>8. CASE KillAllWorkers
    BY <2>8, MapUnchanged DEF KillAllWorkers, mapVars
  <2>9. CASE TerminateAll
    <3>1. Forget(Tracked) /\ UNCHANGED <<wired, owed>> /\ Tracked \in SUBSET Phases
      BY <2>9 DEF TerminateAll, Tracked
    <3>2. EntriesAreWatched' /\ Tracked' = Tracked \ Tracked
      BY <3>1, ForgetKeepsWatch DEF MapInv
    <3> QED
      BY <3>1, <3>2 DEF MapInv
  <2>10. CASE Crash
    <3>1. Tracked' = {}
      BY <2>10 DEF Crash, Tracked
    <3>2. owed' = owed
      BY <2>10 DEF Crash
    <3> QED
      BY <3>1, <3>2 DEF MapInv, EntriesAreWatched
  <2>11. CASE UNCHANGED vars
    BY <2>11, MapUnchanged DEF vars, mapVars
  <2> QED
    BY <2>1, <2>2, <2>3, <2>4, <2>5, <2>6, <2>7, <2>8, <2>9, <2>10, <2>11 DEF Next, CallStep
<1> QED
  BY <1>1, <1>2, TypeCorrect, PTL DEF Spec

\* Every worker in the map belongs to its phase, its exit is listened to and
\* its timeout is armed: whatever spawnWorker, terminateWorker, onExit and the
\* timers do in between each other's awaits.
THEOREM EntriesAreWatchedHolds == Spec => []EntriesAreWatched
<1>1. MapInv => EntriesAreWatched
  BY DEF MapInv
<1> QED
  BY <1>1, MapInvHolds, PTL

\* onExit and terminateWorker report a worker that was entered at most once,
\* however many exits, timeouts and watchdogs there are.
THEOREM ReportsAreOwedHolds == Spec => []ReportsAreOwed
<1>1. MapInv => ReportsAreOwed
  BY DEF MapInv, ReportsAreOwed
<1> QED
  BY <1>1, MapInvHolds, PTL

-----------------------------------------------------------------------------
(* Conversations *)

\* While a session is created its call holds the lock, and the panel shows its
\* conversation unless the editor refused to open one.
LockInv ==
  /\ \A w \in Workers : call[w] = "creating" => HoldsLock(w) /\ w \in {panel} \cup refused
  /\ misplaced = {}

\* Steps that leave the chat panel alone and bring no call to its creation.
LEMMA ChatUnchanged ==
  ASSUME LockInv, UNCHANGED chatVars,
         \A w \in Workers : call'[w] = "creating" => call[w] = "creating"
  PROVE  LockInv'
BY DEF LockInv, chatVars, HoldsLock

\* No prompt is put into a conversation opened for another worker: createSession
\* holds dispatchLock from startNewConversation to the injection.
THEOREM OwnConversationHolds == Spec => []OwnConversation
<1>1. Init => LockInv
  BY DEF Init, LockInv
<1>2. TypeOK /\ LockInv /\ [Next]_vars => LockInv'
  <2> SUFFICES ASSUME TypeOK, LockInv, [Next]_vars PROVE LockInv'
    OBVIOUS
  <2>0. ASSUME NEW w \in Workers, NEW s \in Stages, s # "creating", UNCHANGED chatVars,
               call' = [call EXCEPT ![w] = s]
        PROVE  LockInv'
    <3>1. \A v \in Workers : call'[v] = "creating" => call[v] = "creating"
      BY <2>0 DEF TypeOK
    <3> QED
      BY <2>0, <3>1, ChatUnchanged
  <2>1. ASSUME NEW w \in Workers, NEW s \in Stages, s # "creating",
               lock' = Append(lock, w), UNCHANGED <<panel, refused, misplaced>>,
               call' = [call EXCEPT ![w] = s]
        PROVE  LockInv'
    <3>1. ASSUME NEW v \in Workers, HoldsLock(v) PROVE HoldsLock(v)'
      BY <2>1, <3>1 DEF HoldsLock, TypeOK
    <3>2. \A v \in Workers : call'[v] = "creating" => call[v] = "creating"
      BY <2>1 DEF TypeOK
    <3> QED
      BY <2>1, <3>1, <3>2 DEF LockInv
  <2>2. ASSUME NEW w \in Workers, Spawn(w) PROVE LockInv'
    <3>1. CASE lock' = Append(lock, w) /\ call' = [call EXCEPT ![w] = "queued"]
      BY <3>1, <2>1, <2>2 DEF Spawn, Stages
    <3>2. CASE lock' = lock /\ \E s \in {"returned", "evicting"} : call' = [call EXCEPT ![w] = s]
      BY <3>2, <2>0, <2>2 DEF Spawn, Stages, chatVars
    <3> QED
      BY <3>1, <3>2, <2>2 DEF Spawn
  <2>3. ASSUME NEW w \in Workers, Evicted(w) PROVE LockInv'
    BY <2>3, <2>1 DEF Evicted, Stages
  <2>4. ASSUME NEW w \in Workers, OpenConversation(w) PROVE LockInv'
    <3>1. \A v \in Workers \ {w} : call'[v] # "creating"
      BY <2>4 DEF OpenConversation, TypeOK, LockInv, HoldsLock
    <3>2. HoldsLock(w)' /\ w \in {panel'} \cup refused' /\ misplaced' = misplaced
      BY <2>4 DEF OpenConversation, HoldsLock
    <3> QED
      BY <3>1, <3>2 DEF LockInv
  <2>5. ASSUME NEW w \in Workers, CreateSession(w) \/ CreateFails(w) PROVE LockInv'
    <3>1. call[w] = "creating" /\ HoldsLock(w)
      BY <2>5 DEF CreateSession, CreateFails, LockInv
    <3>2. \A v \in Workers : call'[v] # "creating"
      BY <2>5, <3>1 DEF CreateSession, CreateFails, TypeOK, LockInv, HoldsLock
    <3>3. misplaced' = {}
      BY <2>5, <3>1 DEF CreateSession, CreateFails, LockInv
    <3> QED
      BY <3>2, <3>3 DEF LockInv
  <2>6. ASSUME NEW w \in Workers, Join(w) \/ JoinDead(w) PROVE LockInv'
    BY <2>6, <2>0 DEF Join, JoinDead, Enter, Stages
  <2>7. ASSUME NEW w \in Workers, SessionEnds(w) PROVE LockInv'
    BY <2>7, ChatUnchanged DEF SessionEnds
  <2>8. ASSUME NEW w \in Workers, NEW k \in Timers, TimerFires(w, k) PROVE LockInv'
    BY <2>8, ChatUnchanged DEF TimerFires
  <2>9. ASSUME NEW p \in Phases, RemovePidFile(p) \/ SweepPidFile(p) PROVE LockInv'
    BY <2>9, ChatUnchanged DEF RemovePidFile, SweepPidFile
  <2>10. CASE KillAllWorkers \/ TerminateAll
    BY <2>10, ChatUnchanged DEF KillAllWorkers, TerminateAll
  <2>11. CASE Crash
    BY <2>11 DEF Crash, LockInv
  <2>12. CASE UNCHANGED vars
    BY <2>12, ChatUnchanged DEF vars
  <2> QED
    BY <2>2, <2>3, <2>4, <2>5, <2>6, <2>7, <2>8, <2>9, <2>10, <2>11, <2>12 DEF Next, CallStep
<1>3. LockInv => OwnConversation
  BY DEF LockInv, OwnConversation
<1> QED
  BY <1>1, <1>2, <1>3, TypeCorrect, PTL DEF Spec
=============================================================================
