---------------------------- MODULE ServicesProofs ---------------------------
(***************************************************************************)
(* What the services around a run keep safe, for any number of managers,   *)
(* windows, repositories and phases.                                       *)
(*                                                                         *)
(* The lock file and the write-ahead log of a session directory give a     *)
(* single writer, and a runbook file that is whole and not older than the  *)
(* last save that returned (StateStore).  A manager that writes has the    *)
(* process id of its own, living window in the lock file; as a live lock   *)
(* is not stale, nobody removes it, and whoever removes a stale one is     *)
(* alone (LockInv).  With a single writer, the files follow its program    *)
(* counter, and the log holds nothing older than what was last kept        *)
(* (StoreInv).  Two hypotheses are those of the runs: AtomicLock, that no  *)
(* step falls between the two halves of an access to the lock file, and    *)
(* RecoverAlone, that a recovery runs without a save beside it; without    *)
(* them TLC finds the violations that the README lists.                    *)
(*                                                                         *)
(* Returning from a sandbox branch brings back where the user was          *)
(* (GitTools); what a checkpoint reports as committed is committed         *)
(* (GitSandbox).  A rotation of snapshots deletes from a list that may be  *)
(* old; OldIsOld says that what is on it has only become older since       *)
(* (Backups).                                                              *)
(***************************************************************************)
EXTENDS StateStore, GitTools, GitSandbox, Backups, TLAPS, FiniteSetTheorems, WellFoundedInduction

-----------------------------------------------------------------------------
(* The runbook on the disk                                                 *)

\* The program counters of a writer that has its runbook.
Inside == {"wal", "tmp", "rename", "clear", "release"}

\* The saves on their way to the database have their place in the bound.
SavesFit == IsFiniteSet(Queued) /\ saves + Cardinality(Queued) <= MaxSaves

\* The lock file is that of m, with this in it.
LockIs(m, pid) == files.lock = [by |-> m, pid |-> pid]

\* Who is creating the lock file has it; who writes has his process id in it.
OwnsLock == \A m \in Managers :
  /\ At(m, "create") => LockIs(m, NoPid)
  /\ managers[m].pc \in Writing => LockIs(m, PidOf(m))

\* Who is about to remove a stale lock is alone with it.
UnlinksAlone == \A m \in Managers : At(m, "unlink") =>
  \A n \in Managers \ {m} : managers[n].pc \notin {"create", "unlink"} \cup Writing

LockInv == OwnsLock /\ UnlinksAlone

\* A recovery has no other manager beside it.
RecoversAlone == \A m, n \in Managers :
  managers[m].pc # "idle" /\ managers[m].job = "recover" /\ m # n => At(n, "idle")

\* A manager that holds a runbook: it writes one, or recovers one.
HasBook(m) ==
  \/ managers[m].pc \in Inside
  \/ managers[m].pc # "idle" /\ managers[m].job = "recover"

\* What is being saved is the newest runbook, and what is being recovered is
\* not older than the last one that was kept.
BookInHand == \A m \in Managers : HasBook(m) =>
  /\ managers[m].book \in Runbooks
  /\ managers[m].book >= kept
  /\ managers[m].book <= saves
  /\ managers[m].job = "save" => managers[m].book = saves

\* The temporary file and the runbook file are as far as their writer.
FilesFollow == \A m \in Managers :
  /\ At(m, "rename") => files.tmp = managers[m].book
  /\ At(m, "clear") => files.book = managers[m].book
  /\ At(m, "release") /\ ~managers[m].failed => files.book = managers[m].book /\ files.wal = None

\* The file is not older than the last save that returned, and the log, as long
\* as there is something in it to replay, not older either.
BookInv ==
  /\ files.book # Torn /\ kept <= files.book
  /\ files.wal \in Runbooks => kept <= files.wal /\ files.wal <= saves
  /\ files.book <= saves

\* The invariant that the proofs are about.
StoreInv == StoreTypeOK /\ SavesFit /\ LockInv /\ RecoversAlone /\ BookInHand /\ FilesFollow /\ BookInv

-----------------------------------------------------------------------------
(* Type correctness                                                        *)

\* The types of the lock, of the files and of a manager, by name.
Locks == {NoLock} \cup [by : Managers, pid : {NoPid} \cup Pids]
FileStates == [lock : Locks, wal : Content, tmp : Content, book : Content]
ManagerStates == [pc : Pcs, job : {"save", "recover"}, book : Whole, cleaned : BOOLEAN, failed : BOOLEAN]

\* The bounds as intervals of numbers.
LEMMA ContentType ==
  /\ None \in Content /\ Torn \in Content /\ None \in Whole
  /\ Whole \subseteq Content /\ Runbooks \subseteq Whole
  /\ Whole = 0..MaxSaves /\ Torn = MaxSaves + 1
  /\ Content = 0..(MaxSaves + 1) /\ Runbooks = 1..MaxSaves
  /\ None \notin Runbooks /\ Torn \notin Runbooks
BY StoreAssumption DEF Content, Whole, Torn, None, Runbooks

\* A manager at any point of its program has its type.
LEMMA ManagerType ==
  ASSUME NEW pc \in Pcs
  PROVE  Manager(pc) \in ManagerStates
BY ContentType DEF Manager, ManagerStates

\* A move of the program counter keeps the types.
LEMMA GotoType ==
  ASSUME managers \in [Managers -> ManagerStates], NEW m \in Managers, NEW pc \in Pcs, Goto(m, pc)
  PROVE  managers' \in [Managers -> ManagerStates]
BY DEF ManagerStates, Goto

\* A window's process id has its type.
LEMMA PidType ==
  ASSUME StoreTypeOK, NEW m \in Managers
  PROVE  PidOf(m) \in Pids
BY StoreAssumption DEF PidOf, Pid, Pids, StoreTypeOK

\* The saves that are on their way to the database are within the bound.
LEMMA QueuedFits ==
  ASSUME StoreTypeOK, SavesFit, NEW m \in Queued
  PROVE  saves + 1 \in Runbooks
<1>1. Cardinality(Queued) \in Nat /\ Cardinality(Queued) # 0
  BY FS_CardinalityType, FS_EmptySet DEF SavesFit
<1>2. saves \in 0..MaxSaves /\ saves + Cardinality(Queued) <= MaxSaves
  BY DEF SavesFit, StoreTypeOK
<1> QED
  BY <1>1, <1>2, StoreAssumption DEF Runbooks

\* The type invariant, with its types named.
LEMMA StoreTypes ==
  StoreTypeOK <=>
    /\ files \in FileStates
    /\ managers \in [Managers -> ManagerStates]
    /\ memory \in [Windows -> Whole] /\ disk \in Whole
    /\ deaths \in [Windows -> 0..MaxCrashes] /\ saves \in 0..MaxSaves /\ kept \in Whole
BY DEF StoreTypeOK, FileStates, ManagerStates, Locks

\* The same after a step.
LEMMA StoreTypesNext ==
  ASSUME files' \in FileStates, managers' \in [Managers -> ManagerStates],
         memory' \in [Windows -> Whole], disk' \in Whole,
         deaths' \in [Windows -> 0..MaxCrashes], saves' \in 0..MaxSaves, kept' \in Whole
  PROVE  StoreTypeOK'
BY DEF StoreTypeOK, FileStates, ManagerStates, Locks

\* Every step keeps the types.
LEMMA TypeStep ==
  ASSUME StoreTypeOK, SavesFit, [StoreNext]_storeVars
  PROVE  StoreTypeOK'
<1> USE StoreTypes, ContentType
<1>0. {"idle", "lock", "create", "unlink", "locked", "wal", "tmp", "rename", "clear", "release"} \subseteq Pcs
  BY DEF Pcs
<1>w. \A m \in Managers : WindowOf[m] \in Windows
  BY StoreAssumption
<1>1. ASSUME NEW m \in Managers, Create(m) PROVE StoreTypeOK'
  <2>1. files' \in FileStates
    BY <1>1 DEF Create, FileStates, Locks
  <2> QED
    BY StoreTypesNext, <1>0, <1>1, <2>1, GotoType DEF Create
<1>2. ASSUME NEW m \in Managers, WritePid(m) PROVE StoreTypeOK'
  <2>1. PidOf(m) \in Pids
    BY PidType
  <2>2. files' \in FileStates
    BY <1>2, <2>1 DEF WritePid, FileStates, Locks
  <2> QED
    BY StoreTypesNext, <1>0, <1>2, <2>2, GotoType DEF WritePid
<1>3. ASSUME NEW m \in Managers, ReadLock(m) PROVE StoreTypeOK'
  <2>1. managers' \in [Managers -> ManagerStates]
    <3>1. CASE IsStale(files.lock)
      <4>1. managers' = [managers EXCEPT ![m].pc = "unlink", ![m].cleaned = FALSE]
        BY <1>3, <3>1, Zenon DEF ReadLock
      <4> QED
        BY <1>0, <4>1 DEF ManagerStates
    <3>2. CASE ~IsStale(files.lock)
      <4>1. managers' = [managers EXCEPT ![m].pc = "lock", ![m].cleaned = TRUE]
        BY <1>3, <3>2, Zenon DEF ReadLock
      <4> QED
        BY <1>0, <4>1 DEF ManagerStates
    <3> QED
      BY <3>1, <3>2
  <2> QED
    BY StoreTypesNext, <1>3, <2>1 DEF ReadLock
<1>4. ASSUME NEW m \in Managers, UnlinkStale(m) PROVE StoreTypeOK'
  <2>1. managers' \in [Managers -> ManagerStates]
    BY <1>0, <1>4 DEF UnlinkStale, ManagerStates
  <2>2. files' \in FileStates
    BY <1>4 DEF UnlinkStale, FileStates, Locks
  <2> QED
    BY StoreTypesNext, <1>4, <2>1, <2>2 DEF UnlinkStale
<1>5. ASSUME NEW m \in Managers, LockTimeout(m) PROVE StoreTypeOK'
  BY StoreTypesNext, <1>0, <1>5, ManagerType DEF LockTimeout
<1>6. ASSUME NEW m \in Managers, UpsertRunbook(m) PROVE StoreTypeOK'
  <2>1. saves' \in Runbooks
    BY <1>6, QueuedFits DEF UpsertRunbook, Queued, At
  <2>2. managers' \in [Managers -> ManagerStates]
    <3>1. [managers[m] EXCEPT !.pc = "wal", !.book = saves'] \in ManagerStates
      BY <1>0, <2>1 DEF ManagerStates
    <3> QED
      BY <1>6, <3>1 DEF UpsertRunbook
  <2>3. files' \in FileStates
    BY <1>6 DEF UpsertRunbook, FileStates
  <2> QED
    BY StoreTypesNext, <1>w, <1>6, <2>1, <2>2, <2>3 DEF UpsertRunbook
<1>7. ASSUME NEW m \in Managers, WriteWal(m) PROVE StoreTypeOK'
  <2>1. files' \in FileStates
    BY <1>7 DEF WriteWal, FileStates, ManagerStates
  <2> QED
    BY StoreTypesNext, <1>0, <1>7, <2>1, GotoType DEF WriteWal
<1>8. ASSUME NEW m \in Managers, WriteBook(m) PROVE StoreTypeOK'
  <2>1. files' \in FileStates
    BY <1>8 DEF WriteBook, FileStates, ManagerStates
  <2> QED
    BY StoreTypesNext, <1>0, <1>8, <2>1, GotoType DEF WriteBook
<1>9. ASSUME NEW m \in Managers, RenameBook(m) PROVE StoreTypeOK'
  <2>1. files' \in FileStates
    BY <1>9 DEF RenameBook, FileStates
  <2>2. memory' \in [Windows -> Whole]
    BY <1>9 DEF RenameBook, ManagerStates
  <2> QED
    BY StoreTypesNext, <1>0, <1>9, <2>1, <2>2, GotoType DEF RenameBook
<1>10. ASSUME NEW m \in Managers, ClearWal(m) PROVE StoreTypeOK'
  <2>1. files' \in FileStates
    BY <1>10 DEF ClearWal, FileStates
  <2> QED
    BY StoreTypesNext, <1>0, <1>10, <2>1, GotoType DEF ClearWal
<1>11. ASSUME NEW m \in Managers, WriteFails(m) PROVE StoreTypeOK'
  <2>1. managers' \in [Managers -> ManagerStates]
    BY <1>0, <1>11 DEF WriteFails, ManagerStates
  <2> QED
    BY StoreTypesNext, <1>11, <2>1 DEF WriteFails
<1>12. ASSUME NEW m \in Managers, OpenTmp(m) PROVE StoreTypeOK'
  <2>1. files' \in FileStates
    BY <1>12 DEF OpenTmp, FileStates
  <2> QED
    BY StoreTypesNext, <1>0, <1>12, <2>1, GotoType DEF OpenTmp
<1>13. ASSUME NEW m \in Managers, Release(m) PROVE StoreTypeOK'
  <2>1. files' \in FileStates
    BY <1>13 DEF Release, FileStates, Locks
  <2>2. kept' \in Whole
    BY <1>13 DEF Release, ManagerStates
  <2> QED
    BY StoreTypesNext, <1>0, <1>13, <2>1, <2>2, ManagerType DEF Release
<1>14. ASSUME NEW m \in Managers, Save(m) PROVE StoreTypeOK'
  <2>1. [Manager("lock") EXCEPT !.job = "save"] \in ManagerStates
    BY <1>0 DEF ManagerStates, Manager
  <2> QED
    BY StoreTypesNext, <1>14, <2>1 DEF Save, Acquire
<1>15. ASSUME NEW m \in Managers, LoadRunbook(m) PROVE StoreTypeOK'
  <2>1. Loaded(m) \in Content \ {Torn}
    BY <1>w, <1>15 DEF LoadRunbook, Loaded, FileStates
  <2>2. Loaded(m) \in Whole
    BY <2>1, StoreAssumption
  <2>3. memory' \in [Windows -> Whole]
    BY <1>15, <2>2 DEF LoadRunbook
  <2> QED
    BY StoreTypesNext, <1>15, <2>3 DEF LoadRunbook
<1>16. ASSUME NEW m \in Managers, RecoverFromCrash(m) PROVE StoreTypeOK'
  <2>1. files' \in FileStates
    BY <1>16 DEF RecoverFromCrash, FileStates, Locks
  <2>2. managers' \in [Managers -> ManagerStates]
    <3>1. ASSUME files.wal \in Runbooks
          PROVE  [Manager("lock") EXCEPT !.job = "recover", !.book = files.wal] \in ManagerStates
      BY <1>0, <3>1 DEF ManagerStates, Manager
    <3> QED
      BY <1>16, <3>1 DEF RecoverFromCrash
  <2> QED
    BY StoreTypesNext, <1>16, <2>1, <2>2 DEF RecoverFromCrash
<1>17. ASSUME NEW w \in Windows, FlushDb(w) PROVE StoreTypeOK'
  BY StoreTypesNext, <1>17 DEF FlushDb
<1>18. ASSUME NEW w \in Windows, Die(w) PROVE StoreTypeOK'
  <2>1. deaths' \in [Windows -> 0..MaxCrashes]
    BY <1>18, StoreAssumption DEF Die
  <2> QED
    BY StoreTypesNext, <1>0, <1>18, <2>1, ManagerType DEF Die
<1>19. CASE UNCHANGED storeVars
  BY StoreTypesNext, <1>19 DEF storeVars
<1> QED
  BY <1>1, <1>2, <1>3, <1>4, <1>5, <1>6, <1>7, <1>8, <1>9, <1>10, <1>11, <1>12, <1>13, <1>14, <1>15, <1>16,
     <1>17, <1>18, <1>19 DEF StoreNext, Attempt

-----------------------------------------------------------------------------
(* The bound on the saves *)

\* A step that queues nothing keeps the bound on the saves.
LEMMA FitsLess ==
  ASSUME StoreTypeOK, SavesFit, Queued' \subseteq Queued, saves' = saves
  PROVE  SavesFit'
<1>1. IsFiniteSet(Queued') /\ Cardinality(Queued') <= Cardinality(Queued)
  BY FS_Subset DEF SavesFit
<1>2. Cardinality(Queued) \in Nat /\ Cardinality(Queued') \in Nat
  BY <1>1, FS_CardinalityType DEF SavesFit
<1>3. saves \in Nat
  BY DEF StoreTypeOK
<1> QED
  BY <1>1, <1>2, <1>3, StoreAssumption DEF SavesFit

\* Every step keeps the bound on the saves.
LEMMA FitsStep ==
  ASSUME StoreTypeOK, SavesFit, [StoreNext]_storeVars
  PROVE  SavesFit'
<1>0. managers \in [Managers -> ManagerStates] /\ saves \in Nat
  BY DEF StoreTypeOK, ManagerStates
<1>1. ASSUME NEW m \in Managers, UpsertRunbook(m) PROVE SavesFit'
  <2>1. Queued' = Queued \ {m} /\ m \in Queued
    BY <1>0, <1>1 DEF UpsertRunbook, Queued, At, ManagerStates
  <2>2. IsFiniteSet(Queued') /\ Cardinality(Queued') = Cardinality(Queued) - 1 /\ Cardinality(Queued) \in Nat
    BY <2>1, FS_RemoveElement, FS_CardinalityType DEF SavesFit
  <2>3. saves' = saves + 1
    BY <1>1 DEF UpsertRunbook
  <2> QED
    BY <1>0, <2>2, <2>3, StoreAssumption DEF SavesFit
<1>2. ASSUME NEW m \in Managers, Save(m) PROVE SavesFit'
  <2>1. Queued' = Queued \cup {m} /\ m \notin Queued
    BY <1>0, <1>2 DEF Save, Acquire, Manager, Queued, At, ManagerStates
  <2>2. IsFiniteSet(Queued') /\ Cardinality(Queued') = Cardinality(Queued) + 1 /\ Cardinality(Queued) \in Nat
    BY <2>1, FS_AddElement, FS_CardinalityType DEF SavesFit
  <2>3. saves' = saves /\ saves + Cardinality(Queued) < MaxSaves
    BY <1>2 DEF Save
  <2> QED
    BY <1>0, <2>2, <2>3, StoreAssumption DEF SavesFit
<1> USE <1>0, FitsLess DEF Queued, At, Goto, Manager, ManagerStates
<1>3. ASSUME NEW m \in Managers, Create(m) \/ WritePid(m) \/ UnlinkStale(m) \/ ReadLock(m) PROVE SavesFit'
  BY <1>3 DEF Create, WritePid, UnlinkStale, ReadLock
<1>4. ASSUME NEW m \in Managers, LockTimeout(m) \/ Release(m) PROVE SavesFit'
  BY <1>4 DEF LockTimeout, Release
<1>5. ASSUME NEW m \in Managers, WriteWal(m) \/ WriteBook(m) \/ RenameBook(m) PROVE SavesFit'
  BY <1>5 DEF WriteWal, WriteBook, RenameBook
<1>6. ASSUME NEW m \in Managers, ClearWal(m) \/ WriteFails(m) \/ OpenTmp(m) PROVE SavesFit'
  BY <1>6 DEF ClearWal, WriteFails, OpenTmp
<1>7. ASSUME NEW m \in Managers, LoadRunbook(m) PROVE SavesFit'
  BY <1>7 DEF LoadRunbook
<1>8. ASSUME NEW m \in Managers, RecoverFromCrash(m) PROVE SavesFit'
  BY <1>8 DEF RecoverFromCrash
<1>9. ASSUME NEW w \in Windows, FlushDb(w) \/ Die(w) PROVE SavesFit'
  BY <1>9 DEF FlushDb, Die
<1>10. CASE UNCHANGED storeVars
  BY <1>10 DEF storeVars
<1> QED
  BY <1>1, <1>2, <1>3, <1>4, <1>5, <1>6, <1>7, <1>8, <1>9, <1>10 DEF StoreNext, Attempt

-----------------------------------------------------------------------------
(* The lock *)

\* A lock that is held by a live process is not stale.
LEMMA HeldNotStale ==
  ASSUME NEW m \in Managers, LockIs(m, PidOf(m))
  PROVE  ~IsStale(files.lock)
<1>1. files.lock.pid = Pid(WindowOf[m]) /\ WindowOf[m] \in Windows
  BY StoreAssumption DEF LockIs, PidOf
<1> QED
  BY <1>1 DEF IsStale, IsAlive

\* The lock file is of one manager and has one process id in it.
LEMMA LockHasOneOwner ==
  ASSUME NEW m, NEW n, NEW p, NEW q, LockIs(m, p), LockIs(n, q)
  PROVE  m = n /\ p = q
BY DEF LockIs

\* A lock that is somebody's is a lock.
LEMMA HeldIsLocked ==
  ASSUME NEW m, NEW p, LockIs(m, p)
  PROVE  files.lock # NoLock /\ files.lock.by = m
<1>1. "pid" \in DOMAIN files.lock /\ "pid" \notin DOMAIN NoLock
  BY DEF LockIs, NoLock
<1> QED
  BY <1>1 DEF LockIs

\* A manager that moves on inside its critical section, or leaves the wait for
\* it, with the lock file as it was, disturbs nobody's lock.
LEMMA LockKept ==
  ASSUME LockInv, NEW m \in Managers,
         files'.lock = files.lock, deaths' = deaths,
         \A n \in Managers \ {m} : managers'[n] = managers[n],
         managers'[m].pc \notin {"create", "unlink"},
         managers'[m].pc \in Writing => managers[m].pc \in Writing
  PROVE  LockInv'
BY DEF LockInv, OwnsLock, UnlinksAlone, LockIs, PidOf, Pid, At

\* Every step keeps the owner of the lock, when accesses to it are atomic.
LEMMA LockStep ==
  ASSUME AtomicLock, StoreTypeOK, LockInv, [StoreNext]_storeVars
  PROVE  LockInv'
<1>0. /\ managers \in [Managers -> ManagerStates] /\ files \in FileStates
      /\ \A m \in Managers : WindowOf[m] \in Windows
  BY StoreTypes, StoreAssumption
<1>1. ASSUME NEW m \in Managers, LockTimeout(m) PROVE LockInv'
  <2>1. files'.lock = files.lock /\ deaths' = deaths
    BY <1>0, <1>1 DEF LockTimeout, FileStates
  <2>2. \A n \in Managers \ {m} : managers'[n] = managers[n]
    BY <1>0, <1>1 DEF LockTimeout, Goto
  <2>3. managers'[m].pc \notin {"create", "unlink"} /\ (managers'[m].pc \in Writing => managers[m].pc \in Writing)
    BY <1>0, <1>1 DEF LockTimeout, Goto, At, Manager, ManagerStates, Writing
  <2> QED
    BY <2>1, <2>2, <2>3, LockKept
<1>2. ASSUME NEW m \in Managers, UpsertRunbook(m) PROVE LockInv'
  <2>1. files'.lock = files.lock /\ deaths' = deaths
    BY <1>0, <1>2 DEF UpsertRunbook, FileStates
  <2>2. \A n \in Managers \ {m} : managers'[n] = managers[n]
    BY <1>0, <1>2 DEF UpsertRunbook, Goto
  <2>3. managers'[m].pc \notin {"create", "unlink"} /\ (managers'[m].pc \in Writing => managers[m].pc \in Writing)
    BY <1>0, <1>2 DEF UpsertRunbook, Goto, At, Manager, ManagerStates, Writing
  <2> QED
    BY <2>1, <2>2, <2>3, LockKept
<1>3. ASSUME NEW m \in Managers, WriteWal(m) PROVE LockInv'
  <2>1. files'.lock = files.lock /\ deaths' = deaths
    BY <1>0, <1>3 DEF WriteWal, FileStates
  <2>2. \A n \in Managers \ {m} : managers'[n] = managers[n]
    BY <1>0, <1>3 DEF WriteWal, Goto
  <2>3. managers'[m].pc \notin {"create", "unlink"} /\ (managers'[m].pc \in Writing => managers[m].pc \in Writing)
    BY <1>0, <1>3 DEF WriteWal, Goto, At, Manager, ManagerStates, Writing
  <2> QED
    BY <2>1, <2>2, <2>3, LockKept
<1>4. ASSUME NEW m \in Managers, WriteBook(m) PROVE LockInv'
  <2>1. files'.lock = files.lock /\ deaths' = deaths
    BY <1>0, <1>4 DEF WriteBook, FileStates
  <2>2. \A n \in Managers \ {m} : managers'[n] = managers[n]
    BY <1>0, <1>4 DEF WriteBook, Goto
  <2>3. managers'[m].pc \notin {"create", "unlink"} /\ (managers'[m].pc \in Writing => managers[m].pc \in Writing)
    BY <1>0, <1>4 DEF WriteBook, Goto, At, Manager, ManagerStates, Writing
  <2> QED
    BY <2>1, <2>2, <2>3, LockKept
<1>5. ASSUME NEW m \in Managers, RenameBook(m) PROVE LockInv'
  <2>1. files'.lock = files.lock /\ deaths' = deaths
    BY <1>0, <1>5 DEF RenameBook, FileStates
  <2>2. \A n \in Managers \ {m} : managers'[n] = managers[n]
    BY <1>0, <1>5 DEF RenameBook, Goto
  <2>3. managers'[m].pc \notin {"create", "unlink"} /\ (managers'[m].pc \in Writing => managers[m].pc \in Writing)
    BY <1>0, <1>5 DEF RenameBook, Goto, At, Manager, ManagerStates, Writing
  <2> QED
    BY <2>1, <2>2, <2>3, LockKept
<1>6. ASSUME NEW m \in Managers, ClearWal(m) PROVE LockInv'
  <2>1. files'.lock = files.lock /\ deaths' = deaths
    BY <1>0, <1>6 DEF ClearWal, FileStates
  <2>2. \A n \in Managers \ {m} : managers'[n] = managers[n]
    BY <1>0, <1>6 DEF ClearWal, Goto
  <2>3. managers'[m].pc \notin {"create", "unlink"} /\ (managers'[m].pc \in Writing => managers[m].pc \in Writing)
    BY <1>0, <1>6 DEF ClearWal, Goto, At, Manager, ManagerStates, Writing
  <2> QED
    BY <2>1, <2>2, <2>3, LockKept
<1>7. ASSUME NEW m \in Managers, WriteFails(m) PROVE LockInv'
  <2>1. files'.lock = files.lock /\ deaths' = deaths
    BY <1>0, <1>7 DEF WriteFails, FileStates
  <2>2. \A n \in Managers \ {m} : managers'[n] = managers[n]
    BY <1>0, <1>7 DEF WriteFails, Goto
  <2>3. managers'[m].pc \notin {"create", "unlink"} /\ (managers'[m].pc \in Writing => managers[m].pc \in Writing)
    BY <1>0, <1>7 DEF WriteFails, Goto, At, Manager, ManagerStates, Writing
  <2> QED
    BY <2>1, <2>2, <2>3, LockKept
<1>8. ASSUME NEW m \in Managers, OpenTmp(m) PROVE LockInv'
  <2>1. files'.lock = files.lock /\ deaths' = deaths
    BY <1>0, <1>8 DEF OpenTmp, FileStates
  <2>2. \A n \in Managers \ {m} : managers'[n] = managers[n]
    BY <1>0, <1>8 DEF OpenTmp, Goto
  <2>3. managers'[m].pc \notin {"create", "unlink"} /\ (managers'[m].pc \in Writing => managers[m].pc \in Writing)
    BY <1>0, <1>8 DEF OpenTmp, Goto, At, Manager, ManagerStates, Writing
  <2> QED
    BY <2>1, <2>2, <2>3, LockKept
<1> USE <1>0, HeldIsLocked, LockHasOneOwner DEF LockInv, OwnsLock, UnlinksAlone, At, Goto, Manager, ManagerStates, Writing
<1>9. ASSUME NEW m \in Managers, Create(m) PROVE LockInv'
  <2>1. \A n \in Managers \ {m} : managers[n].pc \notin {"create", "unlink"} \cup Writing
    BY <1>9 DEF Create, Undisturbed
  <2>2. files'.lock = [by |-> m, pid |-> NoPid]
    BY <1>9 DEF Create
  <2> QED
    BY <1>9, <2>1, <2>2 DEF Create, LockIs
<1>10. ASSUME NEW m \in Managers, WritePid(m) PROVE LockInv'
  <2>1. files.lock = [by |-> m, pid |-> NoPid] /\ files.lock # NoLock
    BY <1>10 DEF WritePid, LockIs
  <2>2. files'.lock = [by |-> m, pid |-> PidOf(m)]
    BY <1>10, <2>1 DEF WritePid
  <2>3. ASSUME NEW n \in Managers \ {m} PROVE managers[n].pc \notin {"create", "unlink"} \cup Writing
    <3>1. At(m, "create") /\ LockIs(m, NoPid)
      BY <1>10 DEF WritePid
    <3>2. ~LockIs(n, NoPid) /\ ~LockIs(n, PidOf(n))
      BY <3>1
    <3> QED
      BY <3>1, <3>2
  <2> QED
    BY <1>10, <2>2, <2>3 DEF WritePid, LockIs, PidOf, Pid
<1>11. ASSUME NEW m \in Managers, ReadLock(m) PROVE LockInv'
  <2>1. ASSUME IsStale(files.lock), NEW n \in Managers \ {m}
        PROVE  managers[n].pc \notin {"create", "unlink"} \cup Writing
    BY <1>11, <2>1, HeldNotStale DEF ReadLock, Undisturbed
  <2> QED
    BY <1>11, <2>1 DEF ReadLock, LockIs, PidOf, Pid
<1>12. ASSUME NEW m \in Managers, UnlinkStale(m) PROVE LockInv'
  BY <1>12 DEF UnlinkStale, LockIs, PidOf, Pid
<1>13. ASSUME NEW m \in Managers, Release(m) PROVE LockInv'
  <2>1. \A n \in Managers \ {m} : managers[n].pc \notin {"create", "unlink"} \cup Writing
    BY <1>13 DEF Release
  <2> QED
    BY <1>13, <2>1 DEF Release
<1>14. ASSUME NEW m \in Managers, Save(m) \/ LoadRunbook(m) PROVE LockInv'
  BY <1>14 DEF Save, Acquire, LoadRunbook, LockIs, PidOf, Pid
<1>15. ASSUME NEW m \in Managers, RecoverFromCrash(m) PROVE LockInv'
  <2>1. \A n \in Managers : managers[n].pc \notin {"create", "unlink"}
    BY <1>15 DEF RecoverFromCrash, Undisturbed
  <2>2. ASSUME NEW n \in Managers, managers[n].pc \in Writing
        PROVE  files'.lock = files.lock
    BY <1>15, <2>2, HeldNotStale DEF RecoverFromCrash
  <2>3. \A n \in Managers : managers'[n].pc \in {"create", "unlink"} \cup Writing => managers'[n] = managers[n]
    BY <1>15 DEF RecoverFromCrash
  <2>4. deaths' = deaths
    BY <1>15 DEF RecoverFromCrash
  <2> QED
    BY <2>1, <2>2, <2>3, <2>4 DEF LockIs, PidOf, Pid
<1>16. ASSUME NEW w \in Windows, FlushDb(w) PROVE LockInv'
  BY <1>16 DEF FlushDb, LockIs, PidOf, Pid
<1>17. ASSUME NEW w \in Windows, Die(w) PROVE LockInv'
  <2>1. \A n \in Managers : managers'[n].pc # "idle" => WindowOf[n] # w /\ managers'[n] = managers[n]
    BY <1>17 DEF Die
  <2>2. \A n \in Managers : WindowOf[n] # w => PidOf(n)' = PidOf(n)
    BY <1>17 DEF Die, PidOf, Pid
  <2>3. files' = files
    BY <1>17 DEF Die
  <2> QED
    BY <2>1, <2>2, <2>3 DEF LockIs
<1>18. CASE UNCHANGED storeVars
  BY <1>18 DEF storeVars, LockIs, PidOf, Pid
<1> QED
  BY <1>9, <1>10, <1>11, <1>12, <1>13, <1>14, <1>15, <1>16, <1>17, <1>18,
     <1>1, <1>2, <1>3, <1>4, <1>5, <1>6, <1>7, <1>8 DEF StoreNext, Attempt

\* The owner of the lock is the only writer.
LEMMA LockMeansOneWriter ==
  ASSUME LockInv
  PROVE  OneWriter
BY LockHasOneOwner DEF LockInv, OwnsLock, OneWriter

\* The invariants of the lock hold initially.
LEMMA InitLocked ==
  ASSUME StoreInit
  PROVE  StoreTypeOK /\ SavesFit /\ LockInv
<1>1. Queued = {} /\ saves = 0
  BY DEF StoreInit, Queued, Manager
<1>2. SavesFit
  BY <1>1, FS_EmptySet, StoreAssumption DEF SavesFit
<1>3. StoreTypeOK
  <2>1. Manager("idle") \in ManagerStates
    BY ManagerType DEF Pcs
  <2> QED
    BY <2>1, StoreTypes, ContentType, StoreAssumption DEF StoreInit, FileStates, Locks
<1>4. LockInv
  BY DEF StoreInit, LockInv, OwnsLock, UnlinksAlone, At, Manager, Writing
<1> QED
  BY <1>2, <1>3, <1>4

\* Every StateManager, file and database keeps its type: what is saved, promoted by a
\* load or recovered is a whole runbook, never a torn file.
THEOREM StoreTypeCorrect == StoreSpec => []StoreTypeOK
<1>1. StoreInit => StoreTypeOK /\ SavesFit
  BY InitLocked
<1>2. StoreTypeOK /\ SavesFit /\ [StoreNext]_storeVars => (StoreTypeOK /\ SavesFit)'
  BY TypeStep, FitsStep
<1> QED
  BY <1>1, <1>2, PTL DEF StoreSpec

\* The lock file of a session lets one manager write at a time, also across windows
\* that die and whose locks are removed (acquireLock, cleanStaleLock).
THEOREM OneWriterHolds ==
  ASSUME AtomicLock
  PROVE  StoreSpec => []OneWriter
<1> DEFINE Inv == StoreTypeOK /\ SavesFit /\ LockInv
<1>1. StoreInit => Inv
  BY InitLocked
<1>2. Inv /\ [StoreNext]_storeVars => Inv'
  BY TypeStep, FitsStep, LockStep
<1>3. Inv => OneWriter
  BY LockMeansOneWriter
<1> QED
  BY <1>1, <1>2, <1>3, PTL DEF StoreSpec

-----------------------------------------------------------------------------
(* The runbook file *)

\* Every step leaves a recovery alone.
LEMMA RecoversStep ==
  ASSUME RecoverAlone, StoreTypeOK, RecoversAlone, [StoreNext]_storeVars
  PROVE  RecoversAlone'
<1>0. managers \in [Managers -> ManagerStates]
  BY StoreTypes
<1> USE <1>0 DEF RecoversAlone, At, Goto, Manager, ManagerStates
<1>1. ASSUME NEW m \in Managers, Create(m) PROVE RecoversAlone'
  BY <1>1 DEF Create
<1>2. ASSUME NEW m \in Managers, WritePid(m) PROVE RecoversAlone'
  BY <1>2 DEF WritePid
<1>3. ASSUME NEW m \in Managers, ReadLock(m) PROVE RecoversAlone'
  BY <1>3 DEF ReadLock
<1>4. ASSUME NEW m \in Managers, UnlinkStale(m) PROVE RecoversAlone'
  BY <1>4 DEF UnlinkStale
<1>5. ASSUME NEW m \in Managers, LockTimeout(m) PROVE RecoversAlone'
  BY <1>5 DEF LockTimeout
<1>6. ASSUME NEW m \in Managers, UpsertRunbook(m) PROVE RecoversAlone'
  BY <1>6 DEF UpsertRunbook
<1>7. ASSUME NEW m \in Managers, WriteWal(m) PROVE RecoversAlone'
  BY <1>7 DEF WriteWal
<1>8. ASSUME NEW m \in Managers, WriteBook(m) PROVE RecoversAlone'
  BY <1>8 DEF WriteBook
<1>9. ASSUME NEW m \in Managers, RenameBook(m) PROVE RecoversAlone'
  BY <1>9 DEF RenameBook
<1>10. ASSUME NEW m \in Managers, ClearWal(m) PROVE RecoversAlone'
  BY <1>10 DEF ClearWal
<1>11. ASSUME NEW m \in Managers, WriteFails(m) PROVE RecoversAlone'
  BY <1>11 DEF WriteFails
<1>12. ASSUME NEW m \in Managers, OpenTmp(m) PROVE RecoversAlone'
  BY <1>12 DEF OpenTmp
<1>13. ASSUME NEW m \in Managers, Release(m) PROVE RecoversAlone'
  BY <1>13 DEF Release
<1>14. ASSUME NEW m \in Managers, LoadRunbook(m) PROVE RecoversAlone'
  BY <1>14 DEF LoadRunbook
<1>15. ASSUME NEW m \in Managers, Save(m) PROVE RecoversAlone'
  <2>1. \A n \in Managers : managers[n].pc # "idle" => managers[n].job # "recover"
    BY <1>15 DEF Save, Recovering
  <2> QED
    BY <1>15, <2>1 DEF Save, Acquire
<1>16. ASSUME NEW m \in Managers, RecoverFromCrash(m) PROVE RecoversAlone'
  <2>1. \A n \in Managers : managers[n].pc = "idle"
    BY <1>16 DEF RecoverFromCrash
  <2> QED
    BY <1>16, <2>1 DEF RecoverFromCrash
<1>17. ASSUME NEW w \in Windows, FlushDb(w) \/ Die(w) PROVE RecoversAlone'
  BY <1>17 DEF FlushDb, Die
<1>18. CASE UNCHANGED storeVars
  BY <1>18 DEF storeVars
<1> QED
  BY <1>1, <1>2, <1>3, <1>4, <1>5, <1>6, <1>7, <1>8, <1>9, <1>10, <1>11, <1>12, <1>13, <1>14, <1>15, <1>16,
     <1>17, <1>18 DEF StoreNext, Attempt

\* Beside a writer no manager holds a runbook.
LEMMA AloneInside ==
  ASSUME LockInv, RecoversAlone, NEW m \in Managers, managers[m].pc \in Writing, NEW n \in Managers \ {m}
  PROVE  ~HasBook(n)
<1>1. managers[n].pc \notin Writing
  BY LockMeansOneWriter DEF OneWriter
<1>2. managers[m].pc # "idle"
  BY DEF Writing
<1>3. ~(managers[n].pc # "idle" /\ managers[n].job = "recover")
  BY <1>2 DEF RecoversAlone, At
<1> QED
  BY <1>1, <1>3 DEF HasBook, Inside, Writing

\* A step that writes no file and hands out no runbook leaves the files and
\* their writer in step.
LEMMA BookKept ==
  ASSUME BookInHand, FilesFollow, BookInv,
         saves' = saves, kept' = kept,
         files'.wal = files.wal, files'.tmp = files.tmp, files'.book = files.book,
         \A m \in Managers : HasBook(m)' =>
           /\ HasBook(m)
           /\ managers'[m].book = managers[m].book /\ managers'[m].job = managers[m].job,
         \A m \in Managers :
           managers'[m].pc \in {"rename", "clear"} \/ (managers'[m].pc = "release" /\ ~managers'[m].failed) =>
             managers'[m] = managers[m]
  PROVE  (BookInHand /\ FilesFollow /\ BookInv)'
<1>1. BookInHand'
  BY DEF BookInHand
<1>2. FilesFollow'
  BY DEF FilesFollow, At, HasBook, Inside
<1>3. BookInv'
  BY DEF BookInv
<1> QED
  BY <1>1, <1>2, <1>3

\* Every step keeps the files in step with their writer, and the file and the log
\* as new as the last save that returned.
LEMMA BookStep ==
  ASSUME AtomicLock, RecoverAlone, StoreInv, [StoreNext]_storeVars
  PROVE  (BookInHand /\ FilesFollow /\ BookInv)'
<1> DEFINE Book == BookInHand /\ FilesFollow /\ BookInv
<1>0. /\ managers \in [Managers -> ManagerStates] /\ files \in FileStates
      /\ saves \in 0..MaxSaves /\ kept \in 0..MaxSaves /\ MaxSaves \in Nat
  BY StoreTypes, ContentType, StoreAssumption DEF StoreInv
<1>b. Book
  BY DEF StoreInv
<1>a. ASSUME NEW m \in Managers, managers[m].pc \in Writing, NEW n \in Managers \ {m} PROVE ~HasBook(n)
  BY <1>a, AloneInside DEF StoreInv
<1>1. ASSUME NEW m \in Managers, Create(m) PROVE Book'
  <2>1. saves' = saves /\ kept' = kept /\ files'.wal = files.wal /\ files'.tmp = files.tmp /\ files'.book = files.book
    BY <1>0, <1>1 DEF Create, FileStates
  <2>2. \A n \in Managers : HasBook(n)' =>
          HasBook(n) /\ managers'[n].book = managers[n].book /\ managers'[n].job = managers[n].job
    BY <1>0, <1>1 DEF Create, At, Goto, Manager, ManagerStates, HasBook, Inside
  <2>3. \A n \in Managers :
          managers'[n].pc \in {"rename", "clear"} \/ (managers'[n].pc = "release" /\ ~managers'[n].failed) =>
            managers'[n] = managers[n]
    BY <1>0, <1>1 DEF Create, At, Goto, Manager, ManagerStates
  <2> QED
    BY <1>b, <2>1, <2>2, <2>3, BookKept
<1>2. ASSUME NEW m \in Managers, WritePid(m) PROVE Book'
  <2>1. saves' = saves /\ kept' = kept /\ files'.wal = files.wal /\ files'.tmp = files.tmp /\ files'.book = files.book
    BY <1>0, <1>2 DEF WritePid, FileStates
  <2>2. \A n \in Managers : HasBook(n)' =>
          HasBook(n) /\ managers'[n].book = managers[n].book /\ managers'[n].job = managers[n].job
    BY <1>0, <1>2 DEF WritePid, At, Goto, Manager, ManagerStates, HasBook, Inside
  <2>3. \A n \in Managers :
          managers'[n].pc \in {"rename", "clear"} \/ (managers'[n].pc = "release" /\ ~managers'[n].failed) =>
            managers'[n] = managers[n]
    BY <1>0, <1>2 DEF WritePid, At, Goto, Manager, ManagerStates
  <2> QED
    BY <1>b, <2>1, <2>2, <2>3, BookKept
<1>3. ASSUME NEW m \in Managers, ReadLock(m) PROVE Book'
  <2>1. saves' = saves /\ kept' = kept /\ files'.wal = files.wal /\ files'.tmp = files.tmp /\ files'.book = files.book
    BY <1>0, <1>3 DEF ReadLock, FileStates
  <2>2. \A n \in Managers : HasBook(n)' =>
          HasBook(n) /\ managers'[n].book = managers[n].book /\ managers'[n].job = managers[n].job
    BY <1>0, <1>3 DEF ReadLock, At, Goto, Manager, ManagerStates, HasBook, Inside
  <2>3. \A n \in Managers :
          managers'[n].pc \in {"rename", "clear"} \/ (managers'[n].pc = "release" /\ ~managers'[n].failed) =>
            managers'[n] = managers[n]
    BY <1>0, <1>3 DEF ReadLock, At, Goto, Manager, ManagerStates
  <2> QED
    BY <1>b, <2>1, <2>2, <2>3, BookKept
<1>4. ASSUME NEW m \in Managers, UnlinkStale(m) PROVE Book'
  <2>1. saves' = saves /\ kept' = kept /\ files'.wal = files.wal /\ files'.tmp = files.tmp /\ files'.book = files.book
    BY <1>0, <1>4 DEF UnlinkStale, FileStates
  <2>2. \A n \in Managers : HasBook(n)' =>
          HasBook(n) /\ managers'[n].book = managers[n].book /\ managers'[n].job = managers[n].job
    BY <1>0, <1>4 DEF UnlinkStale, At, Goto, Manager, ManagerStates, HasBook, Inside
  <2>3. \A n \in Managers :
          managers'[n].pc \in {"rename", "clear"} \/ (managers'[n].pc = "release" /\ ~managers'[n].failed) =>
            managers'[n] = managers[n]
    BY <1>0, <1>4 DEF UnlinkStale, At, Goto, Manager, ManagerStates
  <2> QED
    BY <1>b, <2>1, <2>2, <2>3, BookKept
<1>5. ASSUME NEW m \in Managers, LockTimeout(m) PROVE Book'
  <2>1. saves' = saves /\ kept' = kept /\ files'.wal = files.wal /\ files'.tmp = files.tmp /\ files'.book = files.book
    BY <1>0, <1>5 DEF LockTimeout, FileStates
  <2>2. \A n \in Managers : HasBook(n)' =>
          HasBook(n) /\ managers'[n].book = managers[n].book /\ managers'[n].job = managers[n].job
    BY <1>0, <1>5 DEF LockTimeout, At, Goto, Manager, ManagerStates, HasBook, Inside
  <2>3. \A n \in Managers :
          managers'[n].pc \in {"rename", "clear"} \/ (managers'[n].pc = "release" /\ ~managers'[n].failed) =>
            managers'[n] = managers[n]
    BY <1>0, <1>5 DEF LockTimeout, At, Goto, Manager, ManagerStates
  <2> QED
    BY <1>b, <2>1, <2>2, <2>3, BookKept
<1>6. ASSUME NEW m \in Managers, WriteFails(m) PROVE Book'
  <2>1. saves' = saves /\ kept' = kept /\ files'.wal = files.wal /\ files'.tmp = files.tmp /\ files'.book = files.book
    BY <1>0, <1>6 DEF WriteFails, FileStates
  <2>2. \A n \in Managers : HasBook(n)' =>
          HasBook(n) /\ managers'[n].book = managers[n].book /\ managers'[n].job = managers[n].job
    BY <1>0, <1>6 DEF WriteFails, At, Goto, Manager, ManagerStates, HasBook, Inside
  <2>3. \A n \in Managers :
          managers'[n].pc \in {"rename", "clear"} \/ (managers'[n].pc = "release" /\ ~managers'[n].failed) =>
            managers'[n] = managers[n]
    BY <1>0, <1>6 DEF WriteFails, At, Goto, Manager, ManagerStates
  <2> QED
    BY <1>b, <2>1, <2>2, <2>3, BookKept
<1>7. ASSUME NEW m \in Managers, LoadRunbook(m) PROVE Book'
  <2>1. saves' = saves /\ kept' = kept /\ files'.wal = files.wal /\ files'.tmp = files.tmp /\ files'.book = files.book
    BY <1>0, <1>7 DEF LoadRunbook, FileStates
  <2>2. \A n \in Managers : HasBook(n)' =>
          HasBook(n) /\ managers'[n].book = managers[n].book /\ managers'[n].job = managers[n].job
    BY <1>0, <1>7 DEF LoadRunbook, At, Goto, Manager, ManagerStates, HasBook, Inside
  <2>3. \A n \in Managers :
          managers'[n].pc \in {"rename", "clear"} \/ (managers'[n].pc = "release" /\ ~managers'[n].failed) =>
            managers'[n] = managers[n]
    BY <1>0, <1>7 DEF LoadRunbook, At, Goto, Manager, ManagerStates
  <2> QED
    BY <1>b, <2>1, <2>2, <2>3, BookKept
<1>8. ASSUME NEW m \in Managers, Save(m) PROVE Book'
  <2>1. saves' = saves /\ kept' = kept /\ files'.wal = files.wal /\ files'.tmp = files.tmp /\ files'.book = files.book
    BY <1>0, <1>8 DEF Save, FileStates
  <2>2. \A n \in Managers : HasBook(n)' =>
          HasBook(n) /\ managers'[n].book = managers[n].book /\ managers'[n].job = managers[n].job
    BY <1>0, <1>8 DEF Save, Acquire, At, Goto, Manager, ManagerStates, HasBook, Inside
  <2>3. \A n \in Managers :
          managers'[n].pc \in {"rename", "clear"} \/ (managers'[n].pc = "release" /\ ~managers'[n].failed) =>
            managers'[n] = managers[n]
    BY <1>0, <1>8 DEF Save, Acquire, At, Goto, Manager, ManagerStates
  <2> QED
    BY <1>b, <2>1, <2>2, <2>3, BookKept
<1>9. ASSUME NEW w \in Windows, FlushDb(w) PROVE Book'
  <2>1. saves' = saves /\ kept' = kept /\ files'.wal = files.wal /\ files'.tmp = files.tmp /\ files'.book = files.book
    BY <1>0, <1>9 DEF FlushDb, FileStates
  <2>2. \A n \in Managers : HasBook(n)' =>
          HasBook(n) /\ managers'[n].book = managers[n].book /\ managers'[n].job = managers[n].job
    BY <1>0, <1>9 DEF FlushDb, At, Goto, Manager, ManagerStates, HasBook, Inside
  <2>3. \A n \in Managers :
          managers'[n].pc \in {"rename", "clear"} \/ (managers'[n].pc = "release" /\ ~managers'[n].failed) =>
            managers'[n] = managers[n]
    BY <1>0, <1>9 DEF FlushDb, At, Goto, Manager, ManagerStates
  <2> QED
    BY <1>b, <2>1, <2>2, <2>3, BookKept
<1>10. ASSUME NEW w \in Windows, Die(w) PROVE Book'
  <2>1. saves' = saves /\ kept' = kept /\ files'.wal = files.wal /\ files'.tmp = files.tmp /\ files'.book = files.book
    BY <1>0, <1>10 DEF Die, FileStates
  <2>2. \A n \in Managers : HasBook(n)' =>
          HasBook(n) /\ managers'[n].book = managers[n].book /\ managers'[n].job = managers[n].job
    BY <1>0, <1>10 DEF Die, At, Goto, Manager, ManagerStates, HasBook, Inside
  <2>3. \A n \in Managers :
          managers'[n].pc \in {"rename", "clear"} \/ (managers'[n].pc = "release" /\ ~managers'[n].failed) =>
            managers'[n] = managers[n]
    BY <1>0, <1>10 DEF Die, At, Goto, Manager, ManagerStates
  <2> QED
    BY <1>b, <2>1, <2>2, <2>3, BookKept
<1>11. CASE UNCHANGED storeVars
  BY <1>b, <1>11 DEF storeVars, BookInHand, FilesFollow, BookInv, HasBook, At
<1> USE ContentType
<1>12. ASSUME NEW m \in Managers, UpsertRunbook(m) PROVE Book'
  <2>1. managers[m].pc \in Writing /\ (\A n \in Managers \ {m} : ~HasBook(n) /\ managers'[n] = managers[n])
    BY <1>0, <1>a, <1>12 DEF UpsertRunbook, Goto, At, Writing
  <2>2. \A n \in Managers \ {m} : ~HasBook(n)'
    BY <2>1 DEF HasBook
  <2>3. saves + 1 \in Runbooks
    BY <1>12, QueuedFits DEF UpsertRunbook, StoreInv, Queued, At
  <2>4. saves' = saves + 1 /\ kept' = kept /\ files'.wal = Torn /\ files'.book = files.book
    BY <1>0, <1>12 DEF UpsertRunbook, FileStates
  <2>5. managers'[m].pc = "wal" /\ managers'[m].book = saves + 1 /\ managers'[m].job = "save"
    BY <1>0, <1>12 DEF UpsertRunbook, ManagerStates
  <2>6. BookInHand'
    BY <1>0, <1>b, <2>2, <2>3, <2>4, <2>5 DEF BookInHand, BookInv, FileStates
  <2>7. FilesFollow'
    BY <2>2, <2>5 DEF FilesFollow, HasBook, Inside, At
  <2>8. BookInv'
    BY <1>0, <1>b, <2>3, <2>4 DEF BookInv, FileStates
  <2> QED
    BY <2>6, <2>7, <2>8
<1>13. ASSUME NEW m \in Managers, WriteWal(m) PROVE Book'
  <2>1. managers[m].pc \in Writing /\ (\A n \in Managers \ {m} : ~HasBook(n) /\ managers'[n] = managers[n])
    BY <1>0, <1>a, <1>13 DEF WriteWal, Goto, At, Writing
  <2>2. \A n \in Managers \ {m} : ~HasBook(n)'
    BY <2>1 DEF HasBook
  <2>3. saves' = saves /\ kept' = kept /\ files'.wal = managers[m].book /\ files'.book = files.book
    BY <1>0, <1>13 DEF WriteWal, FileStates
  <2>4. managers'[m] = [managers[m] EXCEPT !.pc = "tmp"] /\ HasBook(m)
    BY <1>0, <1>13 DEF WriteWal, Goto, At, ManagerStates, HasBook, Inside
  <2>5. managers[m] \in ManagerStates /\ managers'[m].book = managers[m].book /\ managers'[m].job = managers[m].job
    BY <1>0, <2>4 DEF ManagerStates
  <2>6. managers'[m].pc = "tmp" /\ managers'[m].failed = managers[m].failed
    BY <2>4, <2>5 DEF ManagerStates
  <2>7. BookInHand'
    BY <1>b, <2>2, <2>3, <2>4, <2>5 DEF BookInHand
  <2>8. FilesFollow'
    BY <1>b, <1>13, <2>2, <2>3, <2>5, <2>6 DEF FilesFollow, HasBook, Inside, At, WriteWal
  <2>9. BookInv'
    BY <1>0, <1>b, <1>13, <2>3, <2>4 DEF BookInv, FilesFollow, BookInHand, FileStates, WriteWal
  <2> QED
    BY <2>7, <2>8, <2>9
<1>14. ASSUME NEW m \in Managers, WriteBook(m) PROVE Book'
  <2>1. managers[m].pc \in Writing /\ (\A n \in Managers \ {m} : ~HasBook(n) /\ managers'[n] = managers[n])
    BY <1>0, <1>a, <1>14 DEF WriteBook, Goto, At, Writing
  <2>2. \A n \in Managers \ {m} : ~HasBook(n)'
    BY <2>1 DEF HasBook
  <2>3. saves' = saves /\ kept' = kept /\ files'.wal = files.wal /\ files'.tmp = managers[m].book /\ files'.book = files.book
    BY <1>0, <1>14 DEF WriteBook, FileStates
  <2>4. managers'[m] = [managers[m] EXCEPT !.pc = "rename"] /\ HasBook(m)
    BY <1>0, <1>14 DEF WriteBook, Goto, At, ManagerStates, HasBook, Inside
  <2>5. managers[m] \in ManagerStates /\ managers'[m].book = managers[m].book /\ managers'[m].job = managers[m].job
    BY <1>0, <2>4 DEF ManagerStates
  <2>6. managers'[m].pc = "rename" /\ managers'[m].failed = managers[m].failed
    BY <2>4, <2>5 DEF ManagerStates
  <2>7. BookInHand'
    BY <1>b, <2>2, <2>3, <2>4, <2>5 DEF BookInHand
  <2>8. FilesFollow'
    BY <1>b, <1>14, <2>2, <2>3, <2>5, <2>6 DEF FilesFollow, HasBook, Inside, At, WriteBook
  <2>9. BookInv'
    BY <1>0, <1>b, <1>14, <2>3, <2>4 DEF BookInv, FilesFollow, BookInHand, FileStates, WriteBook
  <2> QED
    BY <2>7, <2>8, <2>9
<1>15. ASSUME NEW m \in Managers, RenameBook(m) PROVE Book'
  <2>1. managers[m].pc \in Writing /\ (\A n \in Managers \ {m} : ~HasBook(n) /\ managers'[n] = managers[n])
    BY <1>0, <1>a, <1>15 DEF RenameBook, Goto, At, Writing
  <2>2. \A n \in Managers \ {m} : ~HasBook(n)'
    BY <2>1 DEF HasBook
  <2>3. saves' = saves /\ kept' = kept /\ files'.wal = files.wal /\ files'.book = files.tmp
    BY <1>0, <1>15 DEF RenameBook, FileStates
  <2>4. managers'[m] = [managers[m] EXCEPT !.pc = "clear"] /\ HasBook(m)
    BY <1>0, <1>15 DEF RenameBook, Goto, At, ManagerStates, HasBook, Inside
  <2>5. managers[m] \in ManagerStates /\ managers'[m].book = managers[m].book /\ managers'[m].job = managers[m].job
    BY <1>0, <2>4 DEF ManagerStates
  <2>6. managers'[m].pc = "clear" /\ managers'[m].failed = managers[m].failed
    BY <2>4, <2>5 DEF ManagerStates
  <2>7. BookInHand'
    BY <1>b, <2>2, <2>3, <2>4, <2>5 DEF BookInHand
  <2>8. FilesFollow'
    BY <1>b, <1>15, <2>2, <2>3, <2>5, <2>6 DEF FilesFollow, HasBook, Inside, At, RenameBook
  <2>9. BookInv'
    BY <1>0, <1>b, <1>15, <2>3, <2>4 DEF BookInv, FilesFollow, BookInHand, FileStates, RenameBook
  <2> QED
    BY <2>7, <2>8, <2>9
<1>16. ASSUME NEW m \in Managers, ClearWal(m) PROVE Book'
  <2>1. managers[m].pc \in Writing /\ (\A n \in Managers \ {m} : ~HasBook(n) /\ managers'[n] = managers[n])
    BY <1>0, <1>a, <1>16 DEF ClearWal, Goto, At, Writing
  <2>2. \A n \in Managers \ {m} : ~HasBook(n)'
    BY <2>1 DEF HasBook
  <2>3. saves' = saves /\ kept' = kept /\ files'.wal = None /\ files'.book = files.book
    BY <1>0, <1>16 DEF ClearWal, FileStates
  <2>4. managers'[m] = [managers[m] EXCEPT !.pc = "release"] /\ HasBook(m)
    BY <1>0, <1>16 DEF ClearWal, Goto, At, ManagerStates, HasBook, Inside
  <2>5. managers[m] \in ManagerStates /\ managers'[m].book = managers[m].book /\ managers'[m].job = managers[m].job
    BY <1>0, <2>4 DEF ManagerStates
  <2>6. managers'[m].pc = "release" /\ managers'[m].failed = managers[m].failed
    BY <2>4, <2>5 DEF ManagerStates
  <2>7. BookInHand'
    BY <1>b, <2>2, <2>3, <2>4, <2>5 DEF BookInHand
  <2>8. FilesFollow'
    BY <1>b, <1>16, <2>2, <2>3, <2>5, <2>6 DEF FilesFollow, HasBook, Inside, At, ClearWal
  <2>9. BookInv'
    BY <1>0, <1>b, <1>16, <2>3, <2>4 DEF BookInv, FilesFollow, BookInHand, FileStates, ClearWal
  <2> QED
    BY <2>7, <2>8, <2>9
<1>17. ASSUME NEW m \in Managers, OpenTmp(m) PROVE Book'
  <2>1. managers[m].pc \in Writing /\ (\A n \in Managers \ {m} : ~HasBook(n) /\ managers'[n] = managers[n])
    BY <1>0, <1>a, <1>17 DEF OpenTmp, Goto, At, Writing
  <2>2. \A n \in Managers \ {m} : ~HasBook(n)'
    BY <2>1 DEF HasBook
  <2>3. saves' = saves /\ kept' = kept /\ files'.wal = files.wal /\ files'.book = files.book
    BY <1>0, <1>17 DEF OpenTmp, FileStates
  <2>4. managers'[m] = [managers[m] EXCEPT !.pc = "tmp"] /\ HasBook(m)
    BY <1>0, <1>17 DEF OpenTmp, Goto, At, ManagerStates, HasBook, Inside
  <2>5. managers[m] \in ManagerStates /\ managers'[m].book = managers[m].book /\ managers'[m].job = managers[m].job
    BY <1>0, <2>4 DEF ManagerStates
  <2>6. managers'[m].pc = "tmp" /\ managers'[m].failed = managers[m].failed
    BY <2>4, <2>5 DEF ManagerStates
  <2>7. BookInHand'
    BY <1>b, <2>2, <2>3, <2>4, <2>5 DEF BookInHand
  <2>8. FilesFollow'
    BY <1>b, <1>17, <2>2, <2>3, <2>5, <2>6 DEF FilesFollow, HasBook, Inside, At, OpenTmp
  <2>9. BookInv'
    BY <1>0, <1>b, <1>17, <2>3, <2>4 DEF BookInv, FilesFollow, BookInHand, FileStates, OpenTmp
  <2> QED
    BY <2>7, <2>8, <2>9
<1>18. ASSUME NEW m \in Managers, Release(m) PROVE Book'
  <2>1. managers[m].pc \in Writing /\ (\A n \in Managers \ {m} : ~HasBook(n) /\ managers'[n] = managers[n])
    BY <1>0, <1>a, <1>18 DEF Release, Goto, At, Writing
  <2>2. \A n \in Managers \ {m} : ~HasBook(n)'
    BY <2>1 DEF HasBook
  <2>3. managers'[m] = Manager("idle") /\ saves' = saves
    BY <1>0, <1>18 DEF Release
  <2>4. files'.wal = files.wal /\ files'.book = files.book
    BY <1>0, <1>18 DEF Release, FileStates
  <2>5. \A n \in Managers : ~HasBook(n)'
    BY <2>2, <2>3 DEF HasBook, Inside, Manager
  <2>6. BookInHand' /\ FilesFollow'
    BY <2>5 DEF BookInHand, FilesFollow, HasBook, Inside, At
  <2>7. BookInv'
    <3>1. CASE managers[m].job = "save" /\ ~managers[m].failed
      <4>1. files.book = managers[m].book /\ files.wal = None /\ kept' = managers[m].book
        BY <1>b, <1>18, <3>1 DEF FilesFollow, Release
      <4>2. managers[m].book \in 0..MaxSaves
        BY <1>0 DEF ManagerStates
      <4> QED
        BY <1>0, <1>b, <2>3, <2>4, <4>1, <4>2 DEF BookInv
    <3>2. CASE ~(managers[m].job = "save" /\ ~managers[m].failed)
      <4>1. kept' = kept
        BY <1>18, <3>2 DEF Release
      <4> QED
        BY <1>b, <2>3, <2>4, <4>1 DEF BookInv
    <3> QED
      BY <3>1, <3>2
  <2> QED
    BY <2>6, <2>7
<1>19. ASSUME NEW m \in Managers, RecoverFromCrash(m) PROVE Book'
  <2>1. \A n \in Managers : managers[n].pc = "idle"
    BY <1>19 DEF RecoverFromCrash, At
  <2>2. saves' = saves /\ kept' = kept /\ files'.book = files.book /\ files'.wal \in {None, files.wal}
    BY <1>0, <1>19 DEF RecoverFromCrash, FileStates
  <2>3. \A n \in Managers : managers'[n].pc \in {"idle", "lock"}
    BY <1>0, <1>19, <2>1 DEF RecoverFromCrash, Manager, ManagerStates
  <2>4. \A n \in Managers : HasBook(n)' =>
          files.wal \in Runbooks /\ managers'[n].book = files.wal /\ managers'[n].job = "recover"
    BY <1>0, <1>19, <2>1, <2>3 DEF RecoverFromCrash, Manager, ManagerStates, HasBook, Inside
  <2>5. BookInHand'
    BY <1>0, <1>b, <2>2, <2>4 DEF BookInHand, BookInv
  <2>6. FilesFollow'
    BY <2>3 DEF FilesFollow, At
  <2>7. BookInv'
    BY <1>0, <1>b, <2>2 DEF BookInv
  <2> QED
    BY <2>5, <2>6, <2>7
<1> QED
  BY <1>1, <1>2, <1>3, <1>4, <1>5, <1>6, <1>7, <1>8, <1>9, <1>10, <1>11, <1>12, <1>13, <1>14, <1>15, <1>16,
     <1>17, <1>18, <1>19 DEF StoreNext, Attempt

\* The runbook file is whole at every moment and never older than the last save
\* that returned, through deaths, failed writes and replayed logs (saveRunbook,
\* recoverFromCrash).
THEOREM SavedBookHolds ==
  ASSUME AtomicLock, RecoverAlone
  PROVE  StoreSpec => []SavedBookInFile
<1>1. StoreInit => StoreInv
  <2>1. ASSUME StoreInit PROVE RecoversAlone /\ BookInHand /\ FilesFollow /\ BookInv
    <3>1. \A m \in Managers : managers[m].pc = "idle" /\ ~HasBook(m)
      BY <2>1 DEF StoreInit, Manager, HasBook, Inside
    <3>2. files.wal = None /\ files.book = None /\ kept = None /\ saves = 0
      BY <2>1 DEF StoreInit
    <3> QED
      BY <3>1, <3>2, ContentType, StoreAssumption
      DEF RecoversAlone, BookInHand, FilesFollow, BookInv, At, None
  <2> QED
    BY <2>1, InitLocked DEF StoreInv
<1>2. StoreInv /\ [StoreNext]_storeVars => StoreInv'
  BY TypeStep, FitsStep, LockStep, RecoversStep, BookStep DEF StoreInv
<1>3. StoreInv => SavedBookInFile
  <2>1. ASSUME StoreInv PROVE SavedBookInFile
    <3>1. files.book \in Nat /\ kept \in Nat /\ files.book # Torn /\ kept <= files.book
      BY <2>1, StoreTypes, ContentType DEF StoreInv, BookInv, FileStates
    <3> QED
      BY <3>1 DEF SavedBookInFile
  <2> QED
    BY <2>1
<1> QED
  BY <1>1, <1>2, <1>3, PTL DEF StoreSpec

-----------------------------------------------------------------------------
(* Sets of numbers                                                         *)

\* A set of numbers has a least one.
LEMMA LeastExists ==
  ASSUME NEW S \in SUBSET Nat, S # {}
  PROVE  \E m \in S : \A n \in S : m <= n
<1>1. PICK m \in S : \A n \in S : ~(<<n, m>> \in OpToRel(<, Nat))
  BY NatLessThanWellFounded, WFMin
<1>2. ASSUME NEW n \in S PROVE m <= n
  <2>1. m \in Nat /\ n \in Nat
    OBVIOUS
  <2>2. ~(n < m)
    BY <1>1, <2>1 DEF OpToRel
  <2> QED
    BY <2>1, <2>2
<1> QED
  BY <1>2

\* A set of numbers with a bound has a greatest one.
LEMMA GreatestExists ==
  ASSUME NEW S \in SUBSET Nat, S # {}, NEW b \in Nat, \A n \in S : n <= b
  PROVE  \E m \in S : \A n \in S : n <= m
<1> DEFINE Gaps == {d \in Nat : b - d \in S}
<1>1. \A n \in S : b - n \in Nat /\ b - (b - n) = n
  OBVIOUS
<1>2. Gaps # {}
  BY <1>1
<1>3. PICK d \in Gaps : \A e \in Gaps : d <= e
  <2> HIDE DEF Gaps
  <2>1. Gaps \in SUBSET Nat
    BY DEF Gaps
  <2> QED
    BY <1>2, <2>1, LeastExists
<1>4. b - d \in S /\ d \in Nat
  BY <1>3
<1>5. ASSUME NEW n \in S PROVE n <= b - d
  <2>1. b - n \in Gaps /\ n \in Nat
    BY <1>1
  <2>2. d <= b - n
    BY <1>3, <2>1
  <2> QED
    BY <1>4, <2>1, <2>2
<1> QED
  BY <1>4, <1>5

-----------------------------------------------------------------------------
(* Returning to where the user was                                         *)

\* The branches of GitTools, and the types of its results and repositories.
Branches == {"main", "detached", "sandbox"}
Results == [Repositories -> [success : BOOLEAN, previous : Branches \cup {"none"}]]
Trees == [head : Branches, names : SUBSET Branches, seen : BOOLEAN, dirty : BOOLEAN, stashes : {0, 1}]

\* The type invariant of GitTools.
ToolTypeOK ==
  /\ tree \in [Repositories -> Trees]
  /\ call \in [kind : {"none", "create", "return"}, todo : SUBSET Repositories, results : Results]
  /\ report \in Results
  /\ origin \in [Repositories -> Branches \cup {"none"}]

\* The heads are those of before the call where it has not been yet, and where it has,
\* its results name the branch of before.
CreationRemembers == call.kind = "create" => \A r \in Repositories :
  IF r \in call.todo THEN tree[r].head = origin[r] ELSE call.results[r].previous = origin[r]

\* Outside of a creation the report names the branch of before.
ReportRemembers == call.kind # "create" => \A r \in Repositories :
  origin[r] # "none" => report[r].previous = origin[r]

\* The invariant behind ReturnBringsBack.
ToolInv ==
  /\ ToolTypeOK
  /\ call.kind = "none" => call = NoCall
  /\ CreationRemembers /\ ReportRemembers /\ ReturnBringsBack

\* The invariant of the tools holds at the start.
LEMMA ToolInitInv == ToolInit => ToolInv
<1> SUFFICES ASSUME ToolInit PROVE ToolInv
  OBVIOUS
<1>1. NoReport \in Results
  BY DEF NoReport, Results
<1>2. call.kind = "none" /\ call = NoCall /\ (\A r \in Repositories : origin[r] = "none")
  BY DEF ToolInit, NoCall
<1>3. tree \in [Repositories -> Trees]
  <2>1. {{"main"}, {"main", "sandbox"}} \subseteq SUBSET Branches
    BY DEF Branches
  <2> QED
    BY <2>1 DEF ToolInit, Trees, Branches
<1>4. ToolTypeOK
  BY <1>1, <1>3 DEF ToolInit, ToolTypeOK, NoCall
<1> QED
  BY <1>2, <1>4 DEF ToolInv, CreationRemembers, ReportRemembers, ReturnBringsBack

\* A creation visits each repository once and notes its branch before it leaves it; a
\* return takes that branch from the report.
LEMMA ToolStep ==
  ASSUME ToolInv, [ToolNext]_toolVars
  PROVE  ToolInv'
<1>0. /\ tree \in [Repositories -> Trees] /\ report \in Results
      /\ call \in [kind : {"none", "create", "return"}, todo : SUBSET Repositories, results : Results]
      /\ origin \in [Repositories -> Branches \cup {"none"}] /\ NoReport \in Results
      /\ call.kind = "none" => call = NoCall
  BY DEF ToolInv, ToolTypeOK, NoReport, Results
<1>1. NoCall.kind = "none" /\ NoCall \in [kind : {"none", "create", "return"}, todo : SUBSET Repositories, results : Results]
  BY <1>0 DEF NoCall
<1>2. Idle <=> call.kind = "none"
  BY <1>0, <1>1 DEF Idle
<1> USE DEF CreationRemembers, ReportRemembers, ReturnBringsBack
\* Nothing but the tree changes, and no head while a call goes on.
<1>3. ASSUME UNCHANGED <<call, report, origin>>, tree' \in [Repositories -> Trees],
             \A r \in Repositories : tree'[r].head = tree[r].head
      PROVE  ToolInv'
  BY <1>3 DEF ToolInv, ToolTypeOK
<1>4. ASSUME NEW r \in Repositories, UserWorks(r) \/ Stash(r) \/ Unstash(r) \/ Rollback(r) PROVE ToolInv'
  <2>1. tree' \in [Repositories -> Trees]
    <3>1. CASE UserWorks(r)
      <4>1. tree[r].dirty \in BOOLEAN /\ tree[r].seen \in BOOLEAN
        BY <1>0 DEF Trees
      <4>2. \A b \in BOOLEAN : [tree[r] EXCEPT !.dirty = b] \in Trees /\ [tree[r] EXCEPT !.seen = b] \in Trees
        BY <1>0 DEF Trees
      <4>3. \/ tree' = [tree EXCEPT ![r] = [tree[r] EXCEPT !.dirty = ~tree[r].dirty]]
            \/ tree' = [tree EXCEPT ![r] = [tree[r] EXCEPT !.seen = tree[r].dirty]]
        BY <3>1 DEF UserWorks
      <4>4. (~tree[r].dirty) \in BOOLEAN
        BY <4>1
      <4>5. [tree[r] EXCEPT !.dirty = ~tree[r].dirty] \in Trees /\ [tree[r] EXCEPT !.seen = tree[r].dirty] \in Trees
        BY <4>1, <4>2, <4>4
      <4> QED
        BY <1>0, <4>3, <4>5
    <3>2. CASE Stash(r)
      BY <1>0, <3>2 DEF Stash, Trees
    <3>3. CASE Unstash(r) \/ Rollback(r)
      <4>1. /\ [tree[r] EXCEPT !.dirty = TRUE, !.stashes = 0] \in Trees
            /\ [tree[r] EXCEPT !.dirty = FALSE] \in Trees
        BY <1>0 DEF Trees
      <4> QED
        BY <1>0, <3>3, <4>1 DEF Unstash, Rollback
    <3> QED
      BY <1>4, <3>1, <3>2, <3>3
  <2>2. \A q \in Repositories : tree'[q].head = tree[q].head
    BY <1>0, <1>4 DEF UserWorks, Stash, Unstash, Rollback, Trees
  <2>3. UNCHANGED <<call, report, origin>>
    BY <1>4 DEF UserWorks, Stash, Unstash, Rollback
  <2> QED
    BY <1>3, <2>1, <2>2, <2>3
<1>5. ASSUME NEW r \in Repositories, UserChecksOut(r) PROVE ToolInv'
  <2>1. call' = call /\ report' = report /\ call.kind = "none"
    BY <1>2, <1>5 DEF UserChecksOut
  <2>2. tree' \in [Repositories -> Trees]
    BY <1>0, <1>5 DEF UserChecksOut, Trees, Branches
  <2>3. origin' \in [Repositories -> Branches \cup {"none"}]
        /\ \A q \in Repositories : origin'[q] \in {origin[q], "none"}
    BY <1>0, <1>5 DEF UserChecksOut
  <2> QED
    BY <2>1, <2>2, <2>3 DEF ToolInv, ToolTypeOK
<1>6. ASSUME CreateSandboxBranchAll PROVE ToolInv'
  <2>1. tree' = tree /\ origin' = [r \in Repositories |-> tree[r].head]
    BY <1>6 DEF CreateSandboxBranchAll
  <2>2. origin' \in [Repositories -> Branches \cup {"none"}]
    BY <1>0, <2>1 DEF Trees
  <2>3. CASE PreFlightCheckAll
    <3>1. call' = [NoCall EXCEPT !.kind = "create", !.todo = Repositories] /\ report' = report
      BY <1>6, <2>3 DEF CreateSandboxBranchAll, Begin
    <3>2. call' = [kind |-> "create", todo |-> Repositories, results |-> NoReport]
      BY <3>1 DEF NoCall
    <3>3. ToolTypeOK'
      BY <1>0, <2>1, <2>2, <3>1, <3>2 DEF ToolTypeOK
    <3> QED
      BY <2>1, <3>2, <3>3 DEF ToolInv
  <2>4. CASE ~PreFlightCheckAll
    <3>1. /\ report' = [r \in Repositories |-> [success |-> FALSE, previous |-> tree[r].head]]
          /\ call' = call /\ call.kind = "none"
      BY <1>2, <1>6, <2>4 DEF CreateSandboxBranchAll
    <3>2. report' \in Results
      BY <1>0, <3>1 DEF Results, Trees
    <3>3. ToolTypeOK'
      BY <1>0, <2>1, <2>2, <3>1, <3>2 DEF ToolTypeOK
    <3> QED
      BY <1>0, <2>1, <3>1, <3>3 DEF ToolInv
  <2> QED
    BY <2>3, <2>4
<1>7. ASSUME NEW r \in Repositories, CreateBranch(r) PROVE ToolInv'
  <2>1. call.kind = "create" /\ r \in call.todo /\ UNCHANGED <<report, origin>>
    BY <1>7 DEF CreateBranch
  <2>2. tree' \in [Repositories -> Trees] /\ (\A q \in Repositories \ {r} : tree'[q] = tree[q])
    BY <1>0, <1>7 DEF CreateBranch, Trees, Branches
  <2>3. /\ call'.kind = "create" /\ call'.todo = call.todo \ {r}
        /\ call'.results = [call.results EXCEPT ![r] = [success |-> "sandbox" \notin tree[r].names,
                                                        previous |-> tree[r].head]]
        /\ call' \in [kind : {"none", "create", "return"}, todo : SUBSET Repositories, results : Results]
    BY <1>0, <1>7 DEF CreateBranch, Results, Trees
  <2>4. call'.results[r].previous = origin[r] /\ (\A q \in Repositories \ {r} : call'.results[q] = call.results[q])
    BY <1>0, <2>1, <2>3 DEF ToolInv, Results
  <2> QED
    BY <2>1, <2>2, <2>3, <2>4 DEF ToolInv, ToolTypeOK
<1>8. ASSUME CreatedAll PROVE ToolInv'
  BY <1>0, <1>1, <1>8 DEF CreatedAll, ToolInv, ToolTypeOK
<1>9. ASSUME ReturnToOriginalBranchAll PROVE ToolInv'
  <2>1. call' = [NoCall EXCEPT !.kind = "return", !.todo = Repositories] /\ UNCHANGED <<tree, report, origin>>
        /\ call.kind = "none"
    BY <1>2, <1>9 DEF ReturnToOriginalBranchAll, Begin
  <2>2. call' = [kind |-> "return", todo |-> Repositories, results |-> NoReport]
    BY <2>1 DEF NoCall
  <2> QED
    BY <1>0, <2>1, <2>2 DEF ToolInv, ToolTypeOK
<1>10. ASSUME NEW r \in Repositories, Checkout(r) PROVE ToolInv'
  <2>1. call.kind = "return" /\ r \in call.todo /\ UNCHANGED <<report, origin>>
    BY <1>10 DEF Checkout
  <2>2. PICK works \in BOOLEAN :
          /\ works => report[r].previous \in tree[r].names
          /\ tree' = IF works THEN [tree EXCEPT ![r].head = report[r].previous] ELSE tree
          /\ call' = [call EXCEPT !.todo = @ \ {r}, !.results[r].success = works]
    BY <1>10 DEF Checkout
  <2>3. tree' \in [Repositories -> Trees] /\ (\A q \in Repositories \ {r} : tree'[q] = tree[q])
    BY <1>0, <2>2 DEF Trees
  <2>4. works => tree'[r].head = report[r].previous
    BY <1>0, <2>2 DEF Trees
  <2>5. /\ call'.kind = "return" /\ call'.todo = call.todo \ {r}
        /\ call'.results = [call.results EXCEPT ![r].success = works]
        /\ call' \in [kind : {"none", "create", "return"}, todo : SUBSET Repositories, results : Results]
    <3>1. [call.results EXCEPT ![r].success = works] \in Results
      BY <1>0 DEF Results
    <3>2. call' = [kind |-> call.kind, todo |-> call.todo \ {r}, results |-> [call.results EXCEPT ![r].success = works]]
      BY <1>0, <2>2
    <3> QED
      BY <1>0, <2>1, <3>1, <3>2
  <2>6. call'.results[r].success = works /\ (\A q \in Repositories \ {r} : call'.results[q] = call.results[q])
    BY <1>0, <2>5 DEF Results
  <2> QED
    BY <2>1, <2>3, <2>4, <2>5, <2>6 DEF ToolInv, ToolTypeOK
<1>11. ASSUME ReturnedAll PROVE ToolInv'
  BY <1>0, <1>1, <1>11 DEF ReturnedAll, ToolInv, ToolTypeOK
<1>12. CASE UNCHANGED toolVars
  BY <1>0, <1>3, <1>12 DEF toolVars
<1> QED
  BY <1>4, <1>5, <1>6, <1>7, <1>8, <1>9, <1>10, <1>11, <1>12 DEF ToolNext

\* The code behaviour: returnToOriginalBranchAll checks out the previousBranch that
\* createSandboxBranchAll noted for each repository, and reports each checkout that failed.
THEOREM ReturnBringsBackHolds == ToolSpec => []ReturnBringsBack
<1>1. ToolInv => ReturnBringsBack
  BY DEF ToolInv
<1> QED
  BY <1>1, ToolInitInv, ToolStep, PTL DEF ToolSpec

-----------------------------------------------------------------------------
(* What a checkpoint has committed                                         *)

\* The types of the checkpoints' repositories.
Names == {"main"} \cup Slugs
Writers == Workers \cup {"user"}
Repos == [head : Names, names : SUBSET Names, tree : SUBSET Writers, index : SUBSET Writers]
Runs == [session : Nat, slug : Slugs, skip : BOOLEAN, made : SUBSET Nat]
Makings == {NoBranch} \cup [root : layout.repos, name : Slugs]
Progress == {"none", "add", "status", "commit", "hash", "ok", "failed"}

\* The type invariant of GitSandbox.
GitTypeOK ==
  /\ layout \in Layouts
  /\ repo \in [layout.repos -> Repos] /\ viewed \in [layout.repos -> BOOLEAN]
  /\ run \in Runs /\ making \in Makings
  /\ work \in [Workers -> {"idle", "working", "done"}]
  /\ checkpoint \in [Workers -> Progress]

\* How far a checkpoint has taken its own phase's changes.
CommitsOwn == \A p \in Workers : work[p] = "done" =>
  /\ checkpoint[p] \in {"status", "commit"} => p \notin repo[GitRoot].tree
  /\ checkpoint[p] \in {"hash", "ok"} => p \notin Uncommitted(GitRoot)

\* A checkpoint beyond git add runs in a repository.
NeedsRoot == \A p \in Workers : checkpoint[p] \in {"status", "commit", "hash", "ok"} => GitRoot # NoRepo

\* Of the prefixes of a path there is a longest one.
LEMMA DeepestExists ==
  ASSUME NEW above, above # {}, NEW ws \in Seq(STRING),
         \A r \in above : r \in Seq(STRING) /\ IsPrefix(r, ws)
  PROVE  (CHOOSE r \in above : \A q \in above : Len(q) <= Len(r)) \in above
<1> DEFINE Lens == {Len(r) : r \in above}
<1>1. Len(ws) \in Nat /\ (\A r \in above : Len(r) \in Nat /\ Len(r) <= Len(ws))
  BY DEF IsPrefix
<1>2. Lens \in SUBSET Nat /\ Lens # {} /\ (\A n \in Lens : n <= Len(ws))
  <2>1. \A n \in Lens : n \in Nat /\ n <= Len(ws)
    BY <1>1
  <2>2. Lens # {}
    OBVIOUS
  <2> QED
    BY <2>1, <2>2
<1>3. PICK m \in Lens : \A n \in Lens : n <= m
  <2> HIDE DEF Lens
  <2> QED
    BY <1>1, <1>2, GreatestExists
<1>4. \E r \in above : \A q \in above : Len(q) <= Len(r)
  BY <1>3
<1> QED
  BY <1>4

\* Of some paths there is a shortest one.
LEMMA ShallowestExists ==
  ASSUME NEW below, below # {}, \A r \in below : r \in Seq(STRING)
  PROVE  (CHOOSE r \in below : \A q \in below : Len(r) <= Len(q)) \in below
<1> DEFINE Lens == {Len(r) : r \in below}
<1>1. Lens \in SUBSET Nat /\ Lens # {}
  <2>1. \A r \in below : Len(r) \in Nat
    OBVIOUS
  <2>2. \A n \in Lens : n \in Nat
    BY <2>1
  <2>3. Lens # {}
    OBVIOUS
  <2> QED
    BY <2>2, <2>3
<1>2. PICK m \in Lens : \A n \in Lens : m <= n
  <2> HIDE DEF Lens
  <2> QED
    BY <1>1, LeastExists
<1>3. \E r \in below : \A q \in below : Len(r) <= Len(q)
  BY <1>2
<1> QED
  BY <1>3

\* The repository that git finds is one of the layout's.
LEMMA RootIsRepo ==
  ASSUME layout \in Layouts, GitRoot # NoRepo
  PROVE  GitRoot \in layout.repos
<1> DEFINE above == {r \in layout.repos : IsPrefix(r, layout.ws)}
<1>1. above # {} /\ GitRoot = CHOOSE r \in above : \A q \in above : Len(q) <= Len(r)
  BY DEF GitRoot
<1>2. \A r \in above : r \in Seq(STRING) /\ IsPrefix(r, layout.ws)
  BY LayoutsAssumption
<1>3. layout.ws \in Seq(STRING)
  BY LayoutsAssumption
<1>4. GitRoot \in above
  <2> HIDE DEF above
  <2> QED
    BY <1>1, <1>2, <1>3, DeepestExists
<1> QED
  BY <1>4

\* The repository that the sandbox takes is one of the layout's.
LEMMA SandboxIsRepo ==
  ASSUME layout \in Layouts, SandboxRoot # NoRepo
  PROVE  SandboxRoot \in layout.repos
<1> DEFINE above == {r \in layout.repos : IsPrefix(r, layout.ws)}
           below == {r \in layout.repos : IsStrictPrefix(layout.ws, r)}
<1>1. SandboxRoot =
        IF above # {} THEN CHOOSE r \in above : \A q \in above : Len(q) <= Len(r)
        ELSE IF below # {} THEN CHOOSE r \in below : \A q \in below : Len(r) <= Len(q)
        ELSE IF Cardinality(layout.repos) = 1 THEN CHOOSE r \in layout.repos : TRUE ELSE NoRepo
  BY DEF SandboxRoot, Best
<1>2. layout.ws \in Seq(STRING) /\ (\A r \in layout.repos : r \in Seq(STRING))
  BY LayoutsAssumption
<1>3. above \subseteq layout.repos /\ below \subseteq layout.repos /\ (\A r \in above : IsPrefix(r, layout.ws))
  OBVIOUS
<1> HIDE DEF above, below
<1>4. CASE above # {}
  BY <1>1, <1>2, <1>3, <1>4, DeepestExists
<1>5. CASE above = {} /\ below # {}
  BY <1>1, <1>2, <1>3, <1>5, ShallowestExists
<1>6. CASE above = {} /\ below = {}
  BY <1>1, <1>6, FS_EmptySet
<1> QED
  BY <1>4, <1>5, <1>6

\* Each step of the branch, the checkpoints and the user keeps the types.
LEMMA GitTypeStep ==
  ASSUME GitTypeOK, [GitNext]_gitVars
  PROVE  GitTypeOK'
<1>0. /\ layout \in Layouts /\ repo \in [layout.repos -> Repos] /\ viewed \in [layout.repos -> BOOLEAN]
      /\ run \in Runs /\ making \in Makings
      /\ work \in [Workers -> {"idle", "working", "done"}] /\ checkpoint \in [Workers -> Progress]
  BY DEF GitTypeOK
<1>1. ASSUME layout' = layout, repo' \in [layout.repos -> Repos], viewed' \in [layout.repos -> BOOLEAN],
             run' \in Runs, making' \in Makings, work' \in [Workers -> {"idle", "working", "done"}],
             checkpoint' \in [Workers -> Progress]
      PROVE  GitTypeOK'
  BY <1>0, <1>1 DEF GitTypeOK, Makings
<1>2. ASSUME NEW r \in layout.repos, UserEdits(r) PROVE GitTypeOK'
  <2>1. repo' \in [layout.repos -> Repos]
    BY <1>0, <1>2 DEF UserEdits, Repos, Writers
  <2> QED
    BY <1>0, <1>1, <1>2, <2>1 DEF UserEdits
<1>3. ASSUME NEW r \in layout.repos, UserReturns(r) PROVE GitTypeOK'
  <2>1. repo' \in [layout.repos -> Repos]
    BY <1>0, <1>3 DEF UserReturns, Repos, Names
  <2> QED
    BY <1>0, <1>1, <1>3, <2>1 DEF UserReturns
<1>4. ASSUME NEW r \in layout.repos, Refresh(r) PROVE GitTypeOK'
  <2>1. viewed' \in [layout.repos -> BOOLEAN]
    BY <1>0, <1>4 DEF Refresh
  <2> QED
    BY <1>0, <1>1, <1>4, <2>1 DEF Refresh
<1>5. ASSUME NEW p \in Workers, NEW r \in layout.repos, WorkerWrites(p, r) PROVE GitTypeOK'
  <2>1. repo' \in [layout.repos -> Repos]
    BY <1>0, <1>5 DEF WorkerWrites, Repos, Writers
  <2> QED
    BY <1>0, <1>1, <1>5, <2>1 DEF WorkerWrites
<1>6. ASSUME NEW p \in Workers, PhaseCheckpoint(p) PROVE GitTypeOK'
  <2>1. work' \in [Workers -> {"idle", "working", "done"}] /\ checkpoint' \in [Workers -> Progress]
    BY <1>0, <1>6 DEF PhaseCheckpoint, Progress
  <2> QED
    BY <1>0, <1>1, <1>6, <2>1 DEF PhaseCheckpoint
<1>7. ASSUME NEW p \in Workers, NEW from, NEW to \in Progress, GitStep(p, from, to), repo' \in [layout.repos -> Repos]
      PROVE  GitTypeOK'
  <2>1. checkpoint' \in [Workers -> Progress]
    BY <1>0, <1>7 DEF GitStep
  <2> QED
    BY <1>0, <1>1, <1>7, <2>1 DEF GitStep
<1>8. ASSUME NEW p \in Workers, SnapshotCommit(p) PROVE GitTypeOK'
  <2>1. CASE GitAdd(p)
    <3>1. repo' \in [layout.repos -> Repos]
      BY <1>0, <2>1 DEF GitAdd, GitStep, Repos, Uncommitted
    <3> QED
      BY <1>7, <2>1, <3>1 DEF GitAdd, Progress
  <2>2. CASE GitStatus(p)
    BY <1>0, <1>7, <2>2 DEF GitStatus, Progress
  <2>3. CASE GitCommit(p)
    <3>1. repo' \in [layout.repos -> Repos]
      BY <1>0, <2>3 DEF GitCommit, GitStep, Repos
    <3> QED
      BY <1>7, <2>3, <3>1 DEF GitCommit, Progress
  <2>4. CASE GitHash(p)
    BY <1>0, <1>7, <2>4 DEF GitHash, Progress
  <2>5. CASE GitFails(p)
    <3>1. checkpoint' \in [Workers -> Progress]
      BY <1>0, <2>5 DEF GitFails, Progress
    <3> QED
      BY <1>0, <1>1, <2>5, <3>1 DEF GitFails
  <2> QED
    BY <1>8, <2>1, <2>2, <2>3, <2>4, <2>5 DEF SnapshotCommit
<1>9. ASSUME NEW r \in Runs, EnterExecuting(r) PROVE run' \in Runs /\ making' \in Makings
  <2>1. run' \in Runs
    BY <1>9 DEF EnterExecuting, Runs
  <2>2. PreFlightCheck => [root |-> SandboxRoot, name |-> r.slug] \in Makings
    BY <1>0, SandboxIsRepo DEF PreFlightCheck, Makings, Runs
  <2> QED
    BY <1>0, <1>9, <2>1, <2>2 DEF EnterExecuting
<1>10. ASSUME CmdStart PROVE GitTypeOK'
  <2>1. \A panel \in BOOLEAN : [run EXCEPT !.skip = @ \/ panel] \in Runs
    BY <1>0 DEF Runs
  <2>2. run' \in Runs /\ making' \in Makings
    BY <1>0, <1>9, <1>10, <2>1 DEF CmdStart
  <2>3. work' \in [Workers -> {"idle", "working", "done"}]
    BY <1>10 DEF CmdStart
  <2> QED
    BY <1>0, <1>1, <1>10, <2>2, <2>3 DEF CmdStart
<1>11. ASSUME BranchMade PROVE GitTypeOK'
  <2>1. making \in [root : layout.repos, name : Slugs]
    BY <1>0, <1>11 DEF BranchMade, Makings
  <2>2. repo' \in [layout.repos -> Repos]
    BY <1>0, <1>11, <2>1 DEF BranchMade, Repos, Names
  <2> QED
    BY <1>0, <1>1, <1>11, <2>2 DEF BranchMade, Makings
<1>12. ASSUME NextSession PROVE GitTypeOK'
  <2>1. run' \in Runs /\ work' \in [Workers -> {"idle", "working", "done"}]
    BY <1>0, <1>12 DEF NextSession, Runs
  <2> QED
    BY <1>0, <1>1, <1>12, <2>1 DEF NextSession
<1>13. CASE UNCHANGED gitVars
  BY <1>0, <1>1, <1>13 DEF gitVars
<1> QED
  BY <1>2, <1>3, <1>4, <1>5, <1>6, <1>8, <1>10, <1>11, <1>12, <1>13 DEF GitNext

\* The types hold at the start.
LEMMA GitTypeInit == GitInit => GitTypeOK
<1> SUFFICES ASSUME GitInit PROVE GitTypeOK
  OBVIOUS
<1>1. [head |-> "main", names |-> {"main"}, tree |-> {}, index |-> {}] \in Repos
  BY DEF Repos, Names
<1>2. repo \in [layout.repos -> Repos]
  BY <1>1 DEF GitInit
<1>3. run \in Runs
  BY DEF GitInit, Runs
<1> QED
  BY <1>2, <1>3 DEF GitInit, GitTypeOK, Makings, Progress

\* The code behaviour: branch and commits go to roots that exist, in every layout of
\* repositories around, above and below the workspace.
THEOREM GitTypeCorrect == GitSpec => []GitTypeOK
  BY GitTypeInit, GitTypeStep, PTL DEF GitSpec

\* The invariant behind CheckpointHolds.
GitInv == GitTypeOK /\ CommitsOwn /\ NeedsRoot

\* git add takes the phase's changes out of the tree, git commit the index; nobody adds
\* a change of a phase that has passed.
LEMMA GitInvStep ==
  ASSUME GitInv, [GitNext]_gitVars
  PROVE  GitInv'
<1>0. /\ layout \in Layouts /\ repo \in [layout.repos -> Repos]
      /\ work \in [Workers -> {"idle", "working", "done"}] /\ checkpoint \in [Workers -> Progress]
      /\ CommitsOwn /\ NeedsRoot
  BY DEF GitInv, GitTypeOK
<1>1. GitTypeOK'
  BY GitTypeStep DEF GitInv
<1>2. ASSUME layout' = layout PROVE GitRoot' = GitRoot
  BY <1>2 DEF GitRoot
<1>3. GitRoot # NoRepo => GitRoot \in layout.repos
  BY <1>0, RootIsRepo
<1>4. ASSUME layout' = layout, checkpoint' = checkpoint,
             \A p \in Workers : work'[p] = "done" => work[p] = "done",
             \A p \in Workers : work[p] = "done" /\ GitRoot # NoRepo =>
               /\ p \in repo'[GitRoot].tree => p \in repo[GitRoot].tree
               /\ p \in repo'[GitRoot].index => p \in repo[GitRoot].index
      PROVE  GitInv'
  BY <1>0, <1>1, <1>2, <1>4 DEF GitInv, CommitsOwn, NeedsRoot, Uncommitted
<1>5. ASSUME NEW r \in layout.repos, UserEdits(r) PROVE GitInv'
  BY <1>0, <1>3, <1>4, <1>5, GitAssumption DEF UserEdits, Repos
<1>6. ASSUME NEW r \in layout.repos, UserReturns(r) PROVE GitInv'
  BY <1>0, <1>3, <1>4, <1>6 DEF UserReturns, Repos
<1>7. ASSUME NEW r \in layout.repos, Refresh(r) PROVE GitInv'
  BY <1>0, <1>4, <1>7 DEF Refresh
<1>8. ASSUME NEW q \in Workers, NEW r \in layout.repos, WorkerWrites(q, r) PROVE GitInv'
  BY <1>0, <1>3, <1>4, <1>8 DEF WorkerWrites, Repos
<1>9. ASSUME NEW p \in Workers, PhaseCheckpoint(p) PROVE GitInv'
  BY <1>0, <1>1, <1>2, <1>9 DEF PhaseCheckpoint, GitInv, CommitsOwn, NeedsRoot, Uncommitted
<1>10. ASSUME NEW p \in Workers, SnapshotCommit(p) PROVE GitInv'
  <2>1. CASE GitAdd(p)
    <3>1. GitRoot # NoRepo /\ GitRoot \in layout.repos
      BY <1>3, <2>1 DEF GitAdd, GitStep
    <3>2. repo'[GitRoot].tree = {} /\ repo'[GitRoot].index = Uncommitted(GitRoot)
      BY <1>0, <2>1, <3>1 DEF GitAdd, Repos
    <3> QED
      BY <1>0, <1>1, <1>2, <2>1, <3>1, <3>2 DEF GitAdd, GitStep, GitInv, CommitsOwn, NeedsRoot, Uncommitted
  <2>2. CASE GitStatus(p)
    BY <1>0, <1>1, <1>2, <2>2 DEF GitStatus, GitStep, GitInv, CommitsOwn, NeedsRoot, Uncommitted
  <2>3. CASE GitCommit(p)
    <3>1. GitRoot # NoRepo /\ GitRoot \in layout.repos
      BY <1>3, <2>3 DEF GitCommit, GitStep
    <3>2. repo'[GitRoot].tree = repo[GitRoot].tree /\ repo'[GitRoot].index = {}
      BY <1>0, <2>3, <3>1 DEF GitCommit, Repos
    <3> QED
      BY <1>0, <1>1, <1>2, <2>3, <3>1, <3>2 DEF GitCommit, GitStep, GitInv, CommitsOwn, NeedsRoot, Uncommitted
  <2>4. CASE GitHash(p)
    BY <1>0, <1>1, <1>2, <2>4 DEF GitHash, GitStep, GitInv, CommitsOwn, NeedsRoot, Uncommitted
  <2>5. CASE GitFails(p)
    BY <1>0, <1>1, <1>2, <2>5 DEF GitFails, GitInv, CommitsOwn, NeedsRoot, Uncommitted
  <2> QED
    BY <1>10, <2>1, <2>2, <2>3, <2>4, <2>5 DEF SnapshotCommit
<1>11. CASE CmdStart
  BY <1>0, <1>4, <1>11 DEF CmdStart
<1>12. CASE BranchMade
  <2>1. making \in [root : layout.repos, name : Slugs]
    BY <1>12 DEF BranchMade, GitInv, GitTypeOK, Makings
  <2>2. GitRoot # NoRepo => repo'[GitRoot].tree = repo[GitRoot].tree /\ repo'[GitRoot].index = repo[GitRoot].index
    BY <1>0, <1>3, <1>12, <2>1 DEF BranchMade, Repos
  <2> QED
    BY <1>0, <1>4, <1>12, <2>2 DEF BranchMade
<1>13. CASE NextSession
  BY <1>0, <1>4, <1>13 DEF NextSession
<1>14. CASE UNCHANGED gitVars
  BY <1>0, <1>4, <1>14 DEF gitVars
<1> QED
  BY <1>5, <1>6, <1>7, <1>8, <1>9, <1>10, <1>11, <1>12, <1>13, <1>14 DEF GitNext

\* The code behaviour: snapshotCommit adds everything, commits and reports a hash, or that
\* there is nothing to commit, while other phases' checkpoints do the same in one index.
THEOREM CheckpointStands == GitSpec => []CheckpointHolds
<1>1. GitInit => GitInv
  BY GitTypeInit DEF GitInit, GitInv, CommitsOwn, NeedsRoot
<1>2. GitInv => CheckpointHolds
  BY DEF GitInv, CommitsOwn, CheckpointHolds
<1> QED
  BY <1>1, <1>2, GitInvStep, PTL DEF GitSpec

-----------------------------------------------------------------------------
(* The rotation of the snapshots                                           *)

\* The states of a window's backup manager.
Jobs == [step : {"none", "copied", "rotate", "delete"}, time : Nat,
         rows : SUBSET Hosts, old : SUBSET Nat]

\* The type invariant of Backups.
BackupTypeOK ==
  /\ dbFile \subseteq Hosts /\ rows \in [Hosts -> SUBSET Hosts]
  /\ clock \in Nat
  /\ Taken \subseteq 0..clock /\ snapshots \in [Taken -> SUBSET Hosts]
  /\ job \in [Hosts -> Jobs]
  /\ \A h \in Hosts : job[h].time <= clock

\* The snapshots taken after t.
Newer(t, times) == {u \in times : u > t}

\* What a rotation has on its list to delete is old, however old the list is.
OldIsOld == \A h \in Hosts : \A t \in job[h].old : Cardinality(Newer(t, Taken)) >= MaxBackups

\* The invariant behind NewestBackupsStay.
BackupInv == BackupTypeOK /\ OldIsOld

\* A part of some times has no more of them.
LEMMA MoreAreNewer ==
  ASSUME NEW c \in Nat, NEW T \in SUBSET (0..c), NEW S \in SUBSET T
  PROVE  Cardinality(S) \in Nat /\ Cardinality(T) \in Nat /\ Cardinality(S) <= Cardinality(T)
<1>1. IsFiniteSet(0..c)
  BY FS_Interval
<1>2. IsFiniteSet(T)
  BY <1>1, FS_Subset
<1> QED
  BY <1>2, FS_Subset, FS_CardinalityType

\* The least of a list is on it.
LEMMA OldestIsOld ==
  ASSUME NEW S \in SUBSET Nat, S # {}
  PROVE  Min(S) \in S
  BY LeastExists DEF Min

\* A copy's job, and its time.
LEMMA CopyJob ==
  ASSUME NEW t \in Nat, NEW shown \in SUBSET Hosts
  PROVE  /\ [Resting EXCEPT !.step = "copied", !.time = t, !.rows = shown] \in Jobs
         /\ [Resting EXCEPT !.step = "copied", !.time = t, !.rows = shown].time = t
  BY DEF Resting, Jobs

\* A listed directory's job, and its time.
LEMMA ListJob ==
  ASSUME NEW j \in Jobs, NEW listed \in SUBSET Nat
  PROVE  /\ [j EXCEPT !.step = "delete", !.old = listed] \in Jobs
         /\ [j EXCEPT !.step = "delete", !.old = listed].time = j.time
  BY DEF Jobs

\* Each step of the backup managers keeps the types.
LEMMA BackupTypeStep ==
  ASSUME BackupTypeOK, [BackupNext]_backupVars
  PROVE  BackupTypeOK'
<1>0. /\ dbFile \subseteq Hosts /\ rows \in [Hosts -> SUBSET Hosts] /\ clock \in Nat
      /\ Taken \subseteq 0..clock /\ snapshots \in [Taken -> SUBSET Hosts]
      /\ job \in [Hosts -> Jobs] /\ (\A h \in Hosts : job[h].time <= clock)
  BY DEF BackupTypeOK
<1>1. ASSUME snapshots' = snapshots PROVE Taken' = Taken
  BY <1>1 DEF Taken
<1>2. ASSUME NEW h \in Hosts, AddRow(h) PROVE BackupTypeOK'
  <2>1. rows' \in [Hosts -> SUBSET Hosts]
    BY <1>0, <1>2 DEF AddRow
  <2> QED
    BY <1>0, <1>1, <1>2, <2>1 DEF AddRow, BackupTypeOK
<1>3. ASSUME NEW h \in Hosts, Flush(h) PROVE BackupTypeOK'
  BY <1>0, <1>1, <1>3 DEF Flush, BackupTypeOK
<1>4. ASSUME NEW h \in Hosts, CopyFile(h) PROVE BackupTypeOK'
  <2> DEFINE copied == [Resting EXCEPT !.step = "copied", !.time = clock + 1, !.rows = dbFile]
  <2>1. clock' = clock + 1 /\ job' = [job EXCEPT ![h] = copied]
    BY <1>4 DEF CopyFile
  <2>2. copied \in Jobs /\ copied.time = clock + 1
    <3>1. clock + 1 \in Nat /\ dbFile \in SUBSET Hosts
      BY <1>0
    <3> QED
      BY <3>1, CopyJob
  <2> HIDE DEF copied
  <2>3. job' \in [Hosts -> Jobs] /\ (\A g \in Hosts : job'[g].time <= clock')
    BY <1>0, <2>1, <2>2 DEF Jobs
  <2>4. 0..clock \subseteq 0..clock'
    BY <1>0, <2>1
  <2> QED
    BY <1>0, <1>1, <1>4, <2>1, <2>3, <2>4 DEF CopyFile, BackupTypeOK
<1>5. ASSUME NEW h \in Hosts, RenameCopy(h) PROVE BackupTypeOK'
  <2>1. job' \in [Hosts -> Jobs] /\ (\A g \in Hosts : job'[g].time = job[g].time)
    BY <1>0, <1>5 DEF RenameCopy, Jobs
  <2>2. Taken' = Taken \cup {job[h].time} /\ job[h].time \in 0..clock /\ job[h].rows \subseteq Hosts
    BY <1>0, <1>5 DEF RenameCopy, Taken, Jobs
  <2>3. snapshots' \in [Taken' -> SUBSET Hosts]
    BY <1>0, <1>5, <2>2 DEF RenameCopy
  <2> QED
    BY <1>0, <1>5, <2>1, <2>2, <2>3 DEF RenameCopy, BackupTypeOK
<1>6. ASSUME NEW h \in Hosts, SnapshotFails(h) PROVE BackupTypeOK'
  <2>1. job' \in [Hosts -> Jobs] /\ (\A g \in Hosts : job'[g].time <= clock)
    BY <1>0, <1>6 DEF SnapshotFails, Resting, Jobs
  <2> QED
    BY <1>0, <1>1, <1>6, <2>1 DEF SnapshotFails, BackupTypeOK
<1>7. ASSUME NEW h \in Hosts, RotateBackups(h) PROVE BackupTypeOK'
  <2> DEFINE listed == Taken \ Newest(MaxBackups, Taken)
  <2>1. listed \subseteq Nat
    <3>1. Taken \subseteq Nat
      BY <1>0
    <3> QED
      BY <3>1
  <2>2. job' = [job EXCEPT ![h].step = "delete", ![h].old = listed]
    BY <1>7 DEF RotateBackups
  <2> HIDE DEF listed
  <2>3. job'[h] = [job[h] EXCEPT !.step = "delete", !.old = listed]
    BY <1>0, <2>2
  <2>4. job'[h] \in Jobs /\ job'[h].time = job[h].time
    <3>1. job[h] \in Jobs
      BY <1>0
    <3>2. /\ [job[h] EXCEPT !.step = "delete", !.old = listed] \in Jobs
          /\ [job[h] EXCEPT !.step = "delete", !.old = listed].time = job[h].time
      BY <2>1, <3>1, ListJob
    <3> QED
      BY <2>3, <3>2
  <2>5. job' \in [Hosts -> Jobs] /\ (\A g \in Hosts : job'[g].time <= clock)
    BY <1>0, <2>2, <2>4
  <2> QED
    BY <1>0, <1>1, <1>7, <2>5 DEF RotateBackups, BackupTypeOK
<1>8. ASSUME NEW h \in Hosts, DeleteOld(h) PROVE BackupTypeOK'
  <2>1. CASE job[h].old = {}
    <3>1. job' \in [Hosts -> Jobs] /\ (\A g \in Hosts : job'[g].time <= clock)
      BY <1>0, <1>8, <2>1 DEF DeleteOld, Resting, Jobs
    <3> QED
      BY <1>0, <1>1, <1>8, <2>1, <3>1 DEF DeleteOld, BackupTypeOK
  <2>2. CASE job[h].old # {}
    <3>1. job' \in [Hosts -> Jobs] /\ (\A g \in Hosts : job'[g].time <= clock)
      BY <1>0, <1>8, <2>2 DEF DeleteOld, Jobs
    <3>2. snapshots' = [u \in Taken \ {Min(job[h].old)} |-> snapshots[u]]
      BY <1>8, <2>2 DEF DeleteOld
    <3>3. Taken' = Taken \ {Min(job[h].old)} /\ snapshots' \in [Taken' -> SUBSET Hosts]
      BY <1>0, <3>2 DEF Taken
    <3> QED
      BY <1>0, <1>8, <3>1, <3>3 DEF DeleteOld, BackupTypeOK
  <2> QED
    BY <2>1, <2>2
<1>9. ASSUME NEW h \in Hosts, RestoreFromBackup(h) PROVE BackupTypeOK'
  <2>1. Max(Taken) \in Taken
    <3>1. Taken \in SUBSET Nat /\ (\A t \in Taken : t <= clock) /\ Taken # {}
      BY <1>0, <1>9 DEF RestoreFromBackup
    <3>2. PICK m \in Taken : \A t \in Taken : t <= m
      BY <1>0, <3>1, GreatestExists
    <3> QED
      BY <3>1, <3>2 DEF Max
  <2> QED
    BY <1>0, <1>1, <1>9, <2>1 DEF RestoreFromBackup, BackupTypeOK
<1>10. CASE UNCHANGED backupVars
  BY <1>0, <1>1, <1>10 DEF backupVars, BackupTypeOK
<1> QED
  BY <1>2, <1>3, <1>4, <1>5, <1>6, <1>7, <1>8, <1>9, <1>10 DEF BackupNext

\* What a deletion takes away is on a list, so older than MaxBackups others.
LEMMA DeletionIsOld ==
  ASSUME BackupInv, NEW h \in Hosts, DeleteOld(h), NEW t \in Taken, t \notin DOMAIN snapshots'
  PROVE  Cardinality(Newer(t, Taken)) >= MaxBackups
<1>1. job[h].old # {} /\ job[h].old \in SUBSET Nat
  BY DEF DeleteOld, Taken, BackupInv, BackupTypeOK, Jobs
<1>2. t = Min(job[h].old)
  BY <1>1 DEF DeleteOld
<1>3. t \in job[h].old
  BY <1>1, <1>2, OldestIsOld
<1> QED
  BY <1>3 DEF BackupInv, OldIsOld

\* A snapshot that another window adds makes the listed ones older; one that it deletes
\* is not newer than what is listed, or is itself older than MaxBackups others, which
\* are newer than what is listed.
LEMMA OldStep ==
  ASSUME BackupInv, [BackupNext]_backupVars
  PROVE  OldIsOld'
<1>0. /\ clock \in Nat /\ Taken \subseteq 0..clock /\ job \in [Hosts -> Jobs] /\ OldIsOld
      /\ MaxBackups \in Nat
  BY BackupAssumption DEF BackupInv, BackupTypeOK
<1>1. ASSUME snapshots' = snapshots PROVE Taken' = Taken
  BY <1>1 DEF Taken
<1>2. ASSUME Taken' = Taken, NEW g \in Hosts, job' = [job EXCEPT ![g] = job'[g]], job'[g].old \subseteq job[g].old
      PROVE  OldIsOld'
  BY <1>0, <1>2 DEF OldIsOld
<1>3. ASSUME Taken' = Taken, job' = job PROVE OldIsOld'
  BY <1>0, <1>3 DEF OldIsOld
<1>4. ASSUME NEW h \in Hosts, AddRow(h) \/ Flush(h) \/ RestoreFromBackup(h) PROVE OldIsOld'
  BY <1>1, <1>3, <1>4 DEF AddRow, Flush, RestoreFromBackup
<1>5. ASSUME NEW h \in Hosts, CopyFile(h) PROVE OldIsOld'
  BY <1>0, <1>1, <1>2, <1>5 DEF CopyFile, Resting
<1>6. ASSUME NEW h \in Hosts, RenameCopy(h) PROVE OldIsOld'
  <2>1. Taken' = Taken \cup {job[h].time} /\ BackupTypeOK'
    BY <1>6, BackupTypeStep DEF RenameCopy, Taken, BackupInv, BackupNext
  <2>2. clock' = clock /\ Taken' \in SUBSET (0..clock)
    BY <1>6, <2>1 DEF RenameCopy, BackupTypeOK
  <2>3. ASSUME NEW g \in Hosts, NEW t \in job'[g].old PROVE Cardinality(Newer(t, Taken')) >= MaxBackups
    <3>1. t \in job[g].old
      BY <1>0, <1>6, <2>3 DEF RenameCopy, Jobs
    <3>2. Newer(t, Taken) \subseteq Newer(t, Taken') /\ Newer(t, Taken') \in SUBSET (0..clock)
      BY <2>1, <2>2 DEF Newer
    <3>3. Cardinality(Newer(t, Taken)) >= MaxBackups
      BY <1>0, <3>1 DEF OldIsOld
    <3>4. /\ Cardinality(Newer(t, Taken)) \in Nat /\ Cardinality(Newer(t, Taken')) \in Nat
          /\ Cardinality(Newer(t, Taken)) <= Cardinality(Newer(t, Taken'))
      BY <1>0, <3>2, MoreAreNewer
    <3> QED
      BY <1>0, <3>3, <3>4
  <2> QED
    BY <2>3 DEF OldIsOld
<1>7. ASSUME NEW h \in Hosts, SnapshotFails(h) PROVE OldIsOld'
  BY <1>0, <1>1, <1>2, <1>7 DEF SnapshotFails, Resting
<1>8. ASSUME NEW h \in Hosts, RotateBackups(h) PROVE OldIsOld'
  <2>1. Taken' = Taken /\ job' = [job EXCEPT ![h].step = "delete", ![h].old = Taken \ Newest(MaxBackups, Taken)]
    BY <1>1, <1>8 DEF RotateBackups
  <2>2. ASSUME NEW t \in Taken \ Newest(MaxBackups, Taken) PROVE Cardinality(Newer(t, Taken)) >= MaxBackups
    <3>1. ~(Cardinality(Newer(t, Taken)) < MaxBackups)
      BY <2>2 DEF Newest, Newer
    <3>2. Cardinality(Newer(t, Taken)) \in Nat
      BY <1>0, MoreAreNewer DEF Newer
    <3> QED
      BY <1>0, <3>1, <3>2
  <2>3. ASSUME NEW g \in Hosts, NEW t \in job'[g].old PROVE Cardinality(Newer(t, Taken)) >= MaxBackups
    BY <1>0, <2>1, <2>2, <2>3 DEF Jobs, OldIsOld
  <2> QED
    BY <2>1, <2>3 DEF OldIsOld
<1>9. ASSUME NEW h \in Hosts, DeleteOld(h) PROVE OldIsOld'
  <2>1. CASE job[h].old = {}
    BY <1>0, <1>1, <1>2, <1>9, <2>1 DEF DeleteOld, Resting
  <2>2. CASE job[h].old # {}
    <3> DEFINE out == Min(job[h].old)
    <3>1. job[h].old \in SUBSET Nat /\ out \in job[h].old
      BY <1>0, <2>2, OldestIsOld DEF Jobs
    <3>2. Taken' = Taken \ {out} /\ job' = [job EXCEPT ![h].old = @ \ {out}]
      BY <1>9, <2>2 DEF DeleteOld, Taken
    <3>3. out \in Nat /\ Cardinality(Newer(out, Taken)) >= MaxBackups
      BY <1>0, <3>1 DEF OldIsOld
    <3> HIDE DEF out
    <3>4. ASSUME NEW g \in Hosts, NEW t \in job'[g].old PROVE Cardinality(Newer(t, Taken')) >= MaxBackups
      <4>1. t \in job[g].old /\ t \in Nat
        BY <1>0, <3>2, <3>4 DEF Jobs
      <4>2. Newer(t, Taken') \in SUBSET (0..clock)
        BY <1>0, <3>2 DEF Newer
      <4>3. CASE out <= t
        <5>1. Newer(t, Taken') = Newer(t, Taken)
          BY <1>0, <3>2, <3>3, <4>1, <4>3 DEF Newer
        <5> QED
          BY <1>0, <4>1, <5>1 DEF OldIsOld
      <4>4. CASE t < out
        <5>1. Newer(out, Taken) \subseteq Newer(t, Taken')
          BY <1>0, <3>2, <3>3, <4>1, <4>4 DEF Newer
        <5>2. /\ Cardinality(Newer(out, Taken)) \in Nat /\ Cardinality(Newer(t, Taken')) \in Nat
              /\ Cardinality(Newer(out, Taken)) <= Cardinality(Newer(t, Taken'))
          BY <1>0, <4>2, <5>1, MoreAreNewer
        <5> QED
          BY <1>0, <3>3, <5>2
      <4> QED
        BY <3>3, <4>1, <4>3, <4>4
    <3> QED
      BY <3>4 DEF OldIsOld
  <2> QED
    BY <2>1, <2>2
<1>10. CASE UNCHANGED backupVars
  BY <1>1, <1>3, <1>10 DEF backupVars
<1> QED
  BY <1>4, <1>5, <1>6, <1>7, <1>8, <1>9, <1>10 DEF BackupNext

\* The code behaviour: rotateBackups sorts what readdir showed and unlinks all but the last
\* maxBackups, one file after the other, while other windows add and unlink as well.
THEOREM NewestBackupsStayHolds == BackupSpec => NewestBackupsStay
<1>1. BackupInit => BackupInv
  <2> SUFFICES ASSUME BackupInit PROVE BackupInv
    OBVIOUS
  <2>1. Taken = {} /\ snapshots \in [Taken -> SUBSET Hosts]
    BY DEF BackupInit, Taken
  <2>2. job \in [Hosts -> Jobs] /\ (\A h \in Hosts : job[h].time = 0 /\ job[h].old = {})
    BY DEF BackupInit, Resting, Jobs
  <2> QED
    BY <2>1, <2>2 DEF BackupInit, BackupInv, BackupTypeOK, OldIsOld
<1>2. BackupInv /\ [BackupNext]_backupVars => BackupInv'
  BY BackupTypeStep, OldStep DEF BackupInv
<1>3. BackupInv /\ [BackupNext]_backupVars =>
        [Newest(MaxBackups, Taken) \cap Newest(MaxBackups, Taken \cup DOMAIN snapshots')
           \subseteq DOMAIN snapshots']_backupVars
  <2> SUFFICES ASSUME BackupInv, BackupNext, NEW t \in Newest(MaxBackups, Taken), t \notin DOMAIN snapshots'
               PROVE  FALSE
    OBVIOUS
  <2>1. t \in Taken /\ Cardinality(Newer(t, Taken)) < MaxBackups
    BY DEF Newest, Newer
  <2>2. PICK h \in Hosts : DeleteOld(h)
    BY <2>1 DEF BackupNext, AddRow, Flush, CopyFile, RenameCopy, SnapshotFails, RotateBackups, RestoreFromBackup, Taken
  <2>3. Cardinality(Newer(t, Taken)) >= MaxBackups
    BY <2>1, <2>2, DeletionIsOld
  <2>4. Cardinality(Newer(t, Taken)) \in Nat /\ MaxBackups \in Nat
    BY BackupAssumption, MoreAreNewer DEF BackupInv, BackupTypeOK, Newer
  <2> QED
    BY <2>1, <2>3, <2>4
<1> QED
  BY <1>1, <1>2, <1>3, PTL DEF BackupSpec, NewestBackupsStay
=============================================================================
