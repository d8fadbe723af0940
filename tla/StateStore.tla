----------------------------- MODULE StateStore -----------------------------
(***************************************************************************)
(* StateStore: the StateManagers of one session directory, in one or more  *)
(* windows.  A save takes the lock file, writes the database of its        *)
(* window, the WAL, a temporary file and renames that over the runbook;    *)
(* a load reads the database first and the file only without it.           *)
(*                                                                         *)
(* A runbook is the number of its save, in the order the saves write the   *)
(* database; Torn is a file that was opened and not yet written.  Files    *)
(* are known by their paths, which is exact while one manager writes.  The *)
(* end of a write and the start of the next one are one step.  A window    *)
(* that dies is replaced by one with another process id.  Encryption is    *)
(* off in every manager the extension creates.  The validator runs before  *)
(* anything changes, so a save that it refuses is no step.                 *)
(***************************************************************************)
EXTENDS Naturals, FiniteSets

CONSTANTS
  Managers, Windows,
  WindowOf,     \* the window a manager lives in
  AtomicLock,   \* are the accesses to the lock file never interleaved?
  RecoverAlone, \* is there no other save while a recovery runs?
  MaxSaves,     \* bound: saves that reach the database
  MaxCrashes    \* bound: deaths of one window

ASSUME StoreAssumption ==
  /\ WindowOf \in [Managers -> Windows]
  /\ {AtomicLock, RecoverAlone} \subseteq BOOLEAN
  /\ MaxSaves \in Nat
  /\ MaxCrashes \in Nat

VARIABLES
  files,        \* the lock, the WAL, the temporary file and the runbook
  managers,     \* what each StateManager is doing
  memory, disk, \* the runbook in each window's database, and in the database file
  deaths,       \* per window: with the window, its process id
  saves, kept   \* saves that reached the database; the last one that returned

storeVars == <<files, managers, memory, disk, deaths, saves, kept>>

None == 0
Torn == MaxSaves + 1
Runbooks == 1..MaxSaves
NoLock == [by |-> "nobody"]
NoPid == [window |-> "nobody"]

Pid(w) == [window |-> w, life |-> deaths[w]]
PidOf(m) == Pid(WindowOf[m])
IsAlive(pid) == \E w \in Windows : pid = Pid(w)

Manager(pc) == [pc |-> pc, job |-> "save", book |-> None, cleaned |-> FALSE, failed |-> FALSE]

StoreInit ==
  /\ files = [lock |-> NoLock, wal |-> None, tmp |-> None, book |-> None]
  /\ managers = [m \in Managers |-> Manager("idle")]
  /\ memory = [w \in Windows |-> None]
  /\ disk = None
  /\ deaths = [w \in Windows |-> 0]
  /\ saves = 0
  /\ kept = None

At(m, pc) == managers[m].pc = pc
Goto(m, pc) == managers' = [managers EXCEPT ![m].pc = pc]

Recovering == \E m \in Managers : managers[m].pc # "idle" /\ managers[m].job = "recover"

(* The lock file.                                                          *)

Acquire(m, job) ==
  /\ At(m, "idle")
  /\ managers' = [managers EXCEPT ![m] = [Manager("lock") EXCEPT !.job = job]]

\* With AtomicLock, an access to the lock file that takes two steps is not interrupted.
Undisturbed(m) ==
  AtomicLock => \A n \in Managers \ {m} : managers[n].pc \notin {"create", "unlink"}

\* The file is opened exclusively and then written: between the two it is empty.
Create(m) ==
  /\ At(m, "lock")
  /\ Undisturbed(m)
  /\ files.lock = NoLock
  /\ files' = [files EXCEPT !.lock = [by |-> m, pid |-> NoPid]]
  /\ Goto(m, "create")
  /\ UNCHANGED <<memory, disk, deaths, saves, kept>>

WritePid(m) ==
  /\ At(m, "create")
  /\ files' = IF files.lock # NoLock /\ files.lock.by = m
              THEN [files EXCEPT !.lock.pid = PidOf(m)] ELSE files
  /\ Goto(m, "locked")
  /\ UNCHANGED <<memory, disk, deaths, saves, kept>>

\* A lock without a number in it, or of a process that is gone.
IsStale(lock) == lock # NoLock /\ ~IsAlive(lock.pid)

\* A mutant of ReadLock: any lock found is taken for a stale one.
ReadLockAlways(m) ==
  /\ At(m, "lock")
  /\ Undisturbed(m)
  /\ files.lock # NoLock
  /\ ~managers[m].cleaned
  /\ Goto(m, "unlink")
  /\ UNCHANGED <<files, memory, disk, deaths, saves, kept>>

\* The first refusal makes the manager look whether the lock is stale.
ReadLock(m) ==
  /\ At(m, "lock")
  /\ Undisturbed(m)
  /\ files.lock # NoLock
  /\ ~managers[m].cleaned
  /\ managers' = [managers EXCEPT ![m].pc = IF IsStale(files.lock) THEN "unlink" ELSE "lock",
                                 ![m].cleaned = ~IsStale(files.lock)]
  /\ UNCHANGED <<files, memory, disk, deaths, saves, kept>>

UnlinkStale(m) ==
  /\ At(m, "unlink")
  /\ files' = [files EXCEPT !.lock = NoLock]
  /\ managers' = [managers EXCEPT ![m].pc = "lock", ![m].cleaned = TRUE]
  /\ UNCHANGED <<memory, disk, deaths, saves, kept>>

\* Five seconds of polling: the caller gets an error.
LockTimeout(m) ==
  /\ At(m, "lock")
  /\ files.lock # NoLock
  /\ managers[m].cleaned
  /\ managers' = [managers EXCEPT ![m] = Manager("idle")]
  /\ UNCHANGED <<files, memory, disk, deaths, saves, kept>>

Release(m) ==
  /\ At(m, "release")
  /\ files' = [files EXCEPT !.lock = NoLock]
  /\ managers' = [managers EXCEPT ![m] = Manager("idle")]
  /\ kept' = IF managers[m].job = "save" /\ ~managers[m].failed THEN managers[m].book ELSE kept
  /\ UNCHANGED <<memory, disk, deaths, saves>>

(* A save.  The mutex of the manager keeps its saves one after the other.  *)

Queued == {m \in Managers :
  managers[m].job = "save" /\ managers[m].pc \in {"lock", "create", "unlink", "locked"}}

Save(m) ==
  /\ RecoverAlone => ~Recovering
  /\ saves + Cardinality(Queued) < MaxSaves
  /\ Acquire(m, "save")
  /\ UNCHANGED <<files, memory, disk, deaths, saves, kept>>

UpsertRunbook(m) ==
  /\ At(m, "locked")
  /\ managers[m].job = "save"
  /\ saves' = saves + 1
  /\ memory' = [memory EXCEPT ![WindowOf[m]] = saves']
  /\ files' = [files EXCEPT !.wal = Torn]
  /\ managers' = [managers EXCEPT ![m].pc = "wal", ![m].book = saves']
  /\ UNCHANGED <<disk, deaths, kept>>

\* A mutant of WriteWal: the temporary file's write is not awaited.
WriteWalNoAwait(m) ==
  /\ At(m, "wal")
  /\ files' = [files EXCEPT !.wal = managers[m].book, !.tmp = Torn]
  /\ Goto(m, "rename")
  /\ UNCHANGED <<memory, disk, deaths, saves, kept>>

WriteWal(m) ==
  /\ At(m, "wal")
  /\ files' = [files EXCEPT !.wal = managers[m].book, !.tmp = Torn]
  /\ Goto(m, "tmp")
  /\ UNCHANGED <<memory, disk, deaths, saves, kept>>

WriteBook(m) ==
  /\ At(m, "tmp")
  /\ files' = [files EXCEPT !.tmp = managers[m].book]
  /\ Goto(m, "rename")
  /\ UNCHANGED <<memory, disk, deaths, saves, kept>>

\* A recovery puts its runbook into the database after the rename.
RenameBook(m) ==
  /\ At(m, "rename")
  /\ files.tmp # None
  /\ files' = [files EXCEPT !.book = files.tmp, !.tmp = None]
  /\ memory' = IF managers[m].job = "recover"
               THEN [memory EXCEPT ![WindowOf[m]] = managers[m].book] ELSE memory
  /\ Goto(m, "clear")
  /\ UNCHANGED <<disk, deaths, saves, kept>>

ClearWal(m) ==
  /\ At(m, "clear")
  /\ files' = [files EXCEPT !.wal = None,
                            !.tmp = IF managers[m].job = "recover" THEN None ELSE @]
  /\ Goto(m, "release")
  /\ UNCHANGED <<memory, disk, deaths, saves, kept>>

\* A mutant of WriteFails: no finally around the writes.
WriteFailsLocked(m) ==
  /\ managers[m].pc \in {"wal", "tmp", "rename"}
  /\ managers' = [managers EXCEPT ![m] = Manager("idle")]
  /\ UNCHANGED <<files, memory, disk, deaths, saves, kept>>

\* A write or the rename fails: the lock is released and the caller gets the error.
WriteFails(m) ==
  /\ managers[m].pc \in {"wal", "tmp", "rename"}
  /\ managers' = [managers EXCEPT ![m].pc = "release", ![m].failed = TRUE]
  /\ UNCHANGED <<files, memory, disk, deaths, saves, kept>>

(* A load.  A runbook found in the file only is promoted to the database.  *)

Loaded(m) == IF memory[WindowOf[m]] # None THEN memory[WindowOf[m]] ELSE files.book

LoadRunbook(m) ==
  /\ At(m, "idle")
  /\ Loaded(m) # Torn
  /\ memory' = [memory EXCEPT ![WindowOf[m]] = Loaded(m)]
  /\ UNCHANGED <<files, managers, disk, deaths, saves, kept>>

(* A recovery.  The WAL is read before the lock is taken.                  *)

RecoverFromCrash(m) ==
  /\ At(m, "idle")
  /\ Undisturbed(m)
  /\ RecoverAlone => \A n \in Managers : At(n, "idle")
  /\ files' = [files EXCEPT
        !.lock = IF IsStale(@) THEN NoLock ELSE @,
        !.wal = IF @ = Torn THEN None ELSE @,
        !.tmp = IF files.wal = Torn THEN None ELSE @]
  /\ managers' = IF files.wal \in Runbooks
                 THEN [managers EXCEPT ![m] = [Manager("lock") EXCEPT
                          !.job = "recover", !.book = files.wal]]
                 ELSE managers
  /\ UNCHANGED <<memory, disk, deaths, saves, kept>>

OpenTmp(m) ==
  /\ At(m, "locked")
  /\ managers[m].job = "recover"
  /\ files' = [files EXCEPT !.tmp = Torn]
  /\ Goto(m, "tmp")
  /\ UNCHANGED <<memory, disk, deaths, saves, kept>>

(* The windows.                                                            *)

FlushDb(w) ==
  /\ memory[w] # None
  /\ disk' = memory[w]
  /\ UNCHANGED <<files, managers, memory, deaths, saves, kept>>

Die(w) ==
  /\ deaths[w] < MaxCrashes
  /\ deaths' = [deaths EXCEPT ![w] = @ + 1]
  /\ memory' = [memory EXCEPT ![w] = disk]
  /\ managers' = [m \in Managers |-> IF WindowOf[m] = w THEN Manager("idle") ELSE managers[m]]
  /\ UNCHANGED <<files, disk, saves, kept>>

Attempt(m) ==
  \/ Create(m) \/ WritePid(m) \/ ReadLock(m) \/ UnlinkStale(m) \/ LockTimeout(m)
  \/ UpsertRunbook(m) \/ WriteWal(m) \/ WriteBook(m) \/ RenameBook(m) \/ ClearWal(m)
  \/ WriteFails(m) \/ OpenTmp(m) \/ Release(m)

StoreNext ==
  \/ \E m \in Managers : Attempt(m) \/ Save(m) \/ LoadRunbook(m) \/ RecoverFromCrash(m)
  \/ \E w \in Windows : FlushDb(w) \/ Die(w)

StoreFairness == \A m \in Managers : WF_storeVars(Attempt(m))

StoreSpec == StoreInit /\ [][StoreNext]_storeVars /\ StoreFairness

-----------------------------------------------------------------------------
(* Properties                                                              *)

Pcs == {"idle", "lock", "create", "unlink", "locked", "wal", "tmp", "rename", "clear", "release"}
Writing == {"locked", "wal", "tmp", "rename", "clear", "release"}
Whole == {None} \cup Runbooks
Content == {Torn} \cup Whole
Pids == [window : Windows, life : 0..MaxCrashes]

\* What is being saved, and what is in a database, is a whole runbook: a load or a
\* recovery takes nothing from a file that was not written to its end.
StoreTypeOK ==
  /\ files \in [lock : {NoLock} \cup [by : Managers, pid : {NoPid} \cup Pids],
                wal : Content, tmp : Content, book : Content]
  /\ managers \in [Managers -> [pc : Pcs, job : {"save", "recover"}, book : Whole,
                               cleaned : BOOLEAN, failed : BOOLEAN]]
  /\ memory \in [Windows -> Whole]
  /\ disk \in Whole
  /\ deaths \in [Windows -> 0..MaxCrashes]
  /\ saves \in 0..MaxSaves
  /\ kept \in Whole

\* The lock does what it is for, whichever windows die: between taking it and
\* letting go of it, a manager is the only one that writes the session's files.
OneWriter == \A m, n \in Managers :
  managers[m].pc \in Writing /\ managers[n].pc \in Writing => m = n

\* The runbook file is whole at every moment, also after a death in the middle
\* of a save, and never older than the last save that returned, also after a
\* recovery that replayed a WAL.
SavedBookInFile == files.book # Torn /\ files.book >= kept

\* A lock of a live process does not stay: whatever fails in a save or in a
\* recovery, the manager lets go of it.
LockIsFreed == \A m \in Managers :
  files.lock # NoLock /\ files.lock.by = m /\ IsAlive(files.lock.pid)
    ~> ~(files.lock # NoLock /\ files.lock.by = m /\ IsAlive(files.lock.pid))
=============================================================================
