----------------------------- MODULE ArtifactDb -----------------------------
(***************************************************************************)
(* ArtifactDB: one database file shared by several processes (windows and  *)
(* the stdio MCP server), each with a copy in memory.  A write changes the *)
(* copy and arms a timer; a flush reads the file, merges the copy into it, *)
(* writes a temporary file and renames it; a tool call first merges the    *)
(* file into the copy if the file has changed since it last looked.        *)
(*                                                                         *)
(* A database is a set of rows, known by their keys: a row in two          *)
(* databases goes to the last writer, and what it then holds is left out.  *)
(* All tables that reference the tasks table are alike; the rows of the    *)
(* others are tasks without records.  The schema statements turn foreign   *)
(* keys on, so that replacing a task's row deletes its records (ON DELETE  *)
(* CASCADE) before the source's records come in.                           *)
(*                                                                         *)
(* One tool call at a time in a process.  The read and the merge of a      *)
(* flush are one step.  Backups only delay the end of a flush.             *)
(***************************************************************************)
EXTENDS Naturals

CONSTANTS
  Procs,
  Hosts,       \* the windows: they run the engine, the others only serve tool calls
  Tasks, Records,
  TaskOf,      \* the task a record references
  Overlap,     \* may two processes flush at the same time?
  IoErrors,    \* may a stat, a write or a rename fail?
  ReadErrors,  \* may a read of the file fail?
  MaxPending   \* bound: flushes asked for and not over, in one process

ASSUME HostsAssumption == Hosts \subseteq Procs
ASSUME TaskOfAssumption == TaskOf \in [Records -> Tasks]
ASSUME DisjointAssumption == Tasks \cap Records = {}
ASSUME SettingsAssumption == {Overlap, IoErrors, ReadErrors} \subseteq BOOLEAN
ASSUME MaxPendingAssumption == MaxPending \in Nat \ {0}

VARIABLES
  db,          \* the ArtifactDB of each process
  disk,        \* the database file
  tmp          \* the file renamed over it: one for all processes, or none

vars == <<db, disk, tmp>>

Rows == Tasks \cup Records
Owner(r) == IF r \in Tasks THEN r ELSE TaskOf[r]
Family(t) == {r \in Rows : Owner(r) = t}

Lives == {"closed", "creating", "open"}
Stages == {"idle", "merged", "written", "renamed"}
Calls == {"none", "reading", "ready", "submitting"}

Instance ==
  [ life : Lives,
    mem : SUBSET Rows,        \* the copy
    deleted : SUBSET Rows,    \* history: rows it deleted and has not seen since
    dirty : BOOLEAN,          \* _isDirty
    timer : BOOLEAN,          \* flushTimer is armed
    stale : BOOLEAN,          \* the file is newer than _lastDiskMtimeMs
    pending : 0 .. MaxPending,   \* flushes queued on flushLock, the running one included
    stage : Stages,           \* how far the running flush is
    image : SUBSET Rows,      \* what it writes
    call : Calls,             \* the tool call
    place : 0 .. MaxPending,  \* which pending flush the call awaits; 0 is none
    awaited : SUBSET Rows ]   \* the rows the call has submitted

TypeOK ==
  /\ db \in [Procs -> Instance]
  /\ disk \in SUBSET Rows
  /\ tmp \in SUBSET (SUBSET Rows)

Closed ==
  [ life |-> "closed", mem |-> {}, deleted |-> {}, dirty |-> FALSE, timer |-> FALSE,
    stale |-> TRUE, pending |-> 0, stage |-> "idle", image |-> {}, call |-> "none",
    place |-> 0, awaited |-> {} ]

Init ==
  /\ db = [p \in Procs |-> Closed]
  /\ disk = {}
  /\ tmp = {}

\* mergeInto: every row of the source replaces the target's; where it replaces
\* a task, the target's records of the task go.
Merge(target, source) == source \cup {r \in target : Owner(r) \notin source}

\* What a read finds: every error is taken for a missing file.
Reads == IF ReadErrors THEN {disk, {}} ELSE {disk}

\* No other process is between its read of the file and its rename.
Alone(p) ==
  Overlap \/ \A q \in Procs \ {p} : db[q].stage \notin {"merged", "written"}

Put(p, instance) == db' = [db EXCEPT ![p] = instance]

\* A new file: no process has seen it, the one that renamed it included.
ReplaceDisk(image) ==
  /\ disk' = image
  /\ tmp' = {}

-----------------------------------------------------------------------------
(* Opening and closing *)

\* create loads the file and awaits a first flush.
Open(p) ==
  /\ db[p].life = "closed"
  /\ \E file \in Reads :
       Put(p, [Closed EXCEPT !.life = "creating", !.mem = file, !.pending = 1])
  /\ UNCHANGED <<disk, tmp>>

\* close: a last flush, synchronous.
Close(p) ==
  /\ db[p].life = "open"
  /\ Alone(p)
  /\ \E file \in Reads : ReplaceDisk(Merge(file, db[p].mem))
  /\ db' = [q \in Procs |-> IF q = p THEN Closed ELSE [db[q] EXCEPT !.stale = TRUE]]

\* The process dies, or the last flush fails.
Crash(p) ==
  /\ db[p].life # "closed"
  /\ Put(p, Closed)
  /\ UNCHANGED <<disk, tmp>>

-----------------------------------------------------------------------------
(* Writes of the repositories: memory, then scheduleFlush *)

Inserted(rows, instance) ==
  [instance EXCEPT !.mem = @ \cup rows, !.deleted = @ \ rows, !.dirty = TRUE]

\* upsert: the row and, if there is none, its task's.
Write(p, r) ==
  /\ db[p].life = "open"
  /\ Put(p, [Inserted({r, Owner(r)}, db[p]) EXCEPT !.timer = TRUE])
  /\ UNCHANGED <<disk, tmp>>

\* delete and deleteChildRecords.
Delete(p, t) ==
  \E gone \in {Family(t), Family(t) \ {t}} :
    /\ db[p].life = "open"
    /\ Put(p, [db[p] EXCEPT !.mem = @ \ gone, !.deleted = @ \cup gone, !.awaited = @ \ gone,
                            !.dirty = TRUE, !.timer = TRUE])
    /\ UNCHANGED <<disk, tmp>>

-----------------------------------------------------------------------------
(* Flushes, one after the other in a process *)

\* flushAsync: the flush waits its turn on flushLock.
TimerFires(p) ==
  /\ db[p].timer
  /\ db[p].pending < MaxPending
  /\ Put(p, [db[p] EXCEPT !.timer = FALSE, !.pending = @ + 1])
  /\ UNCHANGED <<disk, tmp>>

\* forceFlush of the engine, before it dispatches and after a worker's report.
ForceFlush(p) ==
  /\ db[p].life = "open"
  /\ db[p].dirty => db[p].pending < MaxPending
  /\ Put(p, [db[p] EXCEPT !.timer = FALSE, !.pending = IF db[p].dirty THEN @ + 1 ELSE @])
  /\ UNCHANGED <<disk, tmp>>

\* Mutant for TasksStay: the file is not read before it is replaced.
StartFlushWithoutReload(p) ==
  /\ db[p].pending > 0
  /\ db[p].stage = "idle"
  /\ Alone(p)
  /\ Put(p, [db[p] EXCEPT !.stage = "merged", !.image = db[p].mem])
  /\ UNCHANGED <<disk, tmp>>

StartFlush(p) ==
  /\ db[p].pending > 0
  /\ db[p].stage = "idle"
  /\ Alone(p)
  /\ \E file \in Reads :
       Put(p, [db[p] EXCEPT !.stage = "merged", !.image = Merge(file, db[p].mem)])
  /\ UNCHANGED <<disk, tmp>>

WriteTmp(p) ==
  /\ db[p].stage = "merged"
  /\ tmp' = {db[p].image}
  /\ Put(p, [db[p] EXCEPT !.stage = "written"])
  /\ UNCHANGED disk

\* Mutant for FreshMemory: a process takes its own file for one it has read.
RenameSeen(p) ==
  /\ db[p].stage = "written"
  /\ \E image \in tmp : ReplaceDisk(image)
  /\ db' = [q \in Procs |->
              IF q = p THEN [db[p] EXCEPT !.stage = "renamed", !.dirty = FALSE, !.stale = FALSE]
              ELSE [db[q] EXCEPT !.stale = TRUE]]

Rename(p) ==
  /\ db[p].stage = "written"
  /\ \E image \in tmp : ReplaceDisk(image)
  /\ db' = [q \in Procs |->
              IF q = p THEN [db[p] EXCEPT !.stage = "renamed", !.dirty = FALSE, !.stale = TRUE]
              ELSE [db[q] EXCEPT !.stale = TRUE]]

\* The flush's promise resolves; create returns, or the call that awaits it.
Settled(instance) ==
  [instance EXCEPT !.stage = "idle", !.image = {}, !.pending = @ - 1,
                   !.life = "open",
                   !.place = IF @ > 0 THEN @ - 1 ELSE 0,
                   !.call = IF instance.place = 1 THEN "none" ELSE @,
                   !.awaited = IF instance.place = 1 THEN {} ELSE @]

EndFlush(p) ==
  /\ db[p].stage = "renamed"
  /\ Put(p, Settled(db[p]))
  /\ UNCHANGED <<disk, tmp>>

\* Mutant for SubmitsReturn: the error leaves the promise of the flush pending.
FlushFailsSilently(p) ==
  /\ IoErrors
  /\ db[p].pending > 0
  /\ db[p].stage # "renamed"
  /\ Put(p, [db[p] EXCEPT !.stage = "idle", !.pending = @ - 1, !.place = 0, !.dirty = TRUE])
  /\ UNCHANGED <<disk, tmp>>

\* A merge, a write or a rename throws; the error goes no further.
FlushFails(p) ==
  /\ IoErrors
  /\ db[p].pending > 0
  /\ db[p].stage # "renamed"
  /\ Put(p, [Settled(db[p]) EXCEPT !.dirty = TRUE])
  /\ UNCHANGED <<disk, tmp>>

-----------------------------------------------------------------------------
(* Tool calls *)

\* reloadIfStale takes the time stamp before it reads the file.
Stat(p) ==
  /\ db[p].life = "open"
  /\ db[p].call = "none"
  /\ Put(p, [db[p] EXCEPT !.call = IF db[p].stale THEN "reading" ELSE "ready", !.stale = FALSE])
  /\ UNCHANGED <<disk, tmp>>

\* stat throws: the call goes on with the copy as it is.
StatFails(p) ==
  /\ IoErrors
  /\ db[p].life = "open"
  /\ db[p].call = "none"
  /\ Put(p, [db[p] EXCEPT !.call = "ready"])
  /\ UNCHANGED <<disk, tmp>>

\* reloadFromDisk.  An export of the copy may have reset the pragma that
\* makes the merge delete records.
LoadDisk(p) ==
  /\ db[p].call = "reading"
  /\ \E file \in Reads : \E mem \in {Merge(db[p].mem, file), db[p].mem \cup file} :
       Put(p, [db[p] EXCEPT !.call = "ready", !.mem = mem, !.deleted = @ \ file])
  /\ UNCHANGED <<disk, tmp>>

\* The tools and resources that only read.
Get(p) ==
  /\ db[p].call = "ready"
  /\ Put(p, [db[p] EXCEPT !.call = "none"])
  /\ UNCHANGED <<disk, tmp>>

\* Mutant for SubmittedRowsOnDisk: a submit joins the flush that is running.
SubmitJoining(p, r) ==
  /\ db[p].call = "ready"
  /\ db[p].pending > 0
  /\ Put(p, [Inserted({r, Owner(r)}, db[p]) EXCEPT
               !.timer = FALSE, !.call = "submitting",
               !.place = 1, !.awaited = {r, Owner(r)}])
  /\ UNCHANGED <<disk, tmp>>

\* submit_phase_handoff, submit_execution_plan and submit_consolidation_report:
\* a write, then forceFlush before anything else can run.
Submit(p, r) ==
  /\ db[p].call = "ready"
  /\ db[p].pending < MaxPending
  /\ Put(p, [Inserted({r, Owner(r)}, db[p]) EXCEPT
               !.timer = FALSE, !.pending = @ + 1, !.call = "submitting",
               !.place = db[p].pending + 1, !.awaited = {r, Owner(r)}])
  /\ UNCHANGED <<disk, tmp>>

-----------------------------------------------------------------------------
FlushStep(p) == StartFlush(p) \/ WriteTmp(p) \/ Rename(p) \/ EndFlush(p) \/ FlushFails(p)

ProcStep(p) ==
  \/ Open(p) \/ Close(p) \/ Crash(p)
  \/ TimerFires(p) \/ FlushStep(p)
  \/ Stat(p) \/ StatFails(p) \/ LoadDisk(p) \/ Get(p)
  \/ \E r \in Rows : Submit(p, r)

EngineStep(p) ==
  \/ \E r \in Rows : Write(p, r)
  \/ \E t \in Tasks : Delete(p, t)
  \/ ForceFlush(p)

Next == \/ \E p \in Procs : ProcStep(p)
        \/ \E p \in Hosts : EngineStep(p)

Spec == Init /\ [][Next]_vars

\* Calls of the file system come back, with a result or with an error.
FairSpec == Spec /\ \A p \in Procs : WF_vars(FlushStep(p))

-----------------------------------------------------------------------------
(* Properties *)

\* A flush or a close never loses a row of the tasks table that any process
\* has brought to the file.
TasksStay == [][disk \cap Tasks \subseteq disk']_vars

\* Nor a row of any other table, but for those that a process has deleted
\* itself (violated: a process replaces a task, and the task's records with
\* its own, older copy of them).
RecordsStay == [][disk \ disk' \subseteq UNION {db[p].deleted : p \in Procs}]_vars

\* When the flush that a submit awaits has renamed its file, the submitted
\* rows are in it: the worker of the next phase, in another process, finds
\* the handoff.
SubmittedRowsOnDisk ==
  [][\A p \in Procs :
       db[p].stage = "written" /\ db'[p].stage = "renamed" /\ db[p].place = 1
         => db[p].awaited \subseteq disk']_vars

\* Unless the file is newer than the last one a process has looked at, or is
\* being read, the process has every row of it in memory but those it has
\* deleted: reloadIfStale skips no row it should have read.
FreshMemory ==
  \A p \in Procs :
    db[p].life = "open" /\ ~db[p].stale /\ db[p].call # "reading"
      => disk \subseteq db[p].mem \cup db[p].deleted

\* A submit returns, whatever becomes of its flush and of those before it.
SubmitsReturn ==
  \A p \in Procs : db[p].call = "submitting" ~> db[p].call # "submitting"
=============================================================================
