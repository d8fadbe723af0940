-------------------------- MODULE ArtifactDbProofs --------------------------
(***************************************************************************)
(* What holds of ArtifactDB for any processes, tasks and records: a reload *)
(* that is skipped had nothing to read, and, when no two processes flush   *)
(* at the same time, no task is lost and a submitted row is in the file    *)
(* its flush has renamed.                                                  *)
(***************************************************************************)
EXTENDS ArtifactDb, TLAPS

\* The running flush is one of those pending.
RunningIsPending == \A p \in Procs : db[p].stage # "idle" => db[p].pending > 0

TypeInv == TypeOK /\ RunningIsPending

LEMMA ClosedType == Closed \in Instance
BY MaxPendingAssumption DEF Closed, Instance, Lives, Stages, Calls

LEMMA MergeType ==
  ASSUME NEW target \in SUBSET Rows, NEW source \in SUBSET Rows
  PROVE  Merge(target, source) \in SUBSET Rows
BY DEF Merge

LEMMA ReadsType == ASSUME TypeInv, NEW file \in Reads PROVE file \in SUBSET Rows
BY DEF Reads, TypeInv, TypeOK

LEMMA PairType ==
  ASSUME NEW r \in Rows
  PROVE  {r, Owner(r)} \in SUBSET Rows
BY TaskOfAssumption DEF Rows, Owner

\* One process takes a step and the others stay.
LEMMA PutType ==
  ASSUME TypeInv, NEW p \in Procs, NEW i \in Instance, Put(p, i),
         i.stage # "idle" => i.pending > 0,
         disk' \in SUBSET Rows, tmp' \in SUBSET (SUBSET Rows)
  PROVE  TypeInv'
BY DEF TypeInv, TypeOK, RunningIsPending, Put

LEMMA SettledType ==
  ASSUME NEW i \in Instance, i.pending > 0
  PROVE  Settled(i) \in Instance /\ Settled(i).stage = "idle"
<1> USE MaxPendingAssumption
<1>1. i.pending - 1 \in 0 .. MaxPending
  BY DEF Instance
<1>2. (IF i.place > 0 THEN i.place - 1 ELSE 0) \in 0 .. MaxPending
  BY DEF Instance
<1> QED
  BY <1>1, <1>2 DEF Settled, Instance, Lives, Stages, Calls

LEMMA TypeStep == TypeInv /\ [Next]_vars => TypeInv'
<1> SUFFICES ASSUME TypeInv, [Next]_vars PROVE TypeInv'
  OBVIOUS
<1> USE DEF Lives, Stages, Calls
<1>0. ASSUME NEW p \in Procs PROVE db[p] \in Instance
  BY DEF TypeInv, TypeOK
<1>1. ASSUME NEW p \in Procs, Open(p) PROVE TypeInv'
  <2>3. PICK file \in Reads :
          Put(p, [Closed EXCEPT !.life = "creating", !.mem = file, !.pending = 1])
    BY <1>1 DEF Open
  <2> DEFINE i == [Closed EXCEPT !.life = "creating", !.mem = file, !.pending = 1]
  <2>0. 1 \in 0 .. MaxPending /\ file \in SUBSET Rows
    BY MaxPendingAssumption, ReadsType
  <2>1. i \in Instance
    BY <2>0, ClosedType DEF Instance
  <2>2. i.pending = 1
    BY DEF Closed
  <2>4. i.stage # "idle" => i.pending > 0
    BY <2>2
  <2> HIDE DEF i
  <2> QED BY <1>1, <2>1, <2>3, <2>4, PutType DEF Open, TypeInv, TypeOK, i
<1>2. ASSUME NEW p \in Procs, Close(p) PROVE TypeInv'
  <2>1. disk' \in SUBSET Rows /\ tmp' = {}
    BY <1>2, <1>0, MergeType, ReadsType DEF Close, ReplaceDisk, Instance
  <2>2. ASSUME NEW q \in Procs PROVE db'[q] \in Instance
    <3>1. [db[q] EXCEPT !.stale = TRUE] \in Instance
      BY <1>0 DEF Instance
    <3> QED BY <3>1, <1>2, ClosedType DEF Close
  <2>3. RunningIsPending'
    BY <1>2, <1>0 DEF Close, Closed, TypeInv, RunningIsPending, Instance
  <2> QED BY <1>2, <2>1, <2>2, <2>3 DEF Close, TypeInv, TypeOK
<1>3. ASSUME NEW p \in Procs, Crash(p) PROVE TypeInv'
  BY <1>3, ClosedType, PutType DEF Crash, Closed, TypeInv, TypeOK
<1>4. ASSUME NEW p \in Procs, NEW r \in Rows, Write(p, r) PROVE TypeInv'
  <2> DEFINE i == [Inserted({r, Owner(r)}, db[p]) EXCEPT !.timer = TRUE]
  <2>1. i \in Instance
    BY <1>0, PairType DEF Inserted, Instance
  <2>2. i.stage = db[p].stage /\ i.pending = db[p].pending
    BY <1>0 DEF Inserted, Instance
  <2> QED BY <1>4, <2>1, <2>2, PutType DEF Write, TypeInv, TypeOK, RunningIsPending
<1>5. ASSUME NEW p \in Procs, NEW t \in Tasks, Delete(p, t) PROVE TypeInv'
  <2>1. PICK gone \in {Family(t), Family(t) \ {t}} :
          Put(p, [db[p] EXCEPT !.mem = @ \ gone, !.deleted = @ \cup gone, !.awaited = @ \ gone,
                               !.dirty = TRUE, !.timer = TRUE])
    BY <1>5 DEF Delete
  <2> DEFINE i == [db[p] EXCEPT !.mem = @ \ gone, !.deleted = @ \cup gone, !.awaited = @ \ gone,
                                !.dirty = TRUE, !.timer = TRUE]
  <2>2. gone \in SUBSET Rows
    BY DEF Family
  <2>3. i \in Instance
    BY <1>0, <2>2 DEF Instance
  <2>4. i.stage = db[p].stage /\ i.pending = db[p].pending
    BY <1>0 DEF Instance
  <2> QED BY <1>5, <2>1, <2>3, <2>4, PutType DEF Delete, TypeInv, TypeOK, RunningIsPending
<1>6. ASSUME NEW p \in Procs, TimerFires(p) PROVE TypeInv'
  <2>0. db[p].pending + 1 \in 0 .. MaxPending
    BY <1>0, <1>6, MaxPendingAssumption DEF TimerFires, Instance
  <2>1. [db[p] EXCEPT !.timer = FALSE, !.pending = @ + 1] \in Instance
    BY <1>0, <2>0 DEF Instance
  <2>2. [db[p] EXCEPT !.timer = FALSE, !.pending = @ + 1].pending > 0
    BY <1>0, MaxPendingAssumption DEF Instance
  <2> QED BY <1>6, <2>1, <2>2, PutType DEF TimerFires, TypeInv, TypeOK
<1>7. ASSUME NEW p \in Procs, ForceFlush(p) PROVE TypeInv'
  <2> DEFINE i == [db[p] EXCEPT !.timer = FALSE, !.pending = IF db[p].dirty THEN @ + 1 ELSE @]
  <2>0. (IF db[p].dirty THEN db[p].pending + 1 ELSE db[p].pending) \in 0 .. MaxPending
    BY <1>0, <1>7, MaxPendingAssumption DEF ForceFlush, Instance
  <2>1. i \in Instance
    BY <1>0, <2>0 DEF Instance
  <2>2. i.stage # "idle" => i.pending > 0
    BY <1>0, MaxPendingAssumption DEF Instance, TypeInv, RunningIsPending
  <2> QED BY <1>7, <2>1, <2>2, PutType DEF ForceFlush, TypeInv, TypeOK
<1>8. ASSUME NEW p \in Procs, StartFlush(p) PROVE TypeInv'
  <2>3. PICK file \in Reads :
          Put(p, [db[p] EXCEPT !.stage = "merged", !.image = Merge(file, db[p].mem)])
    BY <1>8 DEF StartFlush
  <2>0. Merge(file, db[p].mem) \in SUBSET Rows
    BY <1>0, MergeType, ReadsType DEF Instance
  <2>1. [db[p] EXCEPT !.stage = "merged", !.image = Merge(file, db[p].mem)] \in Instance
    BY <1>0, <2>0 DEF Instance
  <2>2. [db[p] EXCEPT !.stage = "merged", !.image = Merge(file, db[p].mem)].pending > 0
    BY <1>0, <1>8 DEF StartFlush, Instance
  <2> QED BY <1>8, <2>1, <2>2, <2>3, PutType DEF StartFlush, TypeInv, TypeOK
<1>9. ASSUME NEW p \in Procs, WriteTmp(p) PROVE TypeInv'
  <2>1. [db[p] EXCEPT !.stage = "written"] \in Instance
    BY <1>0 DEF Instance
  <2>2. [db[p] EXCEPT !.stage = "written"].pending > 0
    BY <1>0, <1>9 DEF WriteTmp, Instance, TypeInv, RunningIsPending
  <2>3. tmp' \in SUBSET (SUBSET Rows)
    BY <1>0, <1>9 DEF WriteTmp, Instance
  <2> QED BY <1>9, <2>1, <2>2, <2>3, PutType DEF WriteTmp, TypeInv, TypeOK
<1>10. ASSUME NEW p \in Procs, Rename(p) PROVE TypeInv'
  <2>1. disk' \in SUBSET Rows /\ tmp' = {}
    BY <1>10 DEF Rename, ReplaceDisk, TypeInv, TypeOK
  <2>2. ASSUME NEW q \in Procs PROVE db'[q] \in Instance
    <3>1. [db[q] EXCEPT !.stale = TRUE] \in Instance
      BY <1>0 DEF Instance
    <3>2. [db[p] EXCEPT !.stage = "renamed", !.dirty = FALSE, !.stale = TRUE] \in Instance
      BY <1>0 DEF Instance
    <3> QED BY <3>1, <3>2, <1>10 DEF Rename
  <2>3. RunningIsPending'
    BY <1>10, <1>0 DEF Rename, TypeInv, RunningIsPending, Instance
  <2> QED BY <1>10, <2>1, <2>2, <2>3 DEF Rename, TypeInv, TypeOK
<1>11. ASSUME NEW p \in Procs, EndFlush(p) PROVE TypeInv'
  <2>1. db[p].pending > 0
    BY <1>11 DEF EndFlush, TypeInv, RunningIsPending
  <2> QED BY <1>11, <1>0, <2>1, SettledType, PutType DEF EndFlush, TypeInv, TypeOK
<1>12. ASSUME NEW p \in Procs, FlushFails(p) PROVE TypeInv'
  <2> DEFINE i == [Settled(db[p]) EXCEPT !.dirty = TRUE]
  <2>1. Settled(db[p]) \in Instance /\ Settled(db[p]).stage = "idle"
    BY <1>12, <1>0, SettledType DEF FlushFails
  <2>2. i \in Instance /\ i.stage = "idle"
    BY <2>1 DEF Instance
  <2> QED BY <1>12, <2>2, PutType DEF FlushFails, TypeInv, TypeOK
<1>13. ASSUME NEW p \in Procs, Stat(p) \/ StatFails(p) \/ Get(p) PROVE TypeInv'
  <2> DEFINE i == [db[p] EXCEPT !.call = IF db[p].stale THEN "reading" ELSE "ready", !.stale = FALSE]
             j == [db[p] EXCEPT !.call = "none"]
             k == [db[p] EXCEPT !.call = "ready"]
  <2>1. i \in Instance /\ j \in Instance /\ k \in Instance
    BY <1>0 DEF Instance
  <2>2. /\ i.stage = db[p].stage /\ i.pending = db[p].pending
        /\ j.stage = db[p].stage /\ j.pending = db[p].pending
        /\ k.stage = db[p].stage /\ k.pending = db[p].pending
    BY <1>0 DEF Instance
  <2> QED BY <1>13, <2>1, <2>2, PutType DEF Stat, StatFails, Get, TypeInv, TypeOK, RunningIsPending
<1>14. ASSUME NEW p \in Procs, LoadDisk(p) PROVE TypeInv'
  <2>1. PICK file \in Reads : \E mem \in {Merge(db[p].mem, file), db[p].mem \cup file} :
          Put(p, [db[p] EXCEPT !.call = "ready", !.mem = mem, !.deleted = @ \ file])
    BY <1>14 DEF LoadDisk
  <2>5. PICK mem \in {Merge(db[p].mem, file), db[p].mem \cup file} :
          Put(p, [db[p] EXCEPT !.call = "ready", !.mem = mem, !.deleted = @ \ file])
    BY <2>1
  <2> DEFINE i == [db[p] EXCEPT !.call = "ready", !.mem = mem, !.deleted = @ \ file]
  <2>2. mem \in SUBSET Rows
    BY <1>0, MergeType, ReadsType DEF Instance
  <2>3. i \in Instance
    BY <1>0, <2>2 DEF Instance
  <2>4. i.stage = db[p].stage /\ i.pending = db[p].pending
    BY <1>0 DEF Instance
  <2> QED BY <1>14, <2>3, <2>4, <2>5, PutType DEF LoadDisk, TypeInv, TypeOK, RunningIsPending
<1>15. ASSUME NEW p \in Procs, NEW r \in Rows, Submit(p, r) PROVE TypeInv'
  <2> DEFINE i == [Inserted({r, Owner(r)}, db[p]) EXCEPT
                     !.timer = FALSE, !.pending = @ + 1, !.call = "submitting",
                     !.place = db[p].pending + 1, !.awaited = {r, Owner(r)}]
  <2>1. db[p].pending + 1 \in 0 .. MaxPending /\ db[p].pending + 1 > 0
    BY <1>0, <1>15, MaxPendingAssumption DEF Submit, Instance
  <2>2. i \in Instance
    BY <1>0, PairType, <2>1 DEF Inserted, Instance
  <2>3. i.pending > 0
    BY <1>0, <2>1 DEF Inserted, Instance
  <2> QED BY <1>15, <2>2, <2>3, PutType DEF Submit, TypeInv, TypeOK
<1>16. CASE UNCHANGED vars
  BY <1>16 DEF vars, TypeInv, TypeOK, RunningIsPending
<1> QED
  BY <1>1, <1>2, <1>3, <1>4, <1>5, <1>6, <1>7, <1>8, <1>9, <1>10, <1>11, <1>12, <1>13,
     <1>14, <1>15, <1>16, HostsAssumption
  DEF Next, ProcStep, EngineStep, FlushStep

\* Every variable keeps its type, and the queue of flushes its bound.
THEOREM TypeCorrect == Spec => []TypeOK
<1>1. Init => TypeInv
  BY ClosedType DEF Init, TypeInv, TypeOK, RunningIsPending, Closed
<1> QED
  BY <1>1, TypeStep, PTL DEF Spec, TypeInv

-----------------------------------------------------------------------------
(* Reloads *)

\* A process looks at the file's time stamp only once create has returned, and
\* the call that awaits a flush is no longer reading.
FreshInv ==
  /\ FreshMemory
  /\ \A p \in Procs : db[p].life # "open" => db[p].stale
  /\ \A p \in Procs : db[p].place > 0 => db[p].call = "submitting"

\* The formula FreshMemory states of one process.
Fresh(i, file) ==
  /\ i.life = "open" /\ ~i.stale /\ i.call # "reading" => file \subseteq i.mem \cup i.deleted
  /\ i.life # "open" => i.stale
  /\ i.place > 0 => i.call = "submitting"

LEMMA FreshPut ==
  ASSUME TypeInv, FreshInv, NEW p \in Procs, NEW i, Put(p, i), disk' = disk, Fresh(i, disk)
  PROVE  FreshInv'
BY DEF TypeInv, TypeOK, FreshInv, FreshMemory, Fresh, Put

LEMMA FreshStep ==
  ASSUME ~ReadErrors, TypeInv, FreshInv, [Next]_vars
  PROVE  FreshInv'
<1>r. Reads = {disk}
  BY DEF Reads
<1>0. ASSUME NEW p \in Procs PROVE db[p] \in Instance /\ Fresh(db[p], disk)
  BY DEF TypeInv, TypeOK, FreshInv, FreshMemory, Fresh
<1>1. ASSUME NEW p \in Procs, Open(p) \/ Crash(p) PROVE FreshInv'
  <2>1. Fresh(Closed, disk) /\
        Fresh([Closed EXCEPT !.life = "creating", !.mem = disk, !.pending = 1], disk)
    BY DEF Fresh, Closed
  <2> QED BY <1>1, <1>r, <2>1, FreshPut DEF Open, Crash
<1>2. ASSUME NEW p \in Procs, Close(p) \/ Rename(p) PROVE FreshInv'
  <2> DEFINE Stale(i) == i.stale /\ (i.place > 0 => i.call = "submitting")
  <2>1. ASSUME NEW q \in Procs PROVE Stale(db'[q])
    <3>1. /\ Stale(Closed)
          /\ Stale([db[q] EXCEPT !.stale = TRUE])
          /\ Stale([db[p] EXCEPT !.stage = "renamed", !.dirty = FALSE, !.stale = TRUE])
      BY <1>0 DEF Closed, Instance, Fresh
    <3> QED BY <1>2, <3>1 DEF Close, Rename
  <2> QED BY <2>1 DEF FreshInv, FreshMemory
<1>3. ASSUME NEW p \in Procs, NEW r \in Rows, Write(p, r) \/ Submit(p, r) PROVE FreshInv'
  <2> DEFINE i == [Inserted({r, Owner(r)}, db[p]) EXCEPT !.timer = TRUE]
             j == [Inserted({r, Owner(r)}, db[p]) EXCEPT
                     !.timer = FALSE, !.pending = @ + 1, !.call = "submitting",
                     !.place = db[p].pending + 1, !.awaited = {r, Owner(r)}]
  <2>1. Fresh(i, disk)
    BY <1>0 DEF Fresh, Inserted, Instance
  <2>2. CASE Submit(p, r)
    <3>1. db[p].call = "ready"
      BY <2>2 DEF Submit
    <3>2. Fresh(j, disk)
      BY <1>0, <3>1 DEF Fresh, Inserted, Instance
    <3> QED BY <2>2, <3>2, FreshPut DEF Submit
  <2> QED BY <1>3, <2>1, <2>2, FreshPut DEF Write
<1>4. ASSUME NEW p \in Procs, NEW t \in Tasks, Delete(p, t) PROVE FreshInv'
  <2>1. PICK gone \in {Family(t), Family(t) \ {t}} :
          Put(p, [db[p] EXCEPT !.mem = @ \ gone, !.deleted = @ \cup gone, !.awaited = @ \ gone,
                               !.dirty = TRUE, !.timer = TRUE])
    BY <1>4 DEF Delete
  <2>2. Fresh([db[p] EXCEPT !.mem = @ \ gone, !.deleted = @ \cup gone, !.awaited = @ \ gone,
                            !.dirty = TRUE, !.timer = TRUE], disk)
    BY <1>0 DEF Fresh, Instance
  <2> QED BY <1>4, <2>1, <2>2, FreshPut DEF Delete
<1>5. ASSUME NEW p \in Procs, TimerFires(p) \/ ForceFlush(p) \/ StartFlush(p) \/ WriteTmp(p)
      PROVE FreshInv'
  <2>1. /\ Fresh([db[p] EXCEPT !.timer = FALSE, !.pending = @ + 1], disk)
        /\ Fresh([db[p] EXCEPT !.timer = FALSE, !.pending = IF db[p].dirty THEN @ + 1 ELSE @], disk)
        /\ Fresh([db[p] EXCEPT !.stage = "merged", !.image = Merge(disk, db[p].mem)], disk)
        /\ Fresh([db[p] EXCEPT !.stage = "written"], disk)
    BY <1>0 DEF Fresh, Instance
  <2> QED BY <1>5, <2>1, <1>r, FreshPut DEF TimerFires, ForceFlush, StartFlush, WriteTmp
<1>6. ASSUME NEW p \in Procs, EndFlush(p) \/ FlushFails(p) PROVE FreshInv'
  <2>1. ASSUME NEW d \in BOOLEAN PROVE Fresh([Settled(db[p]) EXCEPT !.dirty = d], disk)
    BY <1>0 DEF Fresh, Settled, Instance
  <2>2. Fresh(Settled(db[p]), disk)
    BY <1>0 DEF Fresh, Settled, Instance
  <2> QED BY <1>6, <2>1, <2>2, FreshPut DEF EndFlush, FlushFails
<1>7. ASSUME NEW p \in Procs, Stat(p) \/ StatFails(p) PROVE FreshInv'
  <2>1. db[p].call = "none"
    BY <1>7 DEF Stat, StatFails
  <2>2. /\ Fresh([db[p] EXCEPT !.call = IF db[p].stale THEN "reading" ELSE "ready", !.stale = FALSE], disk)
        /\ Fresh([db[p] EXCEPT !.call = "ready"], disk)
    BY <1>0, <1>7, <2>1 DEF Stat, StatFails, Fresh, Instance
  <2> QED BY <1>7, <2>2, FreshPut DEF Stat, StatFails
<1>8. ASSUME NEW p \in Procs, LoadDisk(p) PROVE FreshInv'
  <2>1. PICK mem \in {Merge(db[p].mem, disk), db[p].mem \cup disk} :
          Put(p, [db[p] EXCEPT !.call = "ready", !.mem = mem, !.deleted = @ \ disk])
    BY <1>r, <1>8 DEF LoadDisk
  <2>2. disk \subseteq mem
    BY DEF Merge
  <2>3. ~(db[p].place > 0)
    BY <1>0, <1>8 DEF LoadDisk, Fresh
  <2>4. Fresh([db[p] EXCEPT !.call = "ready", !.mem = mem, !.deleted = @ \ disk], disk)
    BY <1>0, <2>2, <2>3 DEF Fresh, Instance
  <2> QED BY <1>8, <2>1, <2>4, FreshPut DEF LoadDisk
<1>9. ASSUME NEW p \in Procs, Get(p) PROVE FreshInv'
  <2>1. Fresh([db[p] EXCEPT !.call = "none"], disk)
    BY <1>0, <1>9 DEF Get, Fresh, Instance
  <2> QED BY <1>9, <2>1, FreshPut DEF Get
<1>10. CASE UNCHANGED vars
  BY <1>10 DEF vars, FreshInv, FreshMemory
<1> QED
  BY <1>1, <1>2, <1>3, <1>4, <1>5, <1>6, <1>7, <1>8, <1>9, <1>10, HostsAssumption
  DEF Next, ProcStep, EngineStep, FlushStep

\* A reload that is skipped had nothing to read.
THEOREM FreshMemoryHolds == ASSUME ~ReadErrors PROVE Spec => []FreshMemory
<1>1. Init => TypeInv /\ FreshInv
  <2> SUFFICES ASSUME Init PROVE TypeInv /\ FreshInv
    OBVIOUS
  <2>1. TypeInv
    BY ClosedType DEF Init, TypeInv, TypeOK, RunningIsPending, Closed
  <2>2. FreshInv
    BY DEF Init, FreshInv, FreshMemory, Closed
  <2> QED BY <2>1, <2>2
<1>2. FreshInv => FreshMemory
  BY DEF FreshInv
<1>3. TypeInv /\ FreshInv /\ [Next]_vars => FreshInv'
  BY FreshStep
<1> QED
  BY <1>1, <1>2, <1>3, TypeStep, PTL DEF Spec

-----------------------------------------------------------------------------
(* Flushes, when no two processes flush at the same time *)

Flushing(i) == i.stage \in {"merged", "written"}

\* What a flush is about to rename has every task of the file it has read and
\* every row that the call awaiting it has submitted.
Sound(i, file, temp) ==
  /\ Flushing(i) /\ ~ReadErrors => file \cap Tasks \subseteq i.image
  /\ Flushing(i) /\ i.place = 1 => i.awaited \subseteq i.image
  /\ i.stage = "written" => temp = {i.image}
  /\ i.place > 0 => i.call = "submitting" /\ i.awaited \subseteq i.mem

FlushInv ==
  /\ \A p, q \in Procs : p # q => ~(Flushing(db[p]) /\ Flushing(db[q]))
  /\ \A p \in Procs : Sound(db[p], disk, tmp)

\* A step of one process that touches neither file.
LEMMA SoundPut ==
  ASSUME TypeInv, FlushInv, NEW p \in Procs, NEW i, Put(p, i), UNCHANGED <<disk, tmp>>,
         Sound(i, disk, tmp), Flushing(i) => Flushing(db[p])
  PROVE  FlushInv'
BY DEF TypeInv, TypeOK, FlushInv, Put

LEMMA MergeKeepsTasks ==
  ASSUME NEW target \in SUBSET Rows, NEW source \in SUBSET Rows
  PROVE  target \cap Tasks \subseteq Merge(target, source) /\ source \subseteq Merge(target, source)
BY DEF Merge, Owner

LEMMA FlushStepSound ==
  ASSUME ~Overlap, TypeInv, FlushInv, [Next]_vars
  PROVE  FlushInv'
<1>0. ASSUME NEW p \in Procs
      PROVE  /\ db[p] \in Instance
             /\ Sound(db[p], disk, tmp)
             /\ db[p].stage # "idle" => db[p].pending > 0
  BY DEF TypeInv, TypeOK, RunningIsPending, FlushInv
<1>1. ASSUME NEW p \in Procs, Open(p) \/ Crash(p) PROVE FlushInv'
  <2>1. /\ Sound(Closed, disk, tmp) /\ ~Flushing(Closed)
        /\ \A file :
             LET i == [Closed EXCEPT !.life = "creating", !.mem = file, !.pending = 1]
             IN  Sound(i, disk, tmp) /\ ~Flushing(i)
    BY DEF Sound, Flushing, Closed
  <2> QED BY <1>1, <2>1, SoundPut DEF Open, Crash
<1>2. ASSUME NEW p \in Procs, Close(p) \/ Rename(p) PROVE FlushInv'
  <2>1. ASSUME NEW q \in Procs \ {p} PROVE ~Flushing(db[q])
    <3>1. CASE Close(p)
      BY <3>1 DEF Close, Alone, Flushing
    <3>2. CASE Rename(p)
      BY <3>2 DEF Rename, Flushing, FlushInv
    <3> QED BY <1>2, <3>1, <3>2
  <2>2. ASSUME NEW q \in Procs PROVE ~Flushing(db'[q]) /\ Sound(db'[q], disk', tmp')
    <3>1. ~Flushing(Closed) /\ Sound(Closed, disk', tmp')
      BY DEF Sound, Flushing, Closed
    <3>2. LET i == [db[p] EXCEPT !.stage = "renamed", !.dirty = FALSE, !.stale = TRUE]
          IN  ~Flushing(i) /\ Sound(i, disk', tmp')
      BY <1>0 DEF Sound, Flushing, Instance
    <3>3. ASSUME q # p
          PROVE  LET i == [db[q] EXCEPT !.stale = TRUE]
                 IN  ~Flushing(i) /\ Sound(i, disk', tmp')
      BY <1>0, <2>1, <3>3 DEF Sound, Flushing, Instance
    <3> QED BY <1>2, <3>1, <3>2, <3>3 DEF Close, Rename
  <2> QED BY <2>2 DEF FlushInv
<1>3. ASSUME NEW p \in Procs, NEW r \in Rows, Write(p, r) PROVE FlushInv'
  <2> DEFINE i == [Inserted({r, Owner(r)}, db[p]) EXCEPT !.timer = TRUE]
  <2>1. Sound(i, disk, tmp) /\ (Flushing(i) => Flushing(db[p]))
    BY <1>0 DEF Sound, Flushing, Inserted, Instance
  <2> QED BY <1>3, <2>1, SoundPut DEF Write
<1>4. ASSUME NEW p \in Procs, NEW r \in Rows, Submit(p, r) PROVE FlushInv'
  <2> DEFINE i == [Inserted({r, Owner(r)}, db[p]) EXCEPT
                     !.timer = FALSE, !.pending = @ + 1, !.call = "submitting",
                     !.place = db[p].pending + 1, !.awaited = {r, Owner(r)}]
  <2>1. /\ i.place = db[p].pending + 1 /\ i.call = "submitting" /\ i.stage = db[p].stage
        /\ i.awaited \subseteq i.mem /\ i.image = db[p].image
    BY <1>0 DEF Inserted, Instance
  <2>2. Flushing(i) => i.place # 1
    BY <1>0, <2>1 DEF Flushing, Instance
  <2>3. Sound(i, disk, tmp) /\ (Flushing(i) => Flushing(db[p]))
    BY <1>0, <2>1, <2>2 DEF Sound, Flushing
  <2> HIDE DEF i
  <2> QED BY <1>4, <2>3, SoundPut DEF Submit, i
<1>5. ASSUME NEW p \in Procs, NEW t \in Tasks, Delete(p, t) PROVE FlushInv'
  <2>1. PICK gone \in {Family(t), Family(t) \ {t}} :
          Put(p, [db[p] EXCEPT !.mem = @ \ gone, !.deleted = @ \cup gone, !.awaited = @ \ gone,
                               !.dirty = TRUE, !.timer = TRUE])
    BY <1>5 DEF Delete
  <2> DEFINE i == [db[p] EXCEPT !.mem = @ \ gone, !.deleted = @ \cup gone, !.awaited = @ \ gone,
                                !.dirty = TRUE, !.timer = TRUE]
  <2>2. Sound(i, disk, tmp) /\ (Flushing(i) => Flushing(db[p]))
    BY <1>0 DEF Sound, Flushing, Instance
  <2> QED BY <1>5, <2>1, <2>2, SoundPut DEF Delete
<1>6. ASSUME NEW p \in Procs, TimerFires(p) \/ ForceFlush(p) PROVE FlushInv'
  <2> DEFINE i == [db[p] EXCEPT !.timer = FALSE, !.pending = @ + 1]
             j == [db[p] EXCEPT !.timer = FALSE, !.pending = IF db[p].dirty THEN @ + 1 ELSE @]
  <2>1. Sound(i, disk, tmp) /\ (Flushing(i) => Flushing(db[p]))
    BY <1>0 DEF Sound, Flushing, Instance
  <2>2. Sound(j, disk, tmp) /\ (Flushing(j) => Flushing(db[p]))
    BY <1>0 DEF Sound, Flushing, Instance
  <2> QED BY <1>6, <2>1, <2>2, SoundPut DEF TimerFires, ForceFlush
<1>7. ASSUME NEW p \in Procs, StartFlush(p) PROVE FlushInv'
  <2>5. PICK file \in Reads :
          Put(p, [db[p] EXCEPT !.stage = "merged", !.image = Merge(file, db[p].mem)])
    BY <1>7 DEF StartFlush
  <2> DEFINE i == [db[p] EXCEPT !.stage = "merged", !.image = Merge(file, db[p].mem)]
  <2>1. /\ file \cap Tasks \subseteq Merge(file, db[p].mem)
        /\ db[p].mem \subseteq Merge(file, db[p].mem)
        /\ ~ReadErrors => file = disk
    BY <1>0, MergeKeepsTasks, ReadsType DEF Instance, Reads
  <2>2. Sound(i, disk, tmp)
    BY <1>0, <2>1 DEF Sound, Flushing, Instance
  <2>3. \A q \in Procs \ {p} : ~Flushing(db[q])
    BY <1>7 DEF StartFlush, Alone, Flushing
  <2>4. db' = [db EXCEPT ![p] = i] /\ disk' = disk /\ tmp' = tmp
    BY <1>7, <2>5 DEF StartFlush, Put
  <2> HIDE DEF i
  <2> QED BY <2>2, <2>3, <2>4 DEF FlushInv, TypeInv, TypeOK
<1>8. ASSUME NEW p \in Procs, WriteTmp(p) PROVE FlushInv'
  <2> DEFINE i == [db[p] EXCEPT !.stage = "written"]
  <2>1. Flushing(db[p]) /\ tmp' = {db[p].image} /\ disk' = disk /\ db' = [db EXCEPT ![p] = i]
    BY <1>8 DEF WriteTmp, Put, Flushing
  <2>2. Sound(i, disk, tmp')
    BY <1>0, <2>1 DEF Sound, Flushing, Instance
  <2>3. \A q \in Procs \ {p} : ~Flushing(db[q])
    BY <2>1 DEF FlushInv
  <2>4. \A q \in Procs \ {p} : Sound(db[q], disk, tmp')
    BY <1>0, <2>3 DEF Sound, Flushing
  <2> HIDE DEF i
  <2> QED BY <2>1, <2>2, <2>3, <2>4 DEF FlushInv, TypeInv, TypeOK
<1>9. ASSUME NEW p \in Procs, EndFlush(p) \/ FlushFails(p) PROVE FlushInv'
  <2> DEFINE i == Settled(db[p])
             j == [Settled(db[p]) EXCEPT !.dirty = TRUE]
  <2>1. Sound(i, disk, tmp) /\ ~Flushing(i)
    BY <1>0 DEF Sound, Flushing, Settled, Instance
  <2>2. Sound(j, disk, tmp) /\ ~Flushing(j)
    BY <1>0 DEF Sound, Flushing, Settled, Instance
  <2> QED BY <1>9, <2>1, <2>2, SoundPut DEF EndFlush, FlushFails
<1>10. ASSUME NEW p \in Procs, Stat(p) \/ StatFails(p) \/ Get(p) PROVE FlushInv'
  <2> DEFINE i == [db[p] EXCEPT !.call = IF db[p].stale THEN "reading" ELSE "ready", !.stale = FALSE]
             j == [db[p] EXCEPT !.call = "none"]
             k == [db[p] EXCEPT !.call = "ready"]
  <2>1. ~(db[p].place > 0)
    BY <1>0, <1>10 DEF Stat, StatFails, Get, Sound
  <2>2. Sound(i, disk, tmp) /\ (Flushing(i) => Flushing(db[p]))
    BY <1>0, <2>1 DEF Sound, Flushing, Instance
  <2>3. Sound(j, disk, tmp) /\ (Flushing(j) => Flushing(db[p]))
    BY <1>0, <2>1 DEF Sound, Flushing, Instance
  <2>4. Sound(k, disk, tmp) /\ (Flushing(k) => Flushing(db[p]))
    BY <1>0, <2>1 DEF Sound, Flushing, Instance
  <2> QED BY <1>10, <2>2, <2>3, <2>4, SoundPut DEF Stat, StatFails, Get
<1>11. ASSUME NEW p \in Procs, LoadDisk(p) PROVE FlushInv'
  <2>1. PICK file \in Reads : \E mem \in {Merge(db[p].mem, file), db[p].mem \cup file} :
          Put(p, [db[p] EXCEPT !.call = "ready", !.mem = mem, !.deleted = @ \ file])
    BY <1>11 DEF LoadDisk
  <2>4. PICK mem \in {Merge(db[p].mem, file), db[p].mem \cup file} :
          Put(p, [db[p] EXCEPT !.call = "ready", !.mem = mem, !.deleted = @ \ file])
    BY <2>1
  <2> DEFINE i == [db[p] EXCEPT !.call = "ready", !.mem = mem, !.deleted = @ \ file]
  <2>2. ~(db[p].place > 0)
    BY <1>0, <1>11 DEF LoadDisk, Sound
  <2>3. Sound(i, disk, tmp) /\ (Flushing(i) => Flushing(db[p]))
    BY <1>0, <2>2 DEF Sound, Flushing, Instance
  <2> QED BY <1>11, <2>3, <2>4, SoundPut DEF LoadDisk
<1>12. CASE UNCHANGED vars
  BY <1>12 DEF vars, FlushInv
<1> QED
  BY <1>1, <1>2, <1>3, <1>4, <1>5, <1>6, <1>7, <1>8, <1>9, <1>10, <1>11, <1>12, HostsAssumption
  DEF Next, ProcStep, EngineStep, FlushStep

LEMMA FlushInvHolds == ASSUME ~Overlap PROVE Spec => []FlushInv
<1>1. Init => TypeInv /\ FlushInv
  <2> SUFFICES ASSUME Init PROVE TypeInv /\ FlushInv
    OBVIOUS
  <2>1. TypeInv
    BY ClosedType DEF Init, TypeInv, TypeOK, RunningIsPending, Closed
  <2>2. FlushInv
    BY DEF Init, FlushInv, Flushing, Sound, Closed
  <2> QED BY <2>1, <2>2
<1>2. TypeInv /\ FlushInv /\ [Next]_vars => FlushInv'
  BY FlushStepSound
<1> QED
  BY <1>1, <1>2, TypeStep, PTL DEF Spec

\* If no two processes flush at the same time and the file can be read, no flush
\* and no close loses a row of the tasks table, though each writes the whole
\* file from a copy.
THEOREM TasksStayHolds == ASSUME ~Overlap, ~ReadErrors PROVE Spec => TasksStay
<1>1. TypeInv /\ FlushInv /\ [Next]_vars => [disk \cap Tasks \subseteq disk']_vars
  <2> SUFFICES ASSUME TypeInv, FlushInv, Next PROVE disk \cap Tasks \subseteq disk'
    BY DEF vars
  <2>1. CASE disk' = disk
    BY <2>1
  <2>2. ASSUME NEW p \in Procs, Close(p) PROVE disk \cap Tasks \subseteq disk'
    BY <2>2, MergeKeepsTasks DEF Close, ReplaceDisk, Reads, TypeInv, TypeOK, Instance
  <2>3. ASSUME NEW p \in Procs, Rename(p) PROVE disk \cap Tasks \subseteq disk'
    BY <2>3 DEF Rename, ReplaceDisk, FlushInv, Sound, Flushing
  <2> QED
    BY <2>1, <2>2, <2>3, HostsAssumption
    DEF Next, ProcStep, EngineStep, FlushStep, Open, Crash, Write, Delete, TimerFires, ForceFlush,
        StartFlush, WriteTmp, EndFlush, FlushFails, Stat, StatFails, LoadDisk, Get, Submit
<1>2. Init => TypeInv
  BY ClosedType DEF Init, TypeInv, TypeOK, RunningIsPending, Closed
<1> QED
  BY <1>1, <1>2, TypeStep, FlushInvHolds, PTL DEF Spec, TasksStay

\* If no two processes flush at the same time, a submit whose flush succeeds
\* returns with its rows in the file.
THEOREM SubmittedRowsHold == ASSUME ~Overlap PROVE Spec => SubmittedRowsOnDisk
<1> DEFINE Kept ==
      \A p \in Procs :
        db[p].stage = "written" /\ db'[p].stage = "renamed" /\ db[p].place = 1
          => db[p].awaited \subseteq disk'
<1>1. TypeInv /\ FlushInv /\ [Next]_vars => [Kept]_vars
  <2> SUFFICES ASSUME TypeInv, FlushInv, Next, NEW p \in Procs,
                      db[p].stage = "written", db'[p].stage = "renamed", db[p].place = 1
               PROVE  db[p].awaited \subseteq disk'
    BY DEF vars
  <2>0. ASSUME NEW q \in Procs PROVE db[q] \in Instance
    BY DEF TypeInv, TypeOK
  <2>1. PICK q \in Procs : ProcStep(q) \/ EngineStep(q)
    BY HostsAssumption DEF Next
  <2>2. ASSUME NEW i, Put(q, i), i.stage # "renamed" PROVE FALSE
    BY <2>2 DEF Put, TypeInv, TypeOK
  <2>4. ~(Open(q) \/ Crash(q))
    <3>1. /\ Closed.stage # "renamed"
          /\ \A file : [Closed EXCEPT !.life = "creating", !.mem = file, !.pending = 1].stage # "renamed"
      BY DEF Closed
    <3> QED BY <2>2, <3>1 DEF Open, Crash
  <2>5. ~Close(q)
    <3>1. Closed.stage = "idle" /\ [db[p] EXCEPT !.stale = TRUE].stage = "written"
      BY <2>0 DEF Closed, Instance
    <3> QED BY <3>1 DEF Close
  <2>6. CASE q = p /\ ~Rename(p)
    <3> DEFINE Same(i) == i.stage = db[p].stage
    <3>1. ASSUME NEW r \in Rows
          PROVE  /\ Same([Inserted({r, Owner(r)}, db[p]) EXCEPT !.timer = TRUE])
                 /\ Same([Inserted({r, Owner(r)}, db[p]) EXCEPT
                            !.timer = FALSE, !.pending = @ + 1, !.call = "submitting",
                            !.place = db[p].pending + 1, !.awaited = {r, Owner(r)}])
      BY <2>0 DEF Inserted, Instance
    <3>2. ASSUME NEW gone
          PROVE  Same([db[p] EXCEPT !.mem = @ \ gone, !.deleted = @ \cup gone,
                                    !.awaited = @ \ gone, !.dirty = TRUE, !.timer = TRUE])
      BY <2>0 DEF Instance
    <3>3. ASSUME NEW file, NEW mem
          PROVE  Same([db[p] EXCEPT !.call = "ready", !.mem = mem, !.deleted = @ \ file])
      BY <2>0 DEF Instance
    <3>4. /\ Same([db[p] EXCEPT !.timer = FALSE, !.pending = @ + 1])
          /\ Same([db[p] EXCEPT !.timer = FALSE, !.pending = IF db[p].dirty THEN @ + 1 ELSE @])
          /\ Same([db[p] EXCEPT !.call = IF db[p].stale THEN "reading" ELSE "ready",
                                !.stale = FALSE])
          /\ Same([db[p] EXCEPT !.call = "none"])
          /\ Same([db[p] EXCEPT !.call = "ready"])
      BY <2>0 DEF Instance
    <3>5. [Settled(db[p]) EXCEPT !.dirty = TRUE].stage = "idle"
      BY <2>0 DEF Settled, Instance
    <3>6. ~(StartFlush(q) \/ WriteTmp(q) \/ EndFlush(q) \/ FlushFails(q))
      <4>1. [db[p] EXCEPT !.stage = "written"].stage = "written"
        BY <2>0 DEF Instance
      <4>2. \A file : [db[p] EXCEPT !.stage = "merged",
                                    !.image = Merge(file, db[p].mem)].stage = "merged"
        BY <2>0 DEF Instance
      <4> QED BY <2>2, <2>6, <3>5, <4>1, <4>2 DEF StartFlush, WriteTmp, EndFlush, FlushFails
    <3>7. ~(\E r \in Rows : Write(q, r) \/ Submit(q, r))
      BY <2>2, <2>6, <3>1 DEF Write, Submit
    <3>8. ~(\E t \in Tasks : Delete(q, t))
      BY <2>2, <2>6, <3>2 DEF Delete
    <3>9. ~LoadDisk(q)
      BY <2>2, <2>6, <3>3 DEF LoadDisk
    <3>10. ~(TimerFires(q) \/ ForceFlush(q) \/ Stat(q) \/ StatFails(q) \/ Get(q))
      BY <2>2, <2>6, <3>4 DEF TimerFires, ForceFlush, Stat, StatFails, Get
    <3> QED
      BY <2>1, <2>4, <2>5, <2>6, <3>6, <3>7, <3>8, <3>9, <3>10 DEF ProcStep, EngineStep, FlushStep
  <2>7. CASE q # p
    <3>1. ASSUME NEW i, Put(q, i) PROVE FALSE
      BY <2>7, <3>1 DEF Put, TypeInv, TypeOK
    <3>2. ~Rename(q)
      <4>1. [db[p] EXCEPT !.stale = TRUE].stage = "written"
        BY <2>0 DEF Instance
      <4> QED BY <2>7, <4>1 DEF Rename
    <3> QED
      BY <2>1, <2>5, <3>1, <3>2
      DEF ProcStep, EngineStep, FlushStep, Open, Crash, Write, Delete, TimerFires, ForceFlush,
          StartFlush, WriteTmp, EndFlush, FlushFails, Stat, StatFails, LoadDisk, Get, Submit
  <2> QED
    BY <2>6, <2>7 DEF Rename, ReplaceDisk, FlushInv, Sound, Flushing
<1>2. Init => TypeInv
  BY ClosedType DEF Init, TypeInv, TypeOK, RunningIsPending, Closed
<1> QED
  BY <1>1, <1>2, TypeStep, FlushInvHolds, PTL DEF Spec, SubmittedRowsOnDisk
=============================================================================
