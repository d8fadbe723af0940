------------------------------ MODULE Backups -------------------------------
(***************************************************************************)
(* The snapshots of the database file: taken after a flush when one is     *)
(* due, or on request, in every window; rotated; restored over the file.   *)
(*                                                                         *)
(* A database is the set of the windows whose rows it has.  A snapshot is named by its time;    *)
(* two of one millisecond are not distinguished from two in a row.  The    *)
(* steps of ArtifactDb's flush are one here.                               *)
(***************************************************************************)
EXTENDS Naturals, FiniteSets, FiniteSetsExt

CONSTANTS
  Hosts,        \* windows on one database file
  MaxBackups,   \* DEFAULT_MAX_BACKUPS
  MaxSnapshots  \* bound: snapshots that are ever made

ASSUME BackupAssumption ==
  /\ MaxBackups \in Nat \ {0}
  /\ MaxSnapshots \in Nat

VARIABLES
  dbFile,    \* the rows in the database file
  rows,      \* per window: the rows in its memory
  snapshots, \* the backup directory: the rows of each snapshot, by its time
  clock,     \* time of the last snapshot
  job        \* per window: what its backup manager is doing

backupVars == <<dbFile, rows, snapshots, clock, job>>

Resting == [step |-> "none", time |-> 0, rows |-> {}, old |-> {}]

BackupInit ==
  /\ dbFile = {}
  /\ rows = [h \in Hosts |-> {}]
  /\ snapshots = << >>
  /\ clock = 0
  /\ job = [h \in Hosts |-> Resting]

Taken == DOMAIN snapshots
Newest(n, times) == {t \in times : Cardinality({u \in times : u > t}) < n}

AddRow(h) ==
  /\ rows' = [rows EXCEPT ![h] = @ \cup {h}]
  /\ UNCHANGED <<dbFile, snapshots, clock, job>>

\* flushAsync merges the file's rows into what it writes, not into memory.
Flush(h) ==
  /\ job[h] = Resting
  /\ dbFile' = dbFile \cup rows[h]
  /\ UNCHANGED <<rows, snapshots, clock, job>>

\* On request, or after a flush; the interval may have passed at any time.
BackupIfDue(h) == job[h] = Resting /\ clock < MaxSnapshots

\* createSnapshot: a copy of the file under a temporary name.
CopyFile(h) ==
  /\ BackupIfDue(h)
  /\ clock' = clock + 1
  /\ job' = [job EXCEPT ![h] = [Resting EXCEPT !.step = "copied", !.time = clock', !.rows = dbFile]]
  /\ UNCHANGED <<dbFile, rows, snapshots>>

RenameCopy(h) ==
  /\ job[h].step = "copied"
  /\ snapshots' = [t \in Taken \cup {job[h].time} |->
                     IF t = job[h].time THEN job[h].rows ELSE snapshots[t]]
  /\ job' = [job EXCEPT ![h].step = "rotate"]
  /\ UNCHANGED <<dbFile, rows, clock>>

\* A copy or a rename that fails: nothing is rotated.
SnapshotFails(h) ==
  /\ job[h].step = "copied"
  /\ job' = [job EXCEPT ![h] = Resting]
  /\ UNCHANGED <<dbFile, rows, snapshots, clock>>

\* A mutant of RotateBackups: the sorted list is cut at the wrong end.
RotateNewest(h) ==
  /\ job[h].step = "rotate"
  /\ LET kept == {t \in Taken : Cardinality({u \in Taken : u < t}) < MaxBackups}
     IN job' = [job EXCEPT ![h].step = "delete", ![h].old = Taken \ kept]
  /\ UNCHANGED <<dbFile, rows, snapshots, clock>>

\* rotateBackups lists the directory once and deletes after that.
RotateBackups(h) ==
  /\ job[h].step = "rotate"
  /\ job' = [job EXCEPT ![h].step = "delete", ![h].old = Taken \ Newest(MaxBackups, Taken)]
  /\ UNCHANGED <<dbFile, rows, snapshots, clock>>

\* One that is gone already, deleted by another window, is passed over.
DeleteOld(h) ==
  /\ job[h].step = "delete"
  /\ IF job[h].old = {} THEN job' = [job EXCEPT ![h] = Resting] /\ UNCHANGED snapshots
     ELSE LET t == Min(job[h].old)
          IN /\ snapshots' = [u \in Taken \ {t} |-> snapshots[u]]
             /\ job' = [job EXCEPT ![h].old = @ \ {t}]
  /\ UNCHANGED <<dbFile, rows, clock>>

\* restoreFromBackup(getLatestBackup()): the memory of no window follows.
RestoreFromBackup(h) ==
  /\ job[h] = Resting
  /\ Taken # {}
  /\ dbFile' = snapshots[Max(Taken)]
  /\ UNCHANGED <<rows, snapshots, clock, job>>

BackupNext == \E h \in Hosts :
  \/ AddRow(h) \/ Flush(h) \/ CopyFile(h) \/ RenameCopy(h) \/ SnapshotFails(h)
  \/ RotateBackups(h) \/ DeleteOld(h) \/ RestoreFromBackup(h)

BackupSpec == BackupInit /\ [][BackupNext]_backupVars

-----------------------------------------------------------------------------
(* Properties                                                              *)

\* However the rotations of several windows overlap, each with a list of its own age,
\* no rotation deletes one of the newest snapshots there are.
NewestBackupsStay ==
  [][Newest(MaxBackups, Taken) \cap Newest(MaxBackups, Taken \cup DOMAIN snapshots')
       \subseteq DOMAIN snapshots']_backupVars
=============================================================================
