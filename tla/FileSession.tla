----------------------------- MODULE FileSession -----------------------------
(***************************************************************************)
(* A worker session over files: createFileIpcSession injects the prompt in *)
(* the chat panel and FileStabilityWatcher waits for the response file to  *)
(* stop growing.                                                           *)
(*                                                                         *)
(* Time passes in ticks.  The agent appends to the file, Whole times; a    *)
(* check stats the file, and what it learns comes back up to MaxDelay      *)
(* later, when it is compared with the size and the time it was last seen  *)
(* to change.  Polls and fs.watch events start checks, one at a time.      *)
(***************************************************************************)
EXTENDS Naturals

CONSTANTS
  Whole,      \* size of the response
  MaxGap,     \* the agent's longest pause between two writes
  MaxDelay,   \* longest time from the stat to its continuation
  Threshold,  \* stabilityThresholdMs
  Timeout,    \* timeoutMs of the watcher
  None

ASSUME FileAssumption ==
  /\ Whole \in Nat \ {0} /\ MaxGap \in Nat /\ MaxDelay \in Nat
  /\ Threshold \in Nat /\ Timeout \in Nat
  /\ None \notin Nat

VARIABLES
  phase,      \* "inject", "watch", "over"
  now,
  size,       \* of the response file; a file of size 0 may also not exist
  lastWrite,
  check,      \* checkStability: "idle", "stat" or "read"
  sample,     \* what the stat in flight saw: [size, at]
  lastSize, lastSizeTime,
  exit,       \* exit code given to exitCallback
  delivered   \* size of what outputCallback was given

fileVars == <<phase, now, size, lastWrite, check, sample, lastSize, lastSizeTime, exit, delivered>>

FileTypeOK ==
  /\ phase \in {"inject", "watch", "over"}
  /\ now \in Nat /\ size \in 0..Whole /\ lastWrite \in Nat
  /\ check \in {"idle", "stat", "read"}
  /\ sample \in [size : 0..Whole, at : Nat]
  /\ lastSize \in 0..Whole /\ lastSizeTime \in Nat
  /\ exit \in {None, 0, 1}
  /\ delivered \in 0..Whole

FileInit ==
  /\ phase = "inject" /\ now = 0 /\ size = 0 /\ lastWrite = 0
  /\ check = "idle" /\ sample = [size |-> 0, at |-> 0]
  /\ lastSize = 0 /\ lastSizeTime = 0
  /\ exit = None /\ delivered = 0

watchVars == <<check, sample, lastSize, lastSizeTime>>
agentVars == <<now, size, lastWrite>>

\* Without a chat panel the handle is dead: its exit is reported at once.
Inject ==
  /\ phase = "inject"
  /\ \/ phase' = "watch" /\ UNCHANGED exit
     \/ phase' = "over" /\ exit' = 1
  /\ UNCHANGED <<agentVars, watchVars, delivered>>

Write ==
  /\ phase # "inject" /\ size < Whole
  /\ size' = size + 1 /\ lastWrite' = now
  /\ UNCHANGED <<phase, now, watchVars, exit, delivered>>

\* An agent that has begun pauses no longer than MaxGap, a stat takes no longer than MaxDelay.
Tick ==
  /\ phase = "watch" /\ now < Timeout
  /\ size \in 1..(Whole - 1) => now < lastWrite + MaxGap
  /\ check = "stat" => now < sample.at + MaxDelay
  /\ now' = now + 1
  /\ UNCHANGED <<phase, size, lastWrite, watchVars, exit, delivered>>

\* checkStability: a poll, a file event or its deferred recheck, unless one is in flight.
Stat ==
  /\ phase = "watch" /\ check = "idle"
  /\ check' = "stat" /\ sample' = [size |-> size, at |-> now]
  /\ UNCHANGED <<phase, agentVars, lastSize, lastSizeTime, exit, delivered>>

\* Mutant: the clock is not restarted when the size has changed.
ChangedKeepsTime ==
  /\ phase = "watch" /\ check = "stat"
  /\ sample.size = 0 \/ sample.size # lastSize
  /\ lastSize' = sample.size /\ check' = "idle"
  /\ UNCHANGED <<phase, agentVars, sample, lastSizeTime, exit, delivered>>

\* Empty, or of another size than the last time.
Changed ==
  /\ phase = "watch" /\ check = "stat"
  /\ sample.size = 0 \/ sample.size # lastSize
  /\ lastSize' = sample.size /\ lastSizeTime' = now /\ check' = "idle"
  /\ UNCHANGED <<phase, agentVars, sample, exit, delivered>>

Unchanged ==
  /\ phase = "watch" /\ check = "stat"
  /\ sample.size > 0 /\ sample.size = lastSize
  /\ check' = IF now >= lastSizeTime + Threshold THEN "read" ELSE "idle"
  /\ UNCHANGED <<phase, agentVars, sample, lastSize, lastSizeTime, exit, delivered>>

\* The file is read and the session exits with what it holds by now.
Read ==
  /\ phase = "watch" /\ check = "read"
  /\ delivered' = size /\ exit' = 0 /\ phase' = "over" /\ check' = "idle"
  /\ UNCHANGED <<agentVars, sample, lastSize, lastSizeTime>>

\* The timeout of the watcher, or the session's cancellation.
GiveUp ==
  /\ phase = "watch"
  /\ exit' = 1 /\ phase' = "over"
  /\ UNCHANGED <<agentVars, watchVars, delivered>>

FileNext == Inject \/ Write \/ Tick \/ Stat \/ Changed \/ Unchanged \/ Read \/ GiveUp

FileSpec == FileInit /\ [][FileNext]_fileVars

-----------------------------------------------------------------------------
(* Properties                                                              *)

\* An agent that never pauses for as long as the threshold, less the time a stat may
\* be late, is never cut short: a session that exits with zero has read the whole response.
WholeResponse == MaxGap + MaxDelay < Threshold => (exit = 0 => delivered = Whole)
=============================================================================
