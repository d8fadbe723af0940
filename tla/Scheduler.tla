----------------------------- MODULE Scheduler -----------------------------
(***************************************************************************)
(* The queries of src/engine/Scheduler.ts over a runbook's phases.  The    *)
(* phases array is 1..N in array order (phase ids are opaque to the        *)
(* scheduler), its depends_on lists are sets, and the statuses are a       *)
(* function on 1..N.  A dependency may name a phase the runbook lacks.     *)
(***************************************************************************)
EXTENDS Integers, FiniteSets

CONSTANTS N, Deps, MaxConcurrent

Phases == 1..N

PhaseStatus == {"pending", "running", "completed", "failed"}

ASSUME NAssumption == N \in Nat \ {0}
ASSUME DepsAssumption == Deps \in [Phases -> SUBSET Nat]
ASSUME MaxConcurrentAssumption == MaxConcurrent \in Nat \ {0}

WithStatus(status, s) == {p \in Phases : status[p] = s}

IsDAGMode == \E p \in Phases : Deps[p] # {}

\* Array.slice(0, k) of the phases of S, in array order.
FirstOf(S, k) == {p \in S : Cardinality({q \in S : q <= p}) <= k}

\* Mutant: a dependency only has to have been started.
DepsStarted(status, p) == \A d \in Deps[p] : d \in Phases /\ status[d] # "pending"

\* Mutant: one completed dependency is enough.
AnyDepCompleted(status, p) ==
  Deps[p] = {} \/ \E d \in Deps[p] : d \in Phases /\ status[d] = "completed"

DepsCompleted(status, p) == \A d \in Deps[p] : d \in Phases /\ status[d] = "completed"

AvailableSlots(status) == MaxConcurrent - Cardinality(WithStatus(status, "running"))

ReadyPhases(status) ==
  LET pending == WithStatus(status, "pending")
      slots   == AvailableSlots(status)
  IN IF slots <= 0 THEN {}
     ELSE IF IsDAGMode THEN FirstOf({p \in pending : DepsCompleted(status, p)}, slots)
     ELSE FirstOf(pending, 1)

IsAllDone(status) ==
  WithStatus(status, "pending") \cup WithStatus(status, "running") = {}

\* What detectCycles rejects: the phases Kahn's algorithm never dequeues, the
\* largest set each of whose members waits for another member or for a phase
\* that does not exist.  KahnSort.tla runs the loop and shows it computes this.
Blocked ==
  UNION {X \in SUBSET Phases : \A p \in X : \E d \in Deps[p] : d \notin Phases \/ d \in X}
=============================================================================
