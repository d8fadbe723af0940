------------------------------ MODULE KahnSort ------------------------------
(***************************************************************************)
(* Scheduler.kahnSort, one action per iteration of its while loop, and the *)
(* two callers that use its result: detectCycles and getExecutionOrder.    *)
(* The queue with its head index is the sequence `queue' of the ids still  *)
(* to be visited; `order' is the prefix already visited, so `processed' is *)
(* its length.  The graph is chosen in SortInit: any depends_on lists over *)
(* the phases and the ids in Missing, which no phase has.                  *)
(***************************************************************************)
EXTENDS Integers, FiniteSets, Sequences, Listing

CONSTANTS N, Missing

Nodes == 1..N

ASSUME NAssumption == N \in Nat
ASSUME MissingAssumption == IsFiniteSet(Missing) /\ Missing \cap Nodes = {}

VARIABLES deps, inDegree, queue, order, pc

sortVars == <<deps, inDegree, queue, order, pc>>

SortInit ==
  /\ deps \in [Nodes -> SUBSET (Nodes \cup Missing)]
  /\ inDegree = [n \in Nodes |-> 0]
  /\ queue = <<>>
  /\ order = <<>>
  /\ pc = "build"

Neighbours(n) == {m \in Nodes : n \in deps[m]}

\* Mutant: only dependencies that exist are counted.
KnownInDegree == [n \in Nodes |-> Cardinality(deps[n] \cap Nodes)]

\* The graph is built and the queue seeded.  A dependency that names no phase
\* has no adjacency entry to push to, yet still counts into the in-degree.
InitialInDegree == [n \in Nodes |-> Cardinality(deps[n])]

Build ==
  /\ pc = "build"
  /\ inDegree' = InitialInDegree
  /\ queue' = Ascending({n \in Nodes : InitialInDegree[n] = 0})
  /\ pc' = "sort"
  /\ UNCHANGED <<deps, order>>

\* Mutant: a neighbour is queued as soon as one of its dependencies is visited.
VisitEager ==
  /\ pc = "sort" /\ queue # <<>>
  /\ LET n == Head(queue) IN
     /\ order' = Append(order, n)
     /\ inDegree' = [m \in Nodes |-> IF m \in Neighbours(n) THEN inDegree[m] - 1 ELSE inDegree[m]]
     /\ queue' = Tail(queue) \o Ascending({m \in Neighbours(n) : inDegree'[m] <= 1})
  /\ UNCHANGED <<deps, pc>>

Visit ==
  /\ pc = "sort" /\ queue # <<>>
  /\ LET n == Head(queue) IN
     /\ order' = Append(order, n)
     /\ inDegree' = [m \in Nodes |-> IF m \in Neighbours(n) THEN inDegree[m] - 1 ELSE inDegree[m]]
     /\ queue' = Tail(queue) \o Ascending({m \in Neighbours(n) : inDegree'[m] = 0})
  /\ UNCHANGED <<deps, pc>>

EndLoop ==
  /\ pc = "sort" /\ queue = <<>>
  /\ pc' = "done"
  /\ UNCHANGED <<deps, inDegree, queue, order>>

SortNext == Build \/ Visit \/ EndLoop

SortSpec == SortInit /\ [][SortNext]_sortVars

IsDAGMode == \E n \in Nodes : deps[n] # {}

DetectCycles ==
  IF ~IsDAGMode \/ Len(order) = N THEN {} ELSE {n \in Nodes : inDegree[n] > 0}

GetExecutionOrder == IF IsDAGMode THEN order ELSE [n \in Nodes |-> n]

-----------------------------------------------------------------------------
\* The largest set of phases each of which waits for a member of the set or
\* for a phase that does not exist (Scheduler!Blocked for this graph).
Blocked ==
  UNION {X \in SUBSET Nodes : \A n \in X : \E d \in deps[n] : d \notin Nodes \/ d \in X}

\* getExecutionOrder lists a phase only after everything it depends on, and
\* never twice: "Returns phase IDs in dependency-respecting order".
OrderRespectsDeps ==
  /\ \A i, j \in DOMAIN order : order[i] = order[j] => i = j
  /\ \A i \in DOMAIN order : \A d \in deps[order[i]] : \E j \in 1..(i - 1) : order[j] = d

\* detectCycles rejects a runbook exactly when some phase could never become
\* ready, and names exactly the phases that could not.
RejectsExactlyBlocked == pc = "done" => DetectCycles = Blocked
=============================================================================
