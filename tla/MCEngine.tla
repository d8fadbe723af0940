------------------------------ MODULE MCEngine ------------------------------
EXTENDS Engine

\* Phases 1 and 2 are independent and 3 waits for 1.
MCBranch == <<{}, {}, {1}>>
\* 3 waits for both.
MCJoin == <<{}, {}, {1, 2}>>
\* 2 waits for 1.
MCChain == <<{}, {1}>>
\* No depends_on: the sequential mode.
MCSequential == <<{}, {}, {}>>

MCFresh == {[status |-> [p \in 1..N |-> "pending"], rbStatus |-> "idle"]}
=============================================================================
