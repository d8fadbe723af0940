---------------------------- MODULE MCArtifactDb ----------------------------
EXTENDS ArtifactDb, TLC

CONSTANTS t1, t2, h1, h2

\* A task with one handoff, and one with two.
MCOneHandoff == h1 :> t1
MCTwoHandoffs == h1 :> t1 @@ h2 :> t1
=============================================================================
