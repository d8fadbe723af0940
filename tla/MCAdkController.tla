--------------------------- MODULE MCAdkController ---------------------------
EXTENDS AdkController, TLC

CONSTANTS w1, w2, w3

MCWorkers == {w1, w2, w3}
MCPhases == {1, 2}

\* Two calls for one phase and one for another.
MCPhaseOf == w1 :> 1 @@ w2 :> 1 @@ w3 :> 2
=============================================================================
