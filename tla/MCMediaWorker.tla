--------------------------- MODULE MCMediaWorker ---------------------------
\* Model values and symmetry for the runs of MediaWorker.
EXTENDS MediaWorker, TLC

CONSTANTS w1, w2, s1

OneWorker  == {w1}
TwoWorkers == {w1, w2}
OneSession  == {s1}

Symmetry == Permutations(Workers)
=============================================================================
