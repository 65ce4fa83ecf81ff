---------------------------- MODULE MCPortfolio ----------------------------
(* Instances of Portfolio for TLC *)
EXTENDS Portfolio, TLC

CONSTANTS w1, w2

OneWorker  == {w1}
TwoWorkers == {w1, w2}

Interchangeable == Permutations(TwoWorkers)
=============================================================================
