------------------------------ MODULE MCLedger ------------------------------
(* Instances of Ledger for TLC *)
EXTENDS Ledger, TLC

CONSTANTS a1, a2, a3, w1, w2

ThreeAccounts == {a1, a2, a3}
OneWorker     == {w1}
TwoWorkers    == {w1, w2}
OneAsset      == {a1}

Interchangeable == Permutations(ThreeAccounts \ OneAsset) \cup Permutations(TwoWorkers)
=============================================================================
