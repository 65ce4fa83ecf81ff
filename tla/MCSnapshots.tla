---------------------------- MODULE MCSnapshots ----------------------------
(* Instances of Snapshots for TLC *)
EXTENDS Snapshots, TLC

CONSTANTS fund, gold, w1, w2

TwoAccounts == {fund, gold}
QuotedItem  == {fund}
OtherItem   == {gold}
SomeEntries == (QuotedItem \X {1, 2} \X {"trade"}) \cup (OtherItem \X {2} \X {"cash"})
TwoWorkers  == {w1, w2}

Interchangeable == Permutations(TwoWorkers)
=============================================================================
