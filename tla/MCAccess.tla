------------------------------ MODULE MCAccess ------------------------------
(* Instances of Access for TLC *)
EXTENDS Access, TLC

CONSTANTS kim, lee, w1, w2

TwoEmails  == {kim, lee}
TwoWorkers == {w1, w2}

Interchangeable == Permutations(TwoEmails) \cup Permutations(TwoWorkers)
=============================================================================
