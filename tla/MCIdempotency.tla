--------------------------- MODULE MCIdempotency ---------------------------
(* Instances of Idempotency, and of its refinement of KeyContract, for TLC *)
EXTENDS IdempotencyRefinement, TLC

CONSTANTS r1, r2, r3, k1, k2, c1, c2, b1, b2, i1, i2

TwoRequests   == {r1, r2}
ThreeRequests == {r1, r2, r3}
OneKey        == {k1}
TwoKeys       == {k1, k2}

\* Attempts and instances are interchangeable
Interchangeable == Permutations(ThreeRequests) \cup Permutations({i1, i2})
=============================================================================
