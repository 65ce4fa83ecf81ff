----------------------- MODULE IdempotencyRefinement -----------------------
(***************************************************************************)
(* The middleware implements KeyContract: the owner of a key is the        *)
(* request whose uncommitted record occupies the unique index entry, the   *)
(* kept response is the committed row.                                     *)
(***************************************************************************)
EXTENDS Idempotency

\* The execution whose response the committed row of a key holds
keptBar == [k \in Keys |-> IF rec[k] = None THEN None ELSE rec[k].by]

\* The execution a request's stored answer stems from
answeredBar == [r \in Requests |-> reply[r].by]

Contract == INSTANCE KeyContract WITH
    owner <- holder, kept <- keptBar, answered <- answeredBar

\* Every behaviour of the middleware and its transactions, with crashes, lost
\* connections and the cleanup job, is one the key contract allows.
ImplementsContract == Contract!Spec
=============================================================================
