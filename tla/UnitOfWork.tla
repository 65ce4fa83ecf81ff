----------------------------- MODULE UnitOfWork -----------------------------
(* How an ORM session writes a row back: the part of SQLAlchemy's unit of    *)
(* work that the services rely on.                                           *)

\* An UPDATE names the columns in which the session's copy differs from what it
\* loaded; the others keep what is committed by now
Merged(row, base, mine) ==
    [c \in DOMAIN row |-> IF mine[c] # base[c] THEN mine[c] ELSE row[c]]
=============================================================================
