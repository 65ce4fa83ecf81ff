--------------------------- MODULE AccountLedger ---------------------------
(***************************************************************************)
(* The two ways the code derives an account's money from its transactions  *)
(* (src/app/domain/transaction): the sums behind every balance, and the    *)
(* paged ledger that starts from such a balance and goes back in time row  *)
(* by row.  Nothing is stored, so the two must agree.                      *)
(*                                                                         *)
(* rows is a function from row ids, ordered by insertion time, to active   *)
(* transaction rows.  Balances are relative to start_balance; one date     *)
(* stands for one month.                                                   *)
(***************************************************************************)
EXTENDS Integers, FiniteSets, FiniteSetsExt

CONSTANT None

\* The filter of both paths: an account sees a transfer from either end
Touching(rows, a) == {t \in DOMAIN rows : a \in {rows[t].from, rows[t].to}}

Within(rows, dates) == [t \in {s \in DOMAIN rows : rows[s].date \in dates} |-> rows[t]]

-----------------------------------------------------------------------------
(* The sums: sum_for_account and _cash_flow *)

Revaluation(row) == IF row.dir = "INCREASE" THEN row.amount ELSE -row.amount

Contribution(row, a) ==
    LET out  == IF row.from = a THEN row.amount ELSE 0
        into == IF row.to = a THEN row.amount ELSE 0
    IN  CASE row.type = "INCOME"    -> out
          [] row.type \in {"EXPENSE", "FIXED_EXPENSE"} -> -out
          [] row.type = "TRANSFER"  -> into - out
          [] row.type = "VALUATION" -> IF row.from = a THEN Revaluation(row) ELSE 0

CashFlow(rows, a) == MapThenSumSet(LAMBDA t : Contribution(rows[t], a), Touching(rows, a))

-----------------------------------------------------------------------------
(* The ledger: list_account_ledger *)

SignedAmount(row, a) ==
    IF row.type = "TRANSFER" /\ row.to = a THEN row.amount
    ELSE IF row.type = "INCOME" THEN row.amount
    ELSE IF row.type = "VALUATION" THEN Revaluation(row)
    ELSE -row.amount

Signed(rows, a, S) == MapThenSumSet(LAMBDA t : SignedAmount(rows[t], a), S)

\* order_by(tx_date.desc(), frst_reg_dt.desc())
Newer(rows, s, t) ==
    rows[s].date > rows[t].date \/ (rows[s].date = rows[t].date /\ s > t)

\* Variant: the cursor is the date alone
BehindByDate(rows, S, c) == {t \in S : c # None => rows[c].date > rows[t].date}

\* The rows behind a cursor, which names the last row of the page before
Behind(rows, S, c) == {t \in S : c # None => Newer(rows, c, t)}

\* The first rows of what is behind the cursor
Page(rows, S, limit) == {t \in S : Cardinality({s \in S : Newer(rows, s, t)}) < limit}

LastRow(rows, S) == CHOOSE t \in S : \A s \in S \ {t} : Newer(rows, s, t)

\* balance_after of the rows of a page whose first row stands at top
BalancesOn(rows, a, page, top) ==
    [t \in page |-> top - Signed(rows, a, {s \in page : Newer(rows, s, t)})]

\* All pages of S, each continuing with the balance its cursor carries
Ledger(rows, a, S, limit, top) ==
    LET from[cursor \in (DOMAIN rows \cup {None}) \X Int] ==
            LET behind == Behind(rows, S, cursor[1])
                page   == Page(rows, behind, limit)
                here   == BalancesOn(rows, a, page, cursor[2])
                rest   == from[<<LastRow(rows, page), cursor[2] - Signed(rows, a, page)>>]
            IN  IF page = behind THEN here
                ELSE [t \in page \cup DOMAIN rest |-> IF t \in page THEN here[t] ELSE rest[t]]
    IN  from[<<None, top>>]

\* The whole ledger of an account, or that of a month, which starts from the balance
\* at the month's end
FullLedger(rows, a, limit) == Ledger(rows, a, Touching(rows, a), limit, CashFlow(rows, a))

MonthLedger(rows, a, limit, d) ==
    Ledger(rows, a, Touching(Within(rows, {d}), a), limit,
           CashFlow(Within(rows, {e \in {rows[t].date : t \in DOMAIN rows} : e <= d}), a))

\* What a ledger says the account held before its oldest row
Opening(rows, a, after) ==
    LET t == LastRow(rows, DOMAIN after) IN after[t] - SignedAmount(rows[t], a)
=============================================================================
