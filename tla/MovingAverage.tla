--------------------------- MODULE MovingAverage ---------------------------
(***************************************************************************)
(* The arithmetic of a stock position (src/app/domain/portfolio): what the *)
(* active trades of an item say about its quantity, its average price and  *)
(* the profit of each sale.  Two code paths compute from the same trades:  *)
(* the replay in date order behind every mutation, and the SQL aggregate   *)
(* behind the monthly snapshots.                                           *)
(*                                                                         *)
(* Money is counted in units of 0.01.  A running cost is kept as the       *)
(* fraction num/den, where the code keeps 28 decimal digits.  A trade row  *)
(* is a record with type, qty, price, fee and date; rows is a function     *)
(* from row ids, ordered by insertion time (frst_reg_dt), to trade rows.   *)
(***************************************************************************)
EXTENDS Integers, FiniteSets, FiniteSetsExt

Abs(a) == IF a < 0 THEN -a ELSE a

\* a/b to the nearest unit, for b > 0: ROUND_HALF_UP, and PostgreSQL's numeric
RoundHalfUp(a, b) ==
    LET q == (2 * Abs(a) + b) \div (2 * b) IN IF a < 0 THEN -q ELSE q

\* Decimal.quantize without a rounding argument, for a >= 0
RoundHalfEven(a, b) ==
    LET q == a \div b
        r == a % b
    IN  IF 2 * r > b \/ (2 * r = b /\ q % 2 = 1) THEN q + 1 ELSE q

\* What a trade moves out of (BUY) or into (SELL) the account
Settlement(row) ==
    IF row.type = "BUY" THEN row.qty * row.price + row.fee
                        ELSE row.qty * row.price - row.fee

-----------------------------------------------------------------------------
(* The replay: _recompute_realized_pnl *)

Nothing(rows) == [qty |-> 0, num |-> 0, den |-> 1, short |-> FALSE,
                  pnl |-> [t \in DOMAIN rows |-> 0]]

\* Variant: the fee of a purchase is not part of its cost
AfterBuyNoFee(run, row) ==
    [run EXCEPT !.qty = @ + row.qty, !.num = @ + row.qty * row.price * run.den]

AfterBuy(run, row) ==
    [run EXCEPT !.qty = @ + row.qty,
                !.num = @ + (row.qty * row.price + row.fee) * run.den]

\* A sale takes its share of the running cost and leaves the average alone
Proceeds(run, t, row) ==
    LET left == run.qty - row.qty IN
    [run EXCEPT !.qty    = left,
                !.num    = IF left = 0 THEN 0 ELSE @ * left,
                !.den    = IF left = 0 THEN 1 ELSE @ * run.qty,
                !.pnl[t] = RoundHalfUp((row.qty * row.price - row.fee) * run.den * run.qty
                                           - run.num * row.qty,
                                       run.den * run.qty)]

\* Variant: only the quantity left at the end is checked
AfterSellUnchecked(run, t, row) ==
    IF run.qty <= 0 THEN [run EXCEPT !.qty = @ - row.qty]
                    ELSE Proceeds(run, t, row)

\* Nothing can be sold beyond what is held at that point of time
AfterSell(run, t, row) ==
    IF row.qty > run.qty THEN [run EXCEPT !.short = TRUE]
                         ELSE Proceeds(run, t, row)

\* order_by(tx_date, frst_reg_dt)
Before(rows, s, t) ==
    rows[s].date < rows[t].date \/ (rows[s].date = rows[t].date /\ s < t)

LastOf(rows, S) == CHOOSE t \in S : \A s \in S \ {t} : Before(rows, s, t)

\* Short is final: the code raises BAD_REQUEST at the first sale it cannot cover
Replay(rows) ==
    LET run[S \in SUBSET DOMAIN rows] ==
            IF S = {} THEN Nothing(rows)
            ELSE LET t     == LastOf(rows, S)
                     prior == run[S \ {t}]
                 IN  IF prior.short THEN prior
                     ELSE IF rows[t].type = "BUY" THEN AfterBuy(prior, rows[t])
                                                  ELSE AfterSell(prior, t, rows[t])
    IN  run[DOMAIN rows]

Rejected(run) == run.short \/ run.qty < 0

\* The average price as the database stores it: Numeric(15, 2)
AvgPrice(run) == IF run.qty > 0 THEN RoundHalfUp(run.num, run.den * run.qty) ELSE 0

-----------------------------------------------------------------------------
(* The SQL aggregate: asof_holdings_by_account *)

UpTo(rows, d, type) == {t \in DOMAIN rows : rows[t].date <= d /\ rows[t].type = type}

AsOfQty(rows, d) ==
    MapThenSumSet(LAMBDA t : rows[t].qty, UpTo(rows, d, "BUY"))
        - MapThenSumSet(LAMBDA t : rows[t].qty, UpTo(rows, d, "SELL"))

AsOfAvg(rows, d) ==
    LET buys == UpTo(rows, d, "BUY")
        bq   == MapThenSumSet(LAMBDA t : rows[t].qty, buys)
        ba   == MapThenSumSet(LAMBDA t : Settlement(rows[t]), buys)
    IN  IF bq = 0 THEN 0 ELSE RoundHalfEven(ba, bq)
=============================================================================
