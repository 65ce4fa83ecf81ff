----------------------------- MODULE Portfolio -----------------------------
(***************************************************************************)
(* One stock item and its trades (src/app/domain/portfolio/service.py)     *)
(* under concurrent requests.  A request is a database session: it loads   *)
(* rows, writes its own trade, replays the active trades of the item and   *)
(* writes the changed columns back at its flush; all of it becomes visible *)
(* when get_db commits.  READ COMMITTED: a query sees what is committed    *)
(* when it runs, plus the session's own writes; a row the session has      *)
(* loaded before keeps the loaded values; an UPDATE names only the columns *)
(* that differ from the loaded ones and waits for the row's lock.          *)
(*                                                                         *)
(* The numbers of a position (MovingAverage) are recomputed by each        *)
(* mutation and stored: quantity and average in the item, the realized     *)
(* profit in the SELL rows.  The hazards are two mutations of one item at  *)
(* a time, and rows that are locked in opposite orders.                    *)
(***************************************************************************)
EXTENDS MovingAverage, UnitOfWork

CONSTANTS
    Workers,      \* requests in flight at a time
    MaxTx,        \* bound on the trades entered in a behaviour
    Quantities, Prices, Fees, Dates,
    Budget,       \* bound on the requests of a behaviour, None for any number
    None

ASSUME MaxTxAssumption == MaxTx \in Nat \ {0}
ASSUME BudgetAssumption == Budget \in Nat \cup {None}
ASSUME TradesAssumption ==    \* PortfolioBuyRequest, PortfolioSellRequest, PortfolioTxUpdateRequest
    Quantities \subseteq Nat \ {0} /\ Prices \cup Fees \cup Dates \subseteq Nat

VARIABLES
    item,    \* the committed portfolio_items row, None before it is created
    txs,     \* the committed portfolio_transactions rows, by order of insertion
    pc,      \* where a request stands
    job,     \* what it does, with its own copies of the rows it loaded
    plan,    \* the changes its flush is going to write
    lock,    \* row locks: trades by id, the item's row is number 0
    left,    \* how many more requests arrive, None for any number
    late     \* history: requests that were overtaken by another one's commit

vars == <<item, txs, pc, job, plan, lock, left, late>>

ItemRow == 0
TxIds   == 1..MaxTx
Rows    == TxIds \cup {ItemRow}

Items  == [qty : Nat, avg : Nat, status : {"ACTIVE", "DELETED"}, archived : BOOLEAN]
Trades == [type : {"BUY", "SELL"}, qty : Quantities, price : Prices, fee : Fees,
           date : Dates, status : {"ACTIVE", "DELETED"}, pnl : Int]
Ops    == {"enter", "edit", "erase", "archive", "remove"}
Jobs   == [op : Ops, id : Rows, base : Trades \cup {None}, mine : Trades \cup {None},
           seen : Items \cup {None}]
PC     == {"idle", "write", "replay", "flush"}

ASSUME NoneAssumption == None \notin Workers \cup Nat \cup Items \cup Trades \cup Jobs

NoPlan == [item |-> None, cols |-> {}, pnl |-> <<>>]

TypeOK ==
    /\ item \in Items \cup {None}
    /\ txs  \in [TxIds -> Trades \cup {None}]
    /\ pc   \in [Workers -> PC]
    /\ job  \in [Workers -> Jobs \cup {None}]
    /\ \A w \in Workers :
          /\ plan[w].item \in Items \cup {None}
          /\ plan[w].cols \subseteq {"qty", "avg", "status", "archived"}
          /\ DOMAIN plan[w].pnl \subseteq TxIds
          /\ job[w] = None <=> pc[w] = "idle"
    /\ lock \in [Rows -> Workers \cup {None}]
    /\ left \in Nat \cup {None}
    /\ late \subseteq Workers

Init ==
    /\ item = None
    /\ txs  = [t \in TxIds |-> None]
    /\ pc   = [w \in Workers |-> "idle"]
    /\ job  = [w \in Workers |-> None]
    /\ plan = [w \in Workers |-> NoPlan]
    /\ lock = [r \in Rows |-> None]
    /\ left = Budget
    /\ late = {}

-----------------------------------------------------------------------------
(* A request loads what it needs *)

Ready(w) == pc[w] = "idle" /\ left # 0

Start(w, op, id, base, mine, seen, to) ==
    /\ left' = IF left = None THEN None ELSE left - 1
    /\ pc'  = [pc EXCEPT ![w] = to]
    /\ job' = [job EXCEPT ![w] = [op |-> op, id |-> id, base |-> base, mine |-> mine,
                                  seen |-> seen]]

Inserts(w) == job[w] # None /\ job[w].op = "enter"

\* Rows get their frst_reg_dt when they are inserted
UsedIds == {t \in TxIds : txs[t] # None} \cup {job[w].id : w \in {v \in Workers : Inserts(v)}}
NextIds == {t \in TxIds : (\A u \in UsedIds : u < t) /\ (t = 1 \/ t - 1 \in UsedIds)}

IsActive(row) == row # None /\ row.status = "ACTIVE"

Create ==
    /\ item = None
    /\ item' = [qty |-> 0, avg |-> 0, status |-> "ACTIVE", archived |-> FALSE]
    /\ UNCHANGED <<txs, pc, job, plan, lock, left, late>>

\* buy and sell: load the item, check, insert the trade
Enter(w, t, type, q, p, f, d) ==
    /\ IsActive(item)
    /\ type = "SELL" => q <= item.qty
    /\ Start(w, "enter", t, None,
             [type |-> type, qty |-> q, price |-> p, fee |-> f, date |-> d,
              status |-> "ACTIVE", pnl |-> 0],
             item, "replay")
    /\ UNCHANGED <<item, txs, plan, lock, late>>

\* update_portfolio_transaction loads the trade; the memo alone may change too
Edit(w, t, q, p, f, d) ==
    /\ IsActive(txs[t])
    /\ Start(w, "edit", t, txs[t],
             [txs[t] EXCEPT !.qty = q, !.price = p, !.fee = f, !.date = d], None, "write")
    /\ UNCHANGED <<item, txs, plan, lock, late>>

\* delete_portfolio_transaction loads the trade
Erase(w, t) ==
    /\ IsActive(txs[t])
    /\ Start(w, "erase", t, txs[t], [txs[t] EXCEPT !.status = "DELETED"], None, "write")
    /\ UNCHANGED <<item, txs, plan, lock, late>>

PlanItem(w, new, cols) ==
    plan' = [plan EXCEPT ![w] = [item |-> new, cols |-> cols, pnl |-> <<>>]]

\* update_portfolio
Archive(w, b) ==
    /\ IsActive(item)
    /\ b => item.qty <= 0
    /\ Start(w, "archive", ItemRow, None, None, item, "flush")
    /\ PlanItem(w, [item EXCEPT !.archived = b], IF b = item.archived THEN {} ELSE {"archived"})
    /\ UNCHANGED <<item, txs, lock, late>>

\* delete_portfolio
Remove(w) ==
    /\ IsActive(item)
    /\ item.qty <= 0
    /\ Start(w, "remove", ItemRow, None, None, item, "flush")
    /\ PlanItem(w, [item EXCEPT !.status = "DELETED"], {"status"})
    /\ UNCHANGED <<item, txs, lock, late>>

-----------------------------------------------------------------------------
(* The session's own writes, the replay and the flush *)

\* The flushed UPDATE of the edited or deleted trade, then the load of the item
Write(w) ==
    /\ pc[w] = "write"
    /\ lock[job[w].id] = None
    /\ lock' = [lock EXCEPT ![job[w].id] = w]
    /\ job'  = [job EXCEPT ![w].seen = item]
    /\ pc'   = [pc EXCEPT ![w] = "replay"]
    /\ UNCHANGED <<item, txs, plan, left, late>>

\* find_active_by_item_id: the filter sees the database, the session's own row
\* keeps the values the session knows
View(w) ==
    LET own == job[w].id
        ids == {t \in TxIds : IsActive(txs[t]) /\ (t = own => job[w].op # "erase")}
                  \cup (IF Inserts(w) THEN {own} ELSE {})
    IN  [t \in ids |-> IF t = own THEN job[w].mine ELSE txs[t]]

Position(run, old) ==
    [old EXCEPT !.qty = run.qty, !.avg = AvgPrice(run),
                !.status = IF run.qty > 0 THEN "ACTIVE" ELSE "DELETED"]

\* The columns whose new values, before rounding, differ from the loaded ones
ChangedCols(run, old) ==
    {c \in {"qty", "status"} : Position(run, old)[c] # old[c]}
        \cup (IF run.num = old.avg * run.den * run.qty /\ (run.qty > 0 \/ old.avg = 0)
              THEN {} ELSE {"avg"})

ChangedPnl(run, rows) ==
    {t \in DOMAIN rows : rows[t].type = "SELL" /\ run.pnl[t] # rows[t].pnl}

\* Variant: what the session has loaded survives it
EndSessionForgetful(w) ==
    /\ pc'   = [pc EXCEPT ![w] = "idle"]
    /\ plan' = [plan EXCEPT ![w] = NoPlan]
    /\ lock' = [r \in Rows |-> IF lock[r] = w THEN None ELSE lock[r]]
    /\ UNCHANGED job

\* Everything the request holds is let go
EndSession(w) ==
    /\ pc'   = [pc EXCEPT ![w] = "idle"]
    /\ job'  = [job EXCEPT ![w] = None]
    /\ plan' = [plan EXCEPT ![w] = NoPlan]
    /\ lock' = [r \in Rows |-> IF lock[r] = w THEN None ELSE lock[r]]

Rollback(w) == EndSession(w) /\ late' = late \ {w} /\ UNCHANGED <<item, txs, left>>

\* Variant: a purchase is added to the loaded quantity and average
IncrementalPlan(w, run) ==
    LET seen == job[w].seen
        mine == job[w].mine
        inc  == [run EXCEPT !.qty = seen.qty + mine.qty, !.den = 1,
                            !.num = seen.qty * seen.avg + mine.qty * mine.price + mine.fee]
        used == IF Inserts(w) /\ mine.type = "BUY" THEN inc ELSE run
    IN  [item |-> Position(used, seen), cols |-> ChangedCols(used, seen),
         pnl  |-> [t \in ChangedPnl(run, View(w)) |-> run.pnl[t]]]

NewPlan(w, run) ==
    [item |-> Position(run, job[w].seen), cols |-> ChangedCols(run, job[w].seen),
     pnl  |-> [t \in ChangedPnl(run, View(w)) |-> run.pnl[t]]]

\* _recalc_item_from_transactions
Recalc(w) ==
    /\ pc[w] = "replay"
    /\ \E run \in {Replay(View(w))} :
          /\ ~Rejected(run)
          /\ plan' = [plan EXCEPT ![w] = NewPlan(w, run)]
    /\ pc' = [pc EXCEPT ![w] = "flush"]
    /\ UNCHANGED <<item, txs, job, lock, left, late>>

\* BAD_REQUEST: get_db rolls back
Refuse(w) ==
    /\ pc[w] = "replay"
    /\ Rejected(Replay(View(w)))
    /\ Rollback(w)

\* Rows that existed before the session: its own insert needs no lock
TxRowsDue(w) ==
    {t \in DOMAIN plan[w].pnl : lock[t] # w /\ ~(Inserts(w) /\ t = job[w].id)}
ItemRowDue(w) == plan[w].cols # {} /\ lock[ItemRow] # w

\* The unit of work flushes the two tables in no particular order
LockTxRows(w) ==
    /\ pc[w] = "flush"
    /\ TxRowsDue(w) # {}
    /\ \A t \in TxRowsDue(w) : lock[t] = None
    /\ lock' = [r \in Rows |-> IF r \in TxRowsDue(w) THEN w ELSE lock[r]]
    /\ UNCHANGED <<item, txs, pc, job, plan, left, late>>

LockItemRow(w) ==
    /\ pc[w] = "flush"
    /\ ItemRowDue(w)
    /\ lock[ItemRow] = None
    /\ lock' = [lock EXCEPT ![ItemRow] = w]
    /\ UNCHANGED <<item, txs, pc, job, plan, left, late>>

OwnRow(w, t) ==
    IF t # job[w].id THEN txs[t]
    ELSE IF Inserts(w) THEN job[w].mine
    ELSE Merged(txs[t], job[w].base, job[w].mine)

WithPnl(w, t) ==
    IF t \in DOMAIN plan[w].pnl THEN [OwnRow(w, t) EXCEPT !.pnl = plan[w].pnl[t]]
                                ELSE OwnRow(w, t)

\* Variant: the locks outlive the transaction
CommitHolding(w) ==
    /\ pc[w] = "flush"
    /\ TxRowsDue(w) = {} /\ ~ItemRowDue(w)
    /\ txs'  = [t \in TxIds |-> WithPnl(w, t)]
    /\ item' = [c \in DOMAIN item |-> IF c \in plan[w].cols THEN plan[w].item[c] ELSE item[c]]
    /\ late' = (late \cup {v \in Workers : pc[v] # "idle"}) \ {w}
    /\ pc'   = [pc EXCEPT ![w] = "idle"]
    /\ job'  = [job EXCEPT ![w] = None]
    /\ plan' = [plan EXCEPT ![w] = NoPlan]
    /\ UNCHANGED <<lock, left>>

\* get_db commits what was flushed
Commit(w) ==
    /\ pc[w] = "flush"
    /\ TxRowsDue(w) = {} /\ ~ItemRowDue(w)
    /\ txs'  = [t \in TxIds |-> WithPnl(w, t)]
    /\ item' = [c \in DOMAIN item |-> IF c \in plan[w].cols THEN plan[w].item[c] ELSE item[c]]
    /\ late' = (late \cup {v \in Workers : pc[v] # "idle"}) \ {w}
    /\ EndSession(w)
    /\ UNCHANGED left

-----------------------------------------------------------------------------
(* Faults *)

BlockedBy(w) ==
    LET rows == IF pc[w] = "write" THEN {job[w].id}
                ELSE IF pc[w] = "flush"
                     THEN TxRowsDue(w) \cup (IF ItemRowDue(w) THEN {ItemRow} ELSE {})
                ELSE {}
    IN  {lock[r] : r \in rows} \ {None, w}

\* PostgreSQL aborts one of the transactions that wait for each other
DeadlockVictim(w) ==
    /\ \E S \in SUBSET Workers :
          /\ w \in S
          /\ \A v \in S : BlockedBy(v) \cap S # {}
    /\ Rollback(w)

\* The request fails or its process dies before the commit
Fail(w) == pc[w] # "idle" /\ Rollback(w)

-----------------------------------------------------------------------------

Begin(w) ==
    /\ Ready(w)
    /\ \/ \E t \in NextIds, type \in {"BUY", "SELL"}, q \in Quantities, p \in Prices,
             f \in Fees, d \in Dates : Enter(w, t, type, q, p, f, d)
       \/ \E t \in TxIds :
             \/ \E q \in Quantities, p \in Prices, f \in Fees, d \in Dates :
                   Edit(w, t, q, p, f, d)
             \/ Erase(w, t)
       \/ \E b \in BOOLEAN : Archive(w, b)
       \/ Remove(w)

Advance(w) == Write(w) \/ Recalc(w) \/ Refuse(w) \/ LockTxRows(w) \/ LockItemRow(w) \/ Commit(w)

Next ==
    \/ Create
    \/ \E w \in Workers : Begin(w) \/ Advance(w) \/ DeadlockVictim(w) \/ Fail(w)

Spec == Init /\ [][Next]_vars

(* Row locks are granted in the order of request, so a session that waits is *)
(* not overtaken for ever; the deadlock detector runs                        *)
Fairness == \A w \in Workers : SF_vars(Advance(w)) /\ WF_vars(DeadlockVictim(w))

FairSpec == Spec /\ Fairness

-----------------------------------------------------------------------------
(* Properties *)

Active == {t \in TxIds : IsActive(txs[t])}
Book   == [t \in Active |-> txs[t]]
Traded == \E t \in TxIds : txs[t] # None

\* What is stored is what the active trades say, whenever and by whatever request
\* it was computed (the invariant INV of tests/SCENARIOS.md, D2): quantity and
\* average of the item, the profit of every sale, and the item lives exactly as
\* long as something of it is held.
StoredMatchesReplay ==
    item # None =>
        LET run == Replay(Book) IN
        /\ ~Rejected(run)
        /\ item.qty = run.qty
        /\ item.avg = AvgPrice(run)
        /\ \A t \in Active : txs[t].type = "SELL" => txs[t].pnl = run.pnl[t]
        /\ Traded => (item.status = "ACTIVE" <=> run.qty > 0)

\* The holdings that a snapshot reconstructs by SQL for a date, against the replay: never
\* negative at any date, and for the last date the quantity the replay stored. The two
\* averages part for good at the first sale that a purchase follows (the SQL divides by
\* all that was bought); while nothing is sold they agree up to rounding.
AsOfHoldingsAgree ==
    /\ \A d \in Dates : AsOfQty(Book, d) >= 0
    /\ item # None => \A d \in Dates :
          (\A t \in Active : txs[t].date <= d) =>
              /\ AsOfQty(Book, d) = item.qty
              /\ (item.qty > 0 /\ \A t \in Active : txs[t].type = "BUY")
                    => Abs(AsOfAvg(Book, d) - item.avg) <= 1

\* Money is conserved: what the sales brought in, less what the purchases cost, plus
\* the cost of what is left, is the sum of the realized profits, but for half a unit
\* of rounding per sale and per share of the stored average.
MoneyConserved ==
    item # None =>
        LET sells == {t \in Active : txs[t].type = "SELL"}
            flow  == MapThenSumSet(LAMBDA t : Settlement(txs[t]), sells)
                        - MapThenSumSet(LAMBDA t : Settlement(txs[t]), Active \ sells)
            pnl   == MapThenSumSet(LAMBDA t : txs[t].pnl, sells)
        IN  2 * Abs(flow + item.qty * item.avg - pnl) <= item.qty + Cardinality(sells)

\* A trade request that no other commit overtook leaves everything consistent, even
\* when it starts from numbers an earlier race damaged.
Trading(w) == job[w] # None /\ job[w].op \in {"enter", "edit", "erase"}

SoloRequestRepairs ==
    [][\A w \in Workers :
          (/\ pc[w] = "flush" /\ pc'[w] = "idle"
           /\ w \notin late
           /\ Trading(w)
           /\ <<item, txs>>' # <<item, txs>>)
             => StoredMatchesReplay']_vars

\* Every request ends, though sessions wait for each other's rows.
EveryRequestEnds == \A w \in Workers : pc[w] # "idle" ~> pc[w] = "idle"
=============================================================================
