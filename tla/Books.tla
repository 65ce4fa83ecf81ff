------------------------------- MODULE Books -------------------------------
(***************************************************************************)
(* The books of one household and the figures its pages show: the list of  *)
(* accounts (src/app/domain/account), the home page and the monthly        *)
(* statistics (home, stats), the calendar (transaction), the use of fixed  *)
(* items (fixed), the wealth page with its allocation and its trend        *)
(* (wealth).  No figure is stored but the snapshots, and several are       *)
(* computed twice, by queries with different filters: over the rows of a   *)
(* household or of an account, by the type of a row or the kind of its     *)
(* category, by the type of an account or by the items themselves.         *)
(*                                                                         *)
(* A step is a whole request: Ledger, Portfolio and Snapshots overlap      *)
(* them.  Dates are months.  An account is CASH (the types with nothing    *)
(* of their own), INVESTMENT or ASSET (MANUAL_ASSET_ACCOUNT_TYPES, each    *)
(* of which has its slice of the allocation).  Trades are of one share     *)
(* at price 1.                                                             *)
(***************************************************************************)
EXTENDS AccountLedger

CONSTANTS
    Accounts, Categories, Items, Fixed,
    Wallet, Broker, Pension,       \* the accounts of the demo household
    Salary, Food, Rent, Gold,      \* two categories, a fixed item and a stock item of it
    MaxTx,                         \* bound on the transactions of a behaviour
    MaxTrades,                     \* bound on its trades
    Amount,                        \* what users enter
    Prices,                        \* prices of a share
    ThisMonth,                     \* by the clock: a snapshot is of the month before
    Dates,                         \* the months users enter
    Namings,                       \* the sets of fields that updates of a transaction name
    Budget                         \* bound on the requests

Fields == {"type", "amount", "date", "from", "to", "cat", "fixed", "dir"}

ASSUME DemoAssumption ==
    /\ Cardinality({Wallet, Broker, Pension}) = 3 /\ {Wallet, Broker, Pension} \subseteq Accounts
    /\ Salary # Food /\ {Salary, Food} \subseteq Categories /\ Rent \in Fixed /\ Gold \in Items
    /\ 2 \in Prices
ASSUME FiniteAssumption ==
    IsFiniteSet(Accounts) /\ IsFiniteSet(Categories) /\ IsFiniteSet(Items) /\ IsFiniteSet(Fixed)
ASSUME BoundsAssumption ==
    /\ MaxTx \in Nat /\ MaxTx >= 5 /\ MaxTrades \in Nat /\ MaxTrades >= 2
    /\ Budget \in Nat /\ ThisMonth \in Nat /\ ThisMonth >= 2
    /\ Dates \subseteq 1..ThisMonth /\ Namings \subseteq SUBSET Fields
    /\ Amount \in Nat \ {0} /\ Prices \subseteq Nat

VARIABLES
    accts,    \* the accounts rows
    cats,     \* the categories rows
    fixed,    \* the status of the fixed_expenses rows
    txs,      \* the active transactions rows
    items,    \* the portfolio_items rows
    trades,   \* the active portfolio_transactions rows
    snaps,    \* account_snapshots: account and month to balance
    hist,     \* portfolio_value_history: item and month to account and valuation
    left,     \* how many more requests arrive
    bent      \* history: rows whose type or whose category's kind changed under the category

vars == <<accts, cats, fixed, txs, items, trades, snaps, hist, left, bent>>

TxIds    == 1..MaxTx
TradeIds == 1..MaxTrades
Months   == 1..ThisMonth
Spending == {"EXPENSE", "FIXED_EXPENSE"}
Earning  == {"INCOME"}
TxTypes  == Earning \cup Spending \cup {"TRANSFER", "VALUATION"}
Status   == {"ACTIVE", "DELETED"}
AccountTypes == {"CASH", "INVESTMENT", "ASSET"}
CategoryKinds == {"INCOME", "EXPENSE"}
Directions == {"INCREASE", "DECREASE"}

AccountRows  == [type : AccountTypes, start : Int, archived : BOOLEAN, status : Status]
CategoryRows == [kind : CategoryKinds, status : Status]

TxRows    == [type : TxTypes, amount : Nat, date : Months, from : Accounts,
              to : Accounts \cup {None}, cat : Categories \cup {None},
              fixed : Fixed \cup {None}, dir : Directions \cup {None}]
ItemRows  == [acct : Accounts, price : Prices, archived : BOOLEAN, status : Status]
TradeRows == [item : Items, acct : Accounts, type : {"BUY", "SELL"}, date : Months]

ASSUME NoneAssumption ==
    None \notin Accounts \cup Categories \cup Items \cup Fixed \cup Nat \cup Status \cup AccountRows
                  \cup CategoryRows \cup TxRows \cup ItemRows \cup TradeRows

TypeOK ==
    /\ accts \in [Accounts -> AccountRows \cup {None}]
    /\ cats  \in [Categories -> CategoryRows \cup {None}]
    /\ fixed \in [Fixed -> Status \cup {None}]
    /\ txs   \in [TxIds -> TxRows \cup {None}]
    /\ items \in [Items -> ItemRows \cup {None}]
    /\ trades \in [TradeIds -> TradeRows \cup {None}]
    /\ \A k \in DOMAIN snaps : k \in Accounts \X Months /\ snaps[k] \in Int
    /\ \A k \in DOMAIN hist :
          k \in Items \X Months /\ hist[k] \in [acct : Accounts, valuation : Nat]
    /\ left \in 0..Budget /\ bent \subseteq TxIds
    /\ \A t \in TxIds : txs[t] # None /\ txs[t].type # "TRANSFER" => txs[t].to = None

-----------------------------------------------------------------------------
(* What the services look up *)

Live(row)    == row # None /\ row.status = "ACTIVE"
LiveAccounts == {a \in Accounts : Live(accts[a])}
ActiveItems  == {i \in Items : Live(items[i])}
Entered      == {t \in TxIds : txs[t] # None}
Rows         == [t \in Entered |-> txs[t]]
Sum(f, S)    == MapThenSumSet(LAMBDA x : f[x], S)

Trades(type, upto) ==
    {k \in TradeIds : trades[k] # None /\ trades[k].type = type /\ trades[k].date <= upto}

\* What the replay of an item's trades holds at the end of a month
Held(i, m) ==
    LET Of(type) == Cardinality({k \in Trades(type, m) : trades[k].item = i})
    IN  Of("BUY") - Of("SELL")
Worth == [i \in ActiveItems |-> Held(i, ThisMonth) * items[i].price]

\* sum_for_account of the trades, and the cash of _calc_balance
TradeCash(a, m) ==
    LET Of(type) == Cardinality({k \in Trades(type, m) : trades[k].acct = a})
    IN  Of("SELL") - Of("BUY")

Invests(a) == accts[a].type = "INVESTMENT"

AmountOf == [t \in Entered |-> txs[t].amount]

-----------------------------------------------------------------------------
(* The balance of an account: _calc_balance for one, _build_balance for a list *)

Cash(a, m) ==
    accts[a].start + CashFlow(Within(Rows, 1..m), a)
        + (IF Invests(a) THEN TradeCash(a, m) ELSE 0)

Balance(a) ==
    Cash(a, ThisMonth)
        + (IF Invests(a) THEN Sum(Worth, {i \in ActiveItems : items[i].acct = a}) ELSE 0)

\* Variant: a transfer is looked at from the account it leaves only
SumForAccountsOneSided(S) ==
    [a \in S |-> Sum([t \in Entered |-> Contribution(txs[t], a)], {t \in Entered : txs[t].from = a})]

\* sum_for_accounts: one pass over the rows, each entered for its one or two accounts
SumForAccounts(S) ==
    LET spent == [t \in Entered |-> IF txs[t].type = "INCOME" THEN txs[t].amount
                                    ELSE IF txs[t].type = "VALUATION" THEN Revaluation(txs[t])
                                    ELSE -txs[t].amount]
    IN  [a \in S |-> Sum(spent, {t \in Entered : txs[t].from = a})
                       + Sum(AmountOf, {t \in Entered : txs[t].to = a
                                                            /\ txs[t].type = "TRANSFER"})]

\* list_accounts: the balance and, of an INVESTMENT account, its cash
ListAccounts ==
    LET sums  == SumForAccounts(LiveAccounts)
        CashIn(a) == accts[a].start + sums[a] + (IF Invests(a) THEN TradeCash(a, ThisMonth) ELSE 0)
        Held_(a)  == {i \in ActiveItems : items[i].acct = a /\ Invests(a)}
    IN  [a \in LiveAccounts |-> [cash |-> CashIn(a), balance |-> CashIn(a) + Sum(Worth, Held_(a))]]

-----------------------------------------------------------------------------
(* The figures of a month *)

RowsIn(m, types)  == {t \in Entered : txs[t].date = m /\ txs[t].type \in types}

\* sum_by_type_for_month, what the home page shows
ByType(m) == [income   |-> Sum(AmountOf, RowsIn(m, Earning)),
              expense  |-> Sum(AmountOf, RowsIn(m, Spending)),
              transfer |-> Sum(AmountOf, RowsIn(m, {"TRANSFER"}))]

\* daily_sums_for_month and get_calendar, which leave revaluations out
Calendar(m) ==
    LET shown       == RowsIn(m, TxTypes \ {"VALUATION"})
        Of(types)   == Sum(AmountOf, {t \in shown : txs[t].type \in types})
    IN  [income |-> Of(Earning), expense |-> Of(Spending), transfer |-> Of({"TRANSFER"})]

\* sum_by_account_for_month, what a snapshot and an account's report show
AccountMonth(a, m) ==
    LET Own(types) == Sum(AmountOf, {t \in RowsIn(m, types) : txs[t].from = a})
    IN  [income |-> Own(Earning), expense |-> Own({"EXPENSE"}), fixed |-> Own({"FIXED_EXPENSE"})]

\* sum_by_category_for_month has no filter by type
ByCategory(c, m) == Sum(AmountOf, {t \in RowsIn(m, TxTypes) : txs[t].cat = c})

\* get_monthly_stats: find_by_ids finds deleted categories too
Chart(kind, m) ==
    Sum([c \in Categories |-> ByCategory(c, m)],
        {c \in Categories : cats[c] # None /\ cats[c].kind = kind})

\* get_monthly_summary
ByFixed(f, m) == Sum(AmountOf, {t \in RowsIn(m, Spending) : txs[t].fixed = f})

-----------------------------------------------------------------------------
(* The wealth page.  A slice of an allocation is called CASH, INVESTMENT or ASSET *)

Slices == {"CASH", "INVESTMENT", "ASSET"}

\* Variant: the whole balance of an INVESTMENT account is cash
AllocationOfBalances ==
    LET list == ListAccounts
        OfType(types) == Sum([a \in LiveAccounts |-> list[a].balance], {a \in LiveAccounts : accts[a].type \in types})
    IN  [CASH |-> OfType({"CASH", "INVESTMENT"}), ASSET |-> OfType({"ASSET"}),
         INVESTMENT |-> Sum(Worth, ActiveItems)]

\* _build_allocation: the items of the household, whatever their account has become
Allocation ==
    LET list    == ListAccounts
        cash    == [a \in LiveAccounts |-> list[a].cash]
        balance == [a \in LiveAccounts |-> list[a].balance]
        OfType(type) == {a \in LiveAccounts : accts[a].type = type}
    IN  [CASH       |-> Sum(cash, OfType("INVESTMENT")) + Sum(balance, OfType("CASH")),
         ASSET      |-> Sum(balance, OfType("ASSET")),
         INVESTMENT |-> Sum(Worth, ActiveItems)]

SnapsOf(m)        == {a \in Accounts : <<a, m>> \in DOMAIN snaps}
Recorded(m)       == [a \in SnapsOf(m) |-> snaps[<<a, m>>]]
HistOf(m)         == {i \in Items : <<i, m>> \in DOMAIN hist}
Valuations(S, m)  == Sum([i \in HistOf(m) |-> hist[<<i, m>>].valuation], S)
ValuedIn(a, m)    == {i \in HistOf(m) : hist[<<i, m>>].acct = a}

\* build_allocation_trend and _add_snapshot_to_month: by the type of the account today
Trend(m) ==
    LET OfType(type) == {a \in SnapsOf(m) : accts[a].type = type}
        cash         == [a \in SnapsOf(m) |-> snaps[<<a, m>>] - Valuations(ValuedIn(a, m), m)]
    IN  [CASH       |-> Sum(cash, OfType("INVESTMENT")) + Sum(Recorded(m), OfType("CASH")),
         ASSET      |-> Sum(Recorded(m), OfType("ASSET")),
         INVESTMENT |-> Valuations(HistOf(m), m)]

\* _build_month of get_yearly_snapshots
YearlyTotal(m) == Sum(Recorded(m), SnapsOf(m))

AllOf(slices) == Sum(slices, Slices)

-----------------------------------------------------------------------------
(* Snapshots *)

\* The accounts _build_and_save_snapshot writes a row for
Scope == {a \in LiveAccounts : ~accts[a].archived}

\* asof_holdings_by_account
HoldingsOf(a, m) ==
    {i \in Items : items[i] # None /\ items[i].acct = a /\ Held(i, m) > 0}

SnapshotRows(m, price) ==
    LET Worthy(a) == IF Invests(a)
                     THEN Sum([i \in Items |-> Held(i, m) * price[i]], HoldingsOf(a, m)) ELSE 0
    IN  [k \in Scope \X {m} |-> Cash(k[1], m) + Worthy(k[1])]

HistoryRows(m, price) ==
    LET held == UNION {HoldingsOf(a, m) : a \in {b \in Scope : Invests(b)}}
    IN  [k \in held \X {m} |-> [acct |-> items[k[1]].acct, valuation |-> Held(k[1], m) * price[k[1]]]]

OtherMonths(f, m) == [k \in {j \in DOMAIN f : j[2] # m} |-> f[k]]
Joined(f, g)      == [k \in DOMAIN f \cup DOMAIN g |-> IF k \in DOMAIN g THEN g[k] ELSE f[k]]

-----------------------------------------------------------------------------
(* The rows seed_demo inserts, fewer of each *)

\* _create_accounts
SeededAccounts ==
    LET Account(type, start) ==
          [type |-> type, start |-> start, archived |-> FALSE, status |-> "ACTIVE"]
    IN  [a \in Accounts |-> CASE a = Wallet  -> Account("CASH", 20)
                              [] a = Broker  -> Account("INVESTMENT", 0)
                              [] a = Pension -> Account("ASSET", 10)
                              [] OTHER       -> None]

\* _create_categories
SeededCategories ==
    [c \in Categories |-> CASE c = Salary -> [kind |-> "INCOME", status |-> "ACTIVE"]
                            [] c = Food   -> [kind |-> "EXPENSE", status |-> "ACTIVE"]
                            [] OTHER      -> None]

\* _create_fixed_expenses
SeededFixed == [f \in Fixed |-> IF f = Rent THEN "ACTIVE" ELSE None]

\* _create_transactions
SeededTransactions ==
    LET Last == ThisMonth - 1
        Row(type, amount, date, from, to, cat, fix, dir) ==
          [type |-> type, amount |-> amount, date |-> date, from |-> from, to |-> to,
           cat |-> cat, fixed |-> fix, dir |-> dir]
    IN  [t \in TxIds |->
           CASE t = 1 -> Row("INCOME", 9, Last, Wallet, None, Salary, None, None)
             [] t = 2 -> Row("FIXED_EXPENSE", 2, ThisMonth, Wallet, None, Food, Rent, None)
             [] t = 3 -> Row("EXPENSE", 1, Last, Wallet, None, Food, None, None)
             [] t = 4 -> Row("TRANSFER", 4, Last, Wallet, Broker, None, None, None)
             [] t = 5 -> Row("VALUATION", 1, ThisMonth, Pension, None, None, None, "INCREASE")
             [] OTHER -> None]

\* _create_portfolio
SeededItems ==
    [i \in Items |-> IF i = Gold THEN [acct |-> Broker, price |-> 2, archived |-> FALSE,
                                       status |-> "ACTIVE"] ELSE None]
SeededTrades ==
    [k \in TradeIds |-> IF k = 1 THEN [item |-> Gold, acct |-> Broker, type |-> "BUY",
                                       date |-> ThisMonth - 1] ELSE None]

\* _build_snapshots
SeededSnapshots ==
    LET price == [i \in Items |-> 2]
    IN  /\ snaps = SnapshotRows(ThisMonth - 1, price)
        /\ hist  = HistoryRows(ThisMonth - 1, price)

Init ==
    /\ accts = SeededAccounts /\ cats = SeededCategories /\ fixed = SeededFixed
    /\ txs = SeededTransactions /\ items = SeededItems /\ trades = SeededTrades
    /\ SeededSnapshots
    /\ left = Budget /\ bent = {}

Request == left > 0 /\ left' = left - 1
BooksOnly == UNCHANGED <<items, trades, snaps, hist>>

-----------------------------------------------------------------------------
(* Transactions *)

\* _category_kind_matches
KindMatches(type, kind) ==
    /\ type \in Spending => kind = "EXPENSE"
    /\ type \in Earning  => kind = "INCOME"

\* _validate_fk_belong_to_household and _validate_fixed_belongs
Valid(type, from, to, cat, fix) ==
    /\ \A a \in {from, to} \ {None} :
          /\ Live(accts[a])
          /\ type = "VALUATION" => accts[a].type = "ASSET"
          /\ type \notin {"VALUATION", "TRANSFER"} => accts[a].type # "ASSET"
    /\ cat # None => Live(cats[cat]) /\ KindMatches(type, cats[cat].kind)
    /\ fix # None => fixed[fix] = "ACTIVE"

\* The validator of TransactionCreateRequest
WellFormed(type, from, to, cat, fix, dir) ==
    /\ to # None  <=> type = "TRANSFER"
    /\ fix # None <=> type = "FIXED_EXPENSE"
    /\ dir # None <=> type = "VALUATION"
    /\ to # from
    /\ type \in {"TRANSFER", "VALUATION"} => cat = None

FreeTx == {t \in TxIds : txs[t] = None /\ \A s \in 1..(t - 1) : txs[s] # None}

CreateTransaction ==
    /\ Request
    /\ \E t \in FreeTx, type \in TxTypes, date \in Dates, from \in Accounts,
          to \in Accounts \cup {None}, cat \in Categories \cup {None},
          fix \in Fixed \cup {None}, dir \in Directions \cup {None} :
          /\ WellFormed(type, from, to, cat, fix, dir)
          /\ Valid(type, from, to, cat, fix)
          /\ txs' = [txs EXCEPT ![t] =
                        [type |-> type, amount |-> Amount, date |-> date, from |-> from,
                         to |-> to, cat |-> cat, fixed |-> fix, dir |-> dir]]
    /\ UNCHANGED <<accts, cats, fixed, bent>> /\ BooksOnly

\* Variant: the destination stays
NormalisedKeepingTo(row) == row

\* _normalize_to_account
Normalised(row) == IF row.type = "TRANSFER" THEN row ELSE [row EXCEPT !.to = None]

\* update_transaction: what the request does not name stays; the row as it would be is
\* checked before it is normalised
UpdateTransaction ==
    /\ Request
    /\ \E t \in Entered, named \in Namings :
       LET row == txs[t]
           Pick(f, S) == IF f \in named THEN S ELSE {row[f]}
       IN  \E type \in Pick("type", TxTypes), amount \in Pick("amount", {Amount}),
              date \in Pick("date", Dates), from \in Pick("from", Accounts),
              to \in Pick("to", Accounts), cat \in Pick("cat", Categories),
              fix \in Pick("fixed", Fixed), dir \in Pick("dir", Directions) :
              /\ {"from", "to"} \subseteq named => from # to
              /\ Valid(type, from, to, cat, fix)
              /\ type = "TRANSFER" => to # None /\ to # from
              /\ txs' = [txs EXCEPT ![t] = Normalised(
                            [type |-> type, amount |-> amount, date |-> date, from |-> from,
                             to |-> to, cat |-> cat, fixed |-> fix, dir |-> dir])]
              /\ bent' = IF cat # None /\ type \in {"TRANSFER", "VALUATION"}
                         THEN bent \cup {t} ELSE bent \ {t}
    /\ UNCHANGED <<accts, cats, fixed>> /\ BooksOnly

DeleteTransaction ==
    /\ Request
    /\ \E t \in Entered : txs' = [txs EXCEPT ![t] = None] /\ bent' = bent \ {t}
    /\ UNCHANGED <<accts, cats, fixed>> /\ BooksOnly

-----------------------------------------------------------------------------
(* Categories and fixed items *)

CreateCategory ==
    /\ Request
    /\ \E c \in Categories, kind \in CategoryKinds :
          /\ cats[c] = None
          /\ cats' = [cats EXCEPT ![c] = [kind |-> kind, status |-> "ACTIVE"]]
    /\ UNCHANGED <<accts, fixed, txs, bent>> /\ BooksOnly

\* update_category: the kind changes under the rows of the category
UpdateCategory ==
    /\ Request
    /\ \E c \in Categories, kind \in CategoryKinds :
          /\ Live(cats[c]) /\ cats[c].kind # kind
          /\ cats' = [cats EXCEPT ![c].kind = kind]
          /\ bent' = bent \cup {t \in Entered : txs[t].cat = c}
    /\ UNCHANGED <<accts, fixed, txs>> /\ BooksOnly

\* delete_category: nothing else is touched
DeleteCategory ==
    /\ Request
    /\ \E c \in Categories : Live(cats[c]) /\ cats' = [cats EXCEPT ![c].status = "DELETED"]
    /\ UNCHANGED <<accts, fixed, txs, bent>> /\ BooksOnly

\* create_fixed_expense, with a category in use or without one
CreateFixed ==
    /\ Request
    /\ \E f \in Fixed, cat \in Categories \cup {None} :
          /\ cat # None => Live(cats[cat])
          /\ fixed[f] = None /\ fixed' = [fixed EXCEPT ![f] = "ACTIVE"]
    /\ UNCHANGED <<accts, cats, txs, bent>> /\ BooksOnly

DeleteFixed ==
    /\ Request
    /\ \E f \in Fixed : fixed[f] = "ACTIVE" /\ fixed' = [fixed EXCEPT ![f] = "DELETED"]
    /\ UNCHANGED <<accts, cats, txs, bent>> /\ BooksOnly

-----------------------------------------------------------------------------
(* Accounts *)

CreateAccount ==
    /\ Request
    /\ \E a \in Accounts, type \in AccountTypes :
          /\ accts[a] = None
          /\ accts' = [accts EXCEPT ![a] = [type |-> type, start |-> Amount, archived |-> FALSE,
                                            status |-> "ACTIVE"]]
    /\ UNCHANGED <<cats, fixed, txs, bent>> /\ BooksOnly

\* update_account looks at nothing that refers to the account; a request that names more
\* fields does what several that name one do
UpdateAccount ==
    /\ Request
    /\ \E a \in LiveAccounts :
          \/ \E type \in AccountTypes : accts' = [accts EXCEPT ![a].type = type]
          \/ accts' = [accts EXCEPT ![a].start = Amount]
          \/ accts' = [accts EXCEPT ![a].archived = ~accts[a].archived]
    /\ UNCHANGED <<cats, fixed, txs, bent>> /\ BooksOnly

\* Variant: the types of a row without a counterparty lack one
DoomedButFixed(a) ==
    {t \in Entered :
        \/ txs[t].from = a /\ txs[t].to = None /\ txs[t].type \in {"INCOME", "EXPENSE"}
        \/ /\ txs[t].type = "TRANSFER" /\ a \in {txs[t].from, txs[t].to}
           /\ \E b \in {txs[t].from, txs[t].to} \ {a} : accts[b].status = "DELETED"}

\* soft_delete_solo_by_account_id, soft_delete_transfers_with_dead_counterparty
Doomed(a) ==
    {t \in Entered :
        \/ txs[t].from = a /\ txs[t].to = None /\ txs[t].type \in Earning \cup Spending
        \/ /\ txs[t].type = "TRANSFER" /\ a \in {txs[t].from, txs[t].to}
           /\ \E b \in {txs[t].from, txs[t].to} \ {a} : accts[b].status = "DELETED"}

DeleteAccount ==
    /\ Request
    /\ \E a \in LiveAccounts :
          /\ \A i \in ActiveItems : items[i].acct # a
          /\ accts'  = [accts EXCEPT ![a].status = "DELETED"]
          /\ txs'    = [t \in TxIds |-> IF t \in Doomed(a) THEN None ELSE txs[t]]
          /\ trades' = [k \in TradeIds |-> IF trades[k] # None /\ trades[k].acct = a
                                           THEN None ELSE trades[k]]
          /\ snaps'  = [k \in {j \in DOMAIN snaps : j[1] # a} |-> snaps[k]]
          /\ hist'   = [k \in {j \in DOMAIN hist : hist[j].acct # a} |-> hist[k]]
          /\ bent'   = bent \ Doomed(a)
    /\ UNCHANGED <<cats, fixed, items>>

-----------------------------------------------------------------------------
(* Stock items *)

StocksOnly == UNCHANGED <<accts, cats, fixed, txs, snaps, hist, bent>>

\* create_portfolio: only into an account that invests
CreateItem ==
    /\ Request
    /\ \E i \in Items, a \in LiveAccounts, price \in Prices :
          /\ items[i] = None /\ Invests(a)
          /\ items' = [items EXCEPT ![i] = [acct |-> a, price |-> price, archived |-> FALSE,
                                            status |-> "ACTIVE"]]
    /\ UNCHANGED trades /\ StocksOnly

\* update_portfolio; what is held cannot be archived
UpdateItem ==
    /\ Request
    /\ \E i \in ActiveItems, price \in Prices, archived \in BOOLEAN :
          /\ archived => Held(i, ThisMonth) <= 0
          /\ items' = [items EXCEPT ![i].price = price, ![i].archived = archived]
    /\ UNCHANGED trades /\ StocksOnly

\* delete_portfolio keeps the history
DeleteItem ==
    /\ Request
    /\ \E i \in ActiveItems :
          /\ Held(i, ThisMonth) <= 0
          /\ items' = [items EXCEPT ![i].status = "DELETED"]
    /\ UNCHANGED trades /\ StocksOnly

FreeTrade == {k \in TradeIds : trades[k] = None /\ \A j \in 1..(k - 1) : trades[j] # None}

\* buy, whatever the account of the item has become
Buy ==
    /\ Request
    /\ \E k \in FreeTrade, i \in ActiveItems, date \in Dates :
          trades' = [trades EXCEPT ![k] = [item |-> i, acct |-> items[i].acct, type |-> "BUY",
                                           date |-> date]]
    /\ UNCHANGED items /\ StocksOnly

\* sell: the replay refuses what is not covered on its date; the last share takes the item
Sell ==
    /\ Request
    /\ \E k \in FreeTrade, i \in ActiveItems, date \in Dates :
          /\ \A m \in date..ThisMonth : Held(i, m) >= 1
          /\ trades' = [trades EXCEPT ![k] = [item |-> i, acct |-> items[i].acct,
                                              type |-> "SELL", date |-> date]]
          /\ items'  = [items EXCEPT ![i].status =
                            IF Held(i, ThisMonth) = 1 THEN "DELETED" ELSE "ACTIVE"]
    /\ StocksOnly

\* create_target_month_snapshot, which first deletes the rows of the month.  Snapshots says
\* what the price of an item is
Snapshot ==
    /\ Request
    /\ \E price \in [Items -> Prices] :
       LET m == ThisMonth - 1
           replace == SnapsOf(m) # {}
           older   == IF replace THEN OtherMonths(hist, m) ELSE hist
       IN  /\ snaps' = Joined(OtherMonths(snaps, m), SnapshotRows(m, price))
           /\ hist'  = IF Scope = {} THEN older ELSE Joined(older, HistoryRows(m, price))
    /\ UNCHANGED <<accts, cats, fixed, txs, items, trades, bent>>

Next ==
    \/ CreateTransaction \/ UpdateTransaction \/ DeleteTransaction
    \/ CreateCategory \/ UpdateCategory \/ DeleteCategory \/ CreateFixed \/ DeleteFixed
    \/ CreateAccount \/ UpdateAccount \/ DeleteAccount
    \/ CreateItem \/ UpdateItem \/ DeleteItem \/ Buy \/ Sell
    \/ Snapshot

Spec == Init /\ [][Next]_vars

-----------------------------------------------------------------------------
(* Properties *)

\* The balance in a list of accounts, assembled from three queries for all of them, is the
\* balance the account's own page computes with queries of its own
\* (account/service.py, _build_balance and _calc_balance)
BalancesAgree ==
    LET list == ListAccounts IN \A a \in LiveAccounts : list[a].balance = Balance(a)

Bent(m)          == Sum(AmountOf, {t \in bent : txs[t].date = m})
Unsorted(types, m) == Sum(AmountOf, {t \in RowsIn(m, types) : txs[t].cat = None})

\* The sums of a month by type, which the home page shows, are those of the calendar and of
\* the accounts that still exist, whatever was deleted or moved; the chart by category shows
\* the same money but for uncategorised rows and for rows an update left under a category
\* that does not fit them, and the use of fixed items is part of what was spent
\* (stats/service.py, transaction/repository.py)
MonthFiguresAgree ==
    \A m \in Months :
        LET sums == ByType(m)
            income  == [a \in LiveAccounts |-> AccountMonth(a, m).income]
            expense == [a \in LiveAccounts |-> AccountMonth(a, m).expense + AccountMonth(a, m).fixed]
        IN  /\ sums = Calendar(m)
            /\ sums.income  = Sum(income, LiveAccounts)
            /\ sums.expense = Sum(expense, LiveAccounts)
            /\ Chart("INCOME", m)  \in sums.income - Unsorted(Earning, m) - Bent(m)
                                        ..sums.income - Unsorted(Earning, m) + Bent(m)
            /\ Chart("EXPENSE", m) \in sums.expense - Unsorted(Spending, m) - Bent(m)
                                        ..sums.expense - Unsorted(Spending, m) + Bent(m)
            /\ Sum([f \in Fixed |-> ByFixed(f, m)], Fixed) <= sums.expense

\* The slices of the allocation add up to the total of the page, and those of every month
\* of the trend to the total of its snapshots, but for the worth of items whose account is
\* no INVESTMENT account any more: that is in the slices and, today, not in the total; in
\* the trend it is counted twice
\* (wealth/service.py, _build_allocation and build_allocation_trend)
WealthAddsUp ==
    LET list   == ListAccounts
        balance == [a \in LiveAccounts |-> list[a].balance]
        strays == {i \in ActiveItems : ~Invests(items[i].acct)}
        Lost(m) == {i \in HistOf(m) : ~Invests(hist[<<i, m>>].acct)}
    IN  /\ AllOf(Allocation) = Sum(balance, LiveAccounts) + Sum(Worth, strays)
        /\ \A m \in Months : AllOf(Trend(m)) = YearlyTotal(m) + Valuations(Lost(m), m)
=============================================================================
