---------------------------- MODULE BooksProofs ----------------------------
(***************************************************************************)
(* The figures of a household's pages, for any accounts, categories, items *)
(* and fixed items, any amounts, prices and months, and any number of      *)
(* requests: what two queries compute is the same sum, cut in two ways.    *)
(***************************************************************************)
EXTENDS Books, Totals

Suits(type, kind) == (type \in Earning /\ kind = "INCOME") \/ (type \in Spending /\ kind = "EXPENSE")

\* A row is under a category that fits its type, unless it was bent
Sorted ==
    /\ bent \subseteq Entered
    /\ \A t \in Entered : txs[t].cat # None =>
          cats[txs[t].cat] # None /\ (t \notin bent => Suits(txs[t].type, cats[txs[t].cat].kind))

\* What is counted belongs to an account: income and expenses and the items in use to one
\* that is alive, a snapshot to one there has been, a value to a snapshot of its account
Owned ==
    /\ \A t \in Entered : txs[t].type \in Earning \cup Spending => txs[t].from \in LiveAccounts
    /\ \A i \in ActiveItems : items[i].acct \in LiveAccounts
    /\ \A k \in DOMAIN snaps : accts[k[1]] # None
    /\ \A k \in DOMAIN hist : <<hist[k].acct, k[2]>> \in DOMAIN snaps

IInv == TypeOK /\ Sorted /\ Owned

\* The tables that snapshots are computed from
Tables ==
    /\ accts \in [Accounts -> AccountRows \cup {None}]
    /\ txs   \in [TxIds -> TxRows \cup {None}]
    /\ items \in [Items -> ItemRows \cup {None}]
    /\ trades \in [TradeIds -> TradeRows \cup {None}]

-----------------------------------------------------------------------------
(* Numbers *)

\* The sums of the pages are totals.
LEMMA SumIsTotal == ASSUME NEW f, NEW S PROVE Sum(f, S) = Total(f, S)
BY DEF Sum, Total

\* The sums behind a balance are totals.
LEMMA FlowTotals ==
    ASSUME NEW rows, NEW a, NEW f, \A t \in Touching(rows, a) : Contribution(rows[t], a) = f[t]
    PROVE  CashFlow(rows, a) = Total(f, Touching(rows, a))
<1> DEFINE S == Touching(rows, a)
           Step(sum) == sum = [T \in SUBSET S |-> IF T = {} THEN 0 ELSE Contribution(rows[Pick(T)], a) + sum[T \ {Pick(T)}]]
<1>1. CashFlow(rows, a) = (CHOOSE sum : Step(sum))[S]
  BY DEF CashFlow, MapThenSumSet, MapThenFoldSet, Pick
<1>2. \A sum : Step(sum) <=> Sums(f, S, sum)
  <2> SUFFICES ASSUME NEW sum PROVE Step(sum) <=> Sums(f, S, sum)
    OBVIOUS
  <2>1. \A T \in SUBSET S : T # {} => Pick(T) \in S
    BY DEF Pick
  <2>2. \A T \in SUBSET S : SumBody(f, sum, T) = IF T = {} THEN 0 ELSE Contribution(rows[Pick(T)], a) + sum[T \ {Pick(T)}]
    BY <2>1 DEF SumBody
  <2> QED
    BY <2>2 DEF Sums
<1> HIDE DEF Step
<1>3. (CHOOSE sum : Step(sum)) = (CHOOSE sum : Sums(f, S, sum))
  BY <1>2
<1> QED
  BY <1>1, <1>3, TotalIs

\* The tables are finite.
LEMMA FiniteTables ==
    /\ IsFiniteSet(TxIds) /\ IsFiniteSet(TradeIds) /\ IsFiniteSet(Entered) /\ IsFiniteSet(ActiveItems)
    /\ IsFiniteSet(LiveAccounts) /\ \A m : IsFiniteSet(SnapsOf(m)) /\ IsFiniteSet(HistOf(m))
<1>1. IsFiniteSet(TxIds) /\ IsFiniteSet(TradeIds)
  BY FS_Interval, BoundsAssumption DEF TxIds, TradeIds
<1>2. /\ Entered \in SUBSET TxIds /\ ActiveItems \in SUBSET Items /\ LiveAccounts \in SUBSET Accounts
      /\ \A m : SnapsOf(m) \in SUBSET Accounts /\ HistOf(m) \in SUBSET Items
  BY DEF Entered, ActiveItems, LiveAccounts, SnapsOf, HistOf
<1> QED
  BY <1>1, <1>2, FiniteAssumption, FS_Subset

\* Rows of the type of the table have the types of their fields.
LEMMA RowFields ==
    ASSUME NEW row \in TxRows
    PROVE  /\ row.amount \in Nat /\ row.date \in Months /\ row.from \in Accounts /\ row.to \in Accounts \cup {None}
           /\ row.cat \in Categories \cup {None} /\ row.fixed \in Fixed \cup {None}
           /\ row.type \in {"INCOME", "EXPENSE", "FIXED_EXPENSE", "TRANSFER", "VALUATION"}
BY DEF TxRows, TxTypes, Earning, Spending

\* What a row adds to a balance is a whole number.
LEMMA ContributionType == ASSUME NEW row \in TxRows, NEW a PROVE Contribution(row, a) \in Int
<1>1. row.amount \in Int /\ row.type \in {"INCOME", "EXPENSE", "FIXED_EXPENSE", "TRANSFER", "VALUATION"}
  BY RowFields
<1>2. PICK out, into, rev \in Int :
        /\ out = (IF row.from = a THEN row.amount ELSE 0)
        /\ into = (IF row.to = a THEN row.amount ELSE 0)
        /\ rev = Revaluation(row)
  BY <1>1 DEF Revaluation
<1>3. CASE row.type = "INCOME"
  BY <1>2, <1>3 DEF Contribution
<1>4. CASE row.type \in {"EXPENSE", "FIXED_EXPENSE"}
  BY <1>2, <1>4 DEF Contribution
<1>5. CASE row.type = "TRANSFER"
  BY <1>2, <1>5 DEF Contribution
<1>6. CASE row.type = "VALUATION"
  BY <1>2, <1>6 DEF Contribution
<1> QED
  BY <1>1, <1>3, <1>4, <1>5, <1>6

\* Holdings and the cash of trades are whole numbers.
LEMMA CountType == \A i, m : Held(i, m) \in Int /\ TradeCash(i, m) \in Int
<1> SUFFICES ASSUME NEW i, NEW m PROVE Held(i, m) \in Int /\ TradeCash(i, m) \in Int
  OBVIOUS
<1>1. ASSUME NEW type
      PROVE  /\ Cardinality({k \in Trades(type, m) : trades[k].item = i}) \in Nat
             /\ Cardinality({k \in Trades(type, m) : trades[k].acct = i}) \in Nat
  <2>1. {k \in Trades(type, m) : trades[k].item = i} \in SUBSET TradeIds
        /\ {k \in Trades(type, m) : trades[k].acct = i} \in SUBSET TradeIds
    BY DEF Trades
  <2> QED
    BY <2>1, FiniteTables, FS_Subset, FS_CardinalityType
<1> QED
  BY <1>1 DEF Held, TradeCash

\* What the rows of some months make of a balance is a whole number.
LEMMA FlowType == ASSUME Tables, NEW D, NEW a PROVE CashFlow(Within(Rows, D), a) \in Int
<1>1. PICK rows : rows = Within(Rows, D)
  OBVIOUS
<1>2. DOMAIN rows \in SUBSET Entered /\ \A t \in DOMAIN rows : rows[t] = txs[t] /\ txs[t] \in TxRows
  BY <1>1 DEF Within, Rows, Entered, Tables
<1>3. PICK f : f = [t \in Entered |-> Contribution(txs[t], a)]
  OBVIOUS
<1>4. \A t \in DOMAIN rows : Contribution(rows[t], a) = f[t] /\ f[t] \in Int
  BY <1>2, <1>3, ContributionType
<1>5. Touching(rows, a) \in SUBSET DOMAIN rows
  BY DEF Touching
<1>6. IsFiniteSet(Touching(rows, a))
  BY <1>2, <1>5, FiniteTables, FS_Subset
<1>7. CashFlow(rows, a) = Total(f, Touching(rows, a))
  BY <1>4, <1>5, FlowTotals
<1> QED
  BY <1>1, <1>4, <1>5, <1>6, <1>7, TotalType

\* So is the cash of an account.
LEMMA CashType == ASSUME Tables, NEW a \in Accounts, accts[a] # None, NEW m PROVE Cash(a, m) \in Int
<1>1. accts[a].start \in Int
  BY DEF Tables, AccountRows
<1>2. CashFlow(Within(Rows, 1..m), a) \in Int /\ TradeCash(a, m) \in Int
  BY FlowType, CountType
<1> QED
  BY <1>1, <1>2 DEF Cash

\* A row in use is a row.
LEMMA LiveRows ==
    ASSUME Tables
    PROVE  /\ \A a \in LiveAccounts : a \in Accounts /\ accts[a] \in AccountRows /\ accts[a] # None
           /\ \A i \in ActiveItems : i \in Items /\ items[i] \in ItemRows
           /\ \A t \in Entered : t \in TxIds /\ txs[t] \in TxRows
BY DEF Tables, LiveAccounts, ActiveItems, Entered, Live

\* The rows a snapshot writes have the types of their tables, and the value of an item
\* comes with a snapshot of its account.
LEMMA SnapshotTypes ==
    ASSUME Tables, NEW m \in Months, NEW price \in [Items -> Nat]
    PROVE  /\ DOMAIN SnapshotRows(m, price) = Scope \X {m} /\ Scope \in SUBSET LiveAccounts
           /\ \A k \in Scope \X {m} : SnapshotRows(m, price)[k] \in Int
           /\ \A k \in DOMAIN HistoryRows(m, price) :
                /\ k \in Items \X {m} /\ HistoryRows(m, price)[k] \in [acct : Accounts, valuation : Nat]
                /\ HistoryRows(m, price)[k].acct \in Scope
<1>1. Scope \in SUBSET LiveAccounts
  BY DEF Scope
<1>2. \A i \in Items : Held(i, m) * price[i] \in Int /\ (Held(i, m) > 0 => Held(i, m) * price[i] \in Nat)
  <2> SUFFICES ASSUME NEW i \in Items
               PROVE  Held(i, m) * price[i] \in Int /\ (Held(i, m) > 0 => Held(i, m) * price[i] \in Nat)
    OBVIOUS
  <2>1. PICK h \in Int, p \in Nat : h = Held(i, m) /\ p = price[i]
    BY CountType
  <2>2. h * p \in Int /\ (h > 0 => h * p \in Nat)
    OBVIOUS
  <2> QED
    BY <2>1, <2>2
<1> DEFINE worth == [i \in Items |-> Held(i, m) * price[i]]
           Worthy(a) == IF Invests(a) THEN Sum(worth, HoldingsOf(a, m)) ELSE 0
<1>3. ASSUME NEW a \in Scope PROVE Cash(a, m) + Worthy(a) \in Int
  <2>1. HoldingsOf(a, m) \in SUBSET Items /\ IsFiniteSet(HoldingsOf(a, m))
    <3>1. HoldingsOf(a, m) \in SUBSET Items
      BY DEF HoldingsOf
    <3> QED
      BY <3>1, FiniteAssumption, FS_Subset
  <2>2. \A i \in HoldingsOf(a, m) : worth[i] \in Int
    BY <1>2, <2>1
  <2>3. Total(worth, HoldingsOf(a, m)) \in Int
    <3> HIDE DEF worth
    <3> QED
      BY <2>1, <2>2, TotalType
  <2>4. Worthy(a) \in Int
    <3> HIDE DEF worth
    <3> QED
      BY <2>3, SumIsTotal
  <2>5. Cash(a, m) \in Int
    BY <1>1, CashType, LiveRows
  <2> HIDE DEF Worthy
  <2> QED
    BY <2>4, <2>5
<1>4. SnapshotRows(m, price) = [k \in Scope \X {m} |-> Cash(k[1], m) + Worthy(k[1])]
  BY DEF SnapshotRows
<1> HIDE DEF Worthy
<1>5. PICK held : held = UNION {HoldingsOf(a, m) : a \in {b \in Scope : Invests(b)}}
  OBVIOUS
<1>6. HistoryRows(m, price) =
        [k \in held \X {m} |-> [acct |-> items[k[1]].acct, valuation |-> Held(k[1], m) * price[k[1]]]]
  BY <1>5 DEF HistoryRows
<1>7. \A i \in held : i \in Items /\ items[i].acct \in Scope /\ Held(i, m) > 0
  BY <1>5 DEF HoldingsOf
<1>8. \A a \in Scope : a \in Accounts
  BY <1>1, LiveRows
<1>9. ASSUME NEW k \in DOMAIN HistoryRows(m, price)
      PROVE  /\ k \in Items \X {m} /\ HistoryRows(m, price)[k] \in [acct : Accounts, valuation : Nat]
             /\ HistoryRows(m, price)[k].acct \in Scope
  <2>1. k \in held \X {m} /\ k[1] \in held
    BY <1>6
  <2>2. HistoryRows(m, price)[k] = [acct |-> items[k[1]].acct, valuation |-> Held(k[1], m) * price[k[1]]]
    BY <1>6, <2>1
  <2>3. k[1] \in Items /\ items[k[1]].acct \in Scope /\ items[k[1]].acct \in Accounts
        /\ Held(k[1], m) * price[k[1]] \in Nat
    BY <1>2, <1>7, <1>8, <2>1
  <2> QED
    BY <2>1, <2>2, <2>3
<1>10. \A k \in Scope \X {m} : SnapshotRows(m, price)[k] \in Int
  BY <1>3, <1>4
<1>11. DOMAIN SnapshotRows(m, price) = Scope \X {m}
  BY <1>4
<1> QED
  BY <1>1, <1>9, <1>10, <1>11

-----------------------------------------------------------------------------
(* The invariant *)

\* The demo household is in order.
LEMMA Starts == Init => IInv
<1> SUFFICES ASSUME Init PROVE IInv
  OBVIOUS
<1>1. accts = SeededAccounts /\ cats = SeededCategories /\ fixed = SeededFixed /\ txs = SeededTransactions
      /\ items = SeededItems /\ trades = SeededTrades /\ left = Budget /\ bent = {}
      /\ snaps = SnapshotRows(ThisMonth - 1, [i \in Items |-> 2])
      /\ hist  = HistoryRows(ThisMonth - 1, [i \in Items |-> 2])
  BY DEF Init, SeededSnapshots
<1>2. ThisMonth - 1 \in Months /\ ThisMonth \in Months /\ {1, 2, 3, 4, 5} \subseteq TxIds /\ 1 \in TradeIds
  BY BoundsAssumption DEF Months, TxIds, TradeIds
<1>3. accts \in [Accounts -> AccountRows \cup {None}] /\ {Wallet, Broker, Pension} \subseteq LiveAccounts
  <2>0. Wallet # Broker /\ Wallet # Pension /\ Broker # Pension
    <3>1. Cardinality({Wallet, Broker, Pension}) = 3
      BY DemoAssumption
    <3>2. \A x, y : IsFiniteSet({x, y}) /\ Cardinality({x, y}) <= 2
      <4> SUFFICES ASSUME NEW x, NEW y PROVE IsFiniteSet({x, y}) /\ Cardinality({x, y}) <= 2
        OBVIOUS
      <4>1. IsFiniteSet({x}) /\ Cardinality({x}) = 1 /\ {x, y} = {x} \cup {y}
        BY FS_Singleton
      <4> QED
        BY <4>1, FS_AddElement
    <3>3. {Wallet, Broker, Pension} \notin {{Wallet, Pension}, {Wallet, Broker}}
      BY <3>1, <3>2
    <3> QED
      BY <3>3
  <2>1. {Wallet, Broker, Pension} \subseteq Accounts
    BY DemoAssumption
  <2>2. ASSUME NEW a \in Accounts
        PROVE  accts[a] \in AccountRows \cup {None} /\ (a \in {Wallet, Broker, Pension} => Live(accts[a]))
    <3>1. ASSUME NEW type \in {"CASH", "INVESTMENT", "ASSET"}, NEW start \in Int,
                 accts[a] = [type |-> type, start |-> start, archived |-> FALSE, status |-> "ACTIVE"]
          PROVE  accts[a] \in AccountRows /\ Live(accts[a])
      <4>1. accts[a] \in AccountRows
        BY <3>1 DEF AccountRows, AccountTypes, Status
      <4>2. accts[a] # None
        BY <4>1, NoneAssumption
      <4>3. accts[a].status = "ACTIVE"
        BY <3>1
      <4> QED
        BY <4>1, <4>2, <4>3 DEF Live
    <3>2. CASE a = Wallet
      <4>1. accts[a] = [type |-> "CASH", start |-> 20, archived |-> FALSE, status |-> "ACTIVE"]
        BY <1>1, <2>0, <3>2 DEF SeededAccounts
      <4> QED
        BY <3>1, <4>1
    <3>3. CASE a = Broker /\ a # Wallet
      <4>1. accts[a] = [type |-> "INVESTMENT", start |-> 0, archived |-> FALSE, status |-> "ACTIVE"]
        BY <1>1, <2>0, <3>3 DEF SeededAccounts
      <4> QED
        BY <3>1, <4>1
    <3>4. CASE a = Pension /\ a # Wallet /\ a # Broker
      <4>1. accts[a] = [type |-> "ASSET", start |-> 10, archived |-> FALSE, status |-> "ACTIVE"]
        BY <1>1, <3>4 DEF SeededAccounts
      <4> QED
        BY <3>1, <4>1
    <3>5. CASE a \notin {Wallet, Broker, Pension}
      <4>1. accts[a] = None
        BY <1>1, <3>5 DEF SeededAccounts
      <4> QED
        BY <3>5, <4>1
    <3> QED
      BY <3>2, <3>3, <3>4, <3>5
  <2>3. accts = [a \in Accounts |-> accts[a]]
    BY <1>1 DEF SeededAccounts
  <2> QED
    BY <2>1, <2>2, <2>3 DEF LiveAccounts
<1>4. /\ cats \in [Categories -> CategoryRows \cup {None}]
      /\ Salary \in Categories /\ cats[Salary] # None /\ cats[Salary].kind = "INCOME"
      /\ Food \in Categories /\ cats[Food] # None /\ cats[Food].kind = "EXPENSE"
  <2>1. Salary \in Categories /\ Food \in Categories /\ Salary # Food
    BY DemoAssumption
  <2>2. cats[Salary] = [kind |-> "INCOME", status |-> "ACTIVE"] /\ cats[Food] = [kind |-> "EXPENSE", status |-> "ACTIVE"]
    BY <1>1, <2>1 DEF SeededCategories
  <2>3. cats[Salary] \in CategoryRows /\ cats[Food] \in CategoryRows
    BY <2>2 DEF CategoryRows, CategoryKinds, Status
  <2>4. \A c \in Categories \ {Salary, Food} : cats[c] = None
    BY <1>1 DEF SeededCategories
  <2>5. cats = [c \in Categories |-> cats[c]]
    BY <1>1 DEF SeededCategories
  <2>6. \A c \in Categories : cats[c] \in CategoryRows \cup {None}
    BY <2>3, <2>4
  <2>7. cats \in [Categories -> CategoryRows \cup {None}]
    BY <2>5, <2>6
  <2> QED
    BY <2>1, <2>2, <2>3, <2>7, NoneAssumption
<1>5. fixed \in [Fixed -> Status \cup {None}]
  BY <1>1 DEF SeededFixed, Status
<1>6. /\ txs \in [TxIds -> TxRows \cup {None}]
      /\ \A t \in Entered : /\ txs[t].type # "TRANSFER" => txs[t].to = None
                            /\ txs[t].cat # None => /\ cats[txs[t].cat] # None
                                                    /\ Suits(txs[t].type, cats[txs[t].cat].kind)
                            /\ txs[t].from \in LiveAccounts
  <2> DEFINE Good(row) == /\ row \in TxRows
                          /\ row.type # "TRANSFER" => row.to = None
                          /\ row.cat # None => cats[row.cat] # None /\ Suits(row.type, cats[row.cat].kind)
                          /\ row.from \in LiveAccounts
  <2>0. Wallet \in Accounts /\ Broker \in Accounts /\ Pension \in Accounts /\ Rent \in Fixed
    BY DemoAssumption
  <2>1. Good([type |-> "INCOME", amount |-> 9, date |-> ThisMonth - 1, from |-> Wallet, to |-> None,
              cat |-> Salary, fixed |-> None, dir |-> None])
    BY <1>2, <1>3, <1>4, <2>0 DEF TxRows, TxTypes, Earning, Spending, Suits
  <2>2. Good([type |-> "FIXED_EXPENSE", amount |-> 2, date |-> ThisMonth, from |-> Wallet, to |-> None,
              cat |-> Food, fixed |-> Rent, dir |-> None])
    BY <1>2, <1>3, <1>4, <2>0 DEF TxRows, TxTypes, Earning, Spending, Suits
  <2>3. Good([type |-> "EXPENSE", amount |-> 1, date |-> ThisMonth - 1, from |-> Wallet, to |-> None,
              cat |-> Food, fixed |-> None, dir |-> None])
    BY <1>2, <1>3, <1>4, <2>0 DEF TxRows, TxTypes, Earning, Spending, Suits
  <2>4. Good([type |-> "TRANSFER", amount |-> 4, date |-> ThisMonth - 1, from |-> Wallet, to |-> Broker,
              cat |-> None, fixed |-> None, dir |-> None])
    BY <1>2, <1>3, <2>0 DEF TxRows, TxTypes, Earning, Spending
  <2>5. Good([type |-> "VALUATION", amount |-> 1, date |-> ThisMonth, from |-> Pension, to |-> None,
              cat |-> None, fixed |-> None, dir |-> "INCREASE"])
    BY <1>2, <1>3, <2>0 DEF TxRows, TxTypes, Earning, Spending, Directions
  <2>6. \A t \in TxIds : t \notin {1, 2, 3, 4, 5} => txs[t] = None
    BY <1>1 DEF SeededTransactions
  <2>7. txs[1] = [type |-> "INCOME", amount |-> 9, date |-> ThisMonth - 1, from |-> Wallet, to |-> None,
                  cat |-> Salary, fixed |-> None, dir |-> None]
    BY <1>1, <1>2 DEF SeededTransactions
  <2>8. txs[2] = [type |-> "FIXED_EXPENSE", amount |-> 2, date |-> ThisMonth, from |-> Wallet, to |-> None,
                  cat |-> Food, fixed |-> Rent, dir |-> None]
    BY <1>1, <1>2 DEF SeededTransactions
  <2>9. txs[3] = [type |-> "EXPENSE", amount |-> 1, date |-> ThisMonth - 1, from |-> Wallet, to |-> None,
                  cat |-> Food, fixed |-> None, dir |-> None]
    BY <1>1, <1>2 DEF SeededTransactions
  <2>10. txs[4] = [type |-> "TRANSFER", amount |-> 4, date |-> ThisMonth - 1, from |-> Wallet, to |-> Broker,
                   cat |-> None, fixed |-> None, dir |-> None]
    BY <1>1, <1>2 DEF SeededTransactions
  <2>11. txs[5] = [type |-> "VALUATION", amount |-> 1, date |-> ThisMonth, from |-> Pension, to |-> None,
                   cat |-> None, fixed |-> None, dir |-> "INCREASE"]
    BY <1>1, <1>2 DEF SeededTransactions
  <2> HIDE DEF Good
  <2>12. \A t \in TxIds : txs[t] = None \/ Good(txs[t])
    BY <2>1, <2>2, <2>3, <2>4, <2>5, <2>6, <2>7, <2>8, <2>9, <2>10, <2>11
  <2> USE DEF Good
  <2>13. txs = [t \in TxIds |-> txs[t]]
    BY <1>1 DEF SeededTransactions
  <2>14. \A t \in TxIds : txs[t] \in TxRows \cup {None}
    BY <2>12
  <2>15. txs \in [TxIds -> TxRows \cup {None}]
    BY <2>13, <2>14
  <2> QED
    BY <2>12, <2>15 DEF Entered
<1>7. items \in [Items -> ItemRows \cup {None}] /\ \A i \in ActiveItems : items[i].acct \in LiveAccounts
  <2>1. Gold \in Items /\ Broker \in Accounts /\ 2 \in Prices
    BY DemoAssumption
  <2>2. [acct |-> Broker, price |-> 2, archived |-> FALSE, status |-> "ACTIVE"] \in ItemRows
    BY <2>1 DEF ItemRows, Status
  <2>3. \A i \in Items : items[i] = IF i = Gold THEN [acct |-> Broker, price |-> 2, archived |-> FALSE, status |-> "ACTIVE"] ELSE None
    BY <1>1 DEF SeededItems
  <2>4. \A i \in ActiveItems : i \in Items /\ items[i] # None
    BY DEF ActiveItems, Live
  <2>5. \A i \in ActiveItems : items[i].acct = Broker
    BY <2>3, <2>4
  <2>6. items = [i \in Items |-> items[i]]
    BY <1>1 DEF SeededItems
  <2>7. \A i \in Items : items[i] \in ItemRows \cup {None}
    BY <2>2, <2>3
  <2>8. items \in [Items -> ItemRows \cup {None}]
    BY <2>6, <2>7
  <2> QED
    BY <1>3, <2>5, <2>8
<1>8. trades \in [TradeIds -> TradeRows \cup {None}]
  <2>1. Gold \in Items /\ Broker \in Accounts
    BY DemoAssumption
  <2>2. [item |-> Gold, acct |-> Broker, type |-> "BUY", date |-> ThisMonth - 1] \in TradeRows
    BY <1>2, <2>1 DEF TradeRows
  <2> QED
    BY <1>1, <2>2 DEF SeededTrades
<1>9. Tables
  BY <1>3, <1>6, <1>7, <1>8 DEF Tables
<1>10. /\ \A k \in DOMAIN snaps : k \in Accounts \X Months /\ snaps[k] \in Int /\ accts[k[1]] # None
       /\ \A k \in DOMAIN hist : /\ k \in Items \X Months /\ hist[k] \in [acct : Accounts, valuation : Nat]
                                 /\ <<hist[k].acct, k[2]>> \in DOMAIN snaps
  <2>1. PICK m \in Months : m = ThisMonth - 1
    BY <1>2
  <2>2. PICK price \in [Items -> Nat] : price = [i \in Items |-> 2]
    OBVIOUS
  <2>3. snaps = SnapshotRows(m, price) /\ hist = HistoryRows(m, price)
    BY <1>1, <2>1, <2>2
  <2>4. /\ DOMAIN snaps = Scope \X {m} /\ Scope \in SUBSET LiveAccounts
        /\ \A k \in Scope \X {m} : snaps[k] \in Int
        /\ \A k \in DOMAIN hist : k \in Items \X {m} /\ hist[k] \in [acct : Accounts, valuation : Nat]
                                  /\ hist[k].acct \in Scope
    BY <1>9, <2>3, SnapshotTypes
  <2>5. \A a \in Scope : a \in Accounts /\ accts[a] # None
    BY <1>9, <2>4, LiveRows
  <2> QED
    BY <2>4, <2>5
<1>11. left \in 0..Budget /\ bent \subseteq TxIds /\ bent \subseteq Entered
  BY <1>1, BoundsAssumption
<1>12. \A t \in TxIds : txs[t] # None /\ txs[t].type # "TRANSFER" => txs[t].to = None
  BY <1>6 DEF Entered
<1>13. TypeOK
  BY <1>3, <1>4, <1>5, <1>6, <1>7, <1>8, <1>10, <1>11, <1>12 DEF TypeOK
<1>14. Sorted /\ Owned
  BY <1>6, <1>7, <1>10, <1>11 DEF Sorted, Owned
<1> QED
  BY <1>13, <1>14 DEF IInv

\* What a request may write as a row of transactions
Fits(row) ==
    /\ row \in TxRows /\ row.from \in LiveAccounts
    /\ row.type # "TRANSFER" => row.to = None
    /\ row.cat # None => /\ cats[row.cat] # None
                         /\ Suits(row.type, cats[row.cat].kind) \/ row.type \in {"TRANSFER", "VALUATION"}

\* A transaction is created from a row that fits.
LEMMA Creates ==
    ASSUME TypeOK, CreateTransaction
    PROVE  \E t \in TxIds : \E row : /\ t \notin Entered /\ Fits(row) /\ txs' = [txs EXCEPT ![t] = row]
                                     /\ row.cat # None => row.type \notin {"TRANSFER", "VALUATION"}
<1>1. PICK t \in FreeTx, type \in TxTypes, date \in Dates, from \in Accounts, to \in Accounts \cup {None},
           cat \in Categories \cup {None}, fix \in Fixed \cup {None}, dir \in Directions \cup {None} :
        /\ WellFormed(type, from, to, cat, fix, dir)
        /\ Valid(type, from, to, cat, fix)
        /\ txs' = [txs EXCEPT ![t] = [type |-> type, amount |-> Amount, date |-> date, from |-> from,
                                      to |-> to, cat |-> cat, fixed |-> fix, dir |-> dir]]
  BY DEF CreateTransaction
<1>2. PICK row : row = [type |-> type, amount |-> Amount, date |-> date, from |-> from,
                        to |-> to, cat |-> cat, fixed |-> fix, dir |-> dir]
  OBVIOUS
<1>3. row \in TxRows
  BY <1>2, BoundsAssumption DEF TxRows, Months
<1>4. row.type = type /\ row.from = from /\ row.to = to /\ row.cat = cat
  BY <1>2
<1>5. from \in LiveAccounts
  <2>1. from # None
    BY NoneAssumption
  <2> QED
    BY <1>1, <2>1 DEF Valid, LiveAccounts
<1>6. type # "TRANSFER" => to = None
  BY <1>1 DEF WellFormed
<1>7. cat # None => type \notin {"TRANSFER", "VALUATION"} /\ Live(cats[cat]) /\ KindMatches(type, cats[cat].kind)
  BY <1>1 DEF WellFormed, Valid
<1>8. cat # None => cats[cat] # None /\ Suits(type, cats[cat].kind)
  BY <1>7 DEF Live, KindMatches, Suits, TxTypes, Earning, Spending
<1>9. t \in TxIds /\ t \notin Entered
  BY DEF FreeTx, Entered
<1> QED
  BY <1>1, <1>2, <1>3, <1>4, <1>5, <1>6, <1>7, <1>8, <1>9 DEF Fits

\* A transaction is updated to a row that fits; the category of a transfer or of a
\* revaluation bends it.
LEMMA Updates ==
    ASSUME TypeOK, UpdateTransaction
    PROVE  \E t \in Entered : \E row :
              /\ Fits(row) /\ txs' = [txs EXCEPT ![t] = row]
              /\ bent' = IF row.cat # None /\ row.type \in {"TRANSFER", "VALUATION"} THEN bent \cup {t} ELSE bent \ {t}
<1> DEFINE Choice(f, named, t, S) == IF f \in named THEN S ELSE {txs[t][f]}
<1>1. PICK t \in Entered, named \in Namings :
        \E type \in Choice("type", named, t, TxTypes), amount \in Choice("amount", named, t, {Amount}),
           date \in Choice("date", named, t, Dates), from \in Choice("from", named, t, Accounts),
           to \in Choice("to", named, t, Accounts), cat \in Choice("cat", named, t, Categories),
           fix \in Choice("fixed", named, t, Fixed), dir \in Choice("dir", named, t, Directions) :
           /\ {"from", "to"} \subseteq named => from # to
           /\ Valid(type, from, to, cat, fix)
           /\ type = "TRANSFER" => to # None /\ to # from
           /\ txs' = [txs EXCEPT ![t] = Normalised(
                         [type |-> type, amount |-> amount, date |-> date, from |-> from,
                          to |-> to, cat |-> cat, fixed |-> fix, dir |-> dir])]
           /\ bent' = IF cat # None /\ type \in {"TRANSFER", "VALUATION"}
                      THEN bent \cup {t} ELSE bent \ {t}
  BY Zenon DEF UpdateTransaction
<1>2. txs[t] \in TxRows
  BY DEF TypeOK, Entered
<1>3. PICK type \in Choice("type", named, t, TxTypes), amount \in Choice("amount", named, t, {Amount}),
           date \in Choice("date", named, t, Dates), from \in Choice("from", named, t, Accounts),
           to \in Choice("to", named, t, Accounts), cat \in Choice("cat", named, t, Categories),
           fix \in Choice("fixed", named, t, Fixed), dir \in Choice("dir", named, t, Directions) :
           /\ {"from", "to"} \subseteq named => from # to
           /\ Valid(type, from, to, cat, fix)
           /\ type = "TRANSFER" => to # None /\ to # from
           /\ txs' = [txs EXCEPT ![t] = Normalised(
                         [type |-> type, amount |-> amount, date |-> date, from |-> from,
                          to |-> to, cat |-> cat, fixed |-> fix, dir |-> dir])]
           /\ bent' = IF cat # None /\ type \in {"TRANSFER", "VALUATION"}
                      THEN bent \cup {t} ELSE bent \ {t}
  BY <1>1, Zenon
<1>4. /\ type \in TxTypes /\ amount \in Nat /\ date \in Months /\ from \in Accounts /\ to \in Accounts \cup {None}
      /\ cat \in Categories \cup {None} /\ fix \in Fixed \cup {None} /\ dir \in Directions \cup {None}
  <2>1. /\ txs[t].type \in TxTypes /\ txs[t].amount \in Nat /\ txs[t].date \in Months /\ txs[t].from \in Accounts
        /\ txs[t].to \in Accounts \cup {None} /\ txs[t].cat \in Categories \cup {None}
        /\ txs[t].fixed \in Fixed \cup {None} /\ txs[t].dir \in Directions \cup {None}
    BY <1>2 DEF TxRows
  <2>2. Amount \in Nat /\ Dates \subseteq Months
    BY BoundsAssumption DEF Months
  <2> QED
    BY <2>1, <2>2
<1> HIDE DEF Choice
<1>5. PICK plain : plain = [type |-> type, amount |-> amount, date |-> date, from |-> from,
                            to |-> to, cat |-> cat, fixed |-> fix, dir |-> dir]
  OBVIOUS
<1>6. PICK row : row = Normalised(plain)
  OBVIOUS
<1>7. /\ row \in TxRows /\ row.type = type /\ row.from = from /\ row.cat = cat
      /\ type # "TRANSFER" => row.to = None
  <2>1. plain \in TxRows /\ plain.type = type /\ plain.from = from /\ plain.cat = cat
    BY <1>4, <1>5 DEF TxRows
  <2>2. CASE type = "TRANSFER"
    BY <1>6, <2>1, <2>2 DEF Normalised
  <2>3. CASE type # "TRANSFER"
    <3>1. row = [plain EXCEPT !.to = None]
      BY <1>6, <2>1, <2>3 DEF Normalised
    <3>2. row = [type |-> type, amount |-> amount, date |-> date, from |-> from,
                 to |-> None, cat |-> cat, fixed |-> fix, dir |-> dir]
      BY <1>5, <3>1
    <3> QED
      BY <1>4, <3>2 DEF TxRows
  <2> QED
    BY <2>2, <2>3
<1>8. from \in LiveAccounts
  <2>1. from # None
    BY <1>4, NoneAssumption
  <2> QED
    BY <1>3, <1>4, <2>1 DEF Valid, LiveAccounts
<1>9. cat # None => cats[cat] # None /\ (Suits(type, cats[cat].kind) \/ type \in {"TRANSFER", "VALUATION"})
  BY <1>3, <1>4 DEF Valid, Live, KindMatches, Suits, TxTypes, Earning, Spending
<1>10. Fits(row)
  BY <1>7, <1>8, <1>9 DEF Fits
<1>11. txs' = [txs EXCEPT ![t] = row]
  BY <1>3, <1>5, <1>6
<1> QED
  BY <1>3, <1>7, <1>10, <1>11

\* The table of transactions stays one when a row that fits is written.
LEMMA WritesRow ==
    ASSUME IInv, NEW t \in TxIds, NEW row, Fits(row), txs' = [txs EXCEPT ![t] = row], UNCHANGED <<accts, cats>>,
           bent' \subseteq bent \cup {t}, bent \ {t} \subseteq bent',
           row.cat # None /\ row.type \in {"TRANSFER", "VALUATION"} => t \in bent'
    PROVE  /\ txs' \in [TxIds -> TxRows \cup {None}]
           /\ \A s \in TxIds : txs'[s] # None /\ txs'[s].type # "TRANSFER" => txs'[s].to = None
           /\ Sorted'
           /\ \A s \in Entered' : txs'[s].type \in Earning \cup Spending => txs'[s].from \in LiveAccounts'
<1>1. txs \in [TxIds -> TxRows \cup {None}] /\ row \in TxRows /\ row # None
  <2>1. row \in TxRows /\ None \notin TxRows
    BY NoneAssumption DEF Fits
  <2> QED
    BY <2>1 DEF IInv, TypeOK
<1>2. txs'[t] = row /\ \A s \in TxIds \ {t} : txs'[s] = txs[s]
  BY <1>1
<1>3. Entered' = Entered \cup {t} /\ LiveAccounts' = LiveAccounts
  <2>1. Entered' = {s \in TxIds : txs'[s] # None}
    BY DEF Entered
  <2>2. \A s \in TxIds : txs'[s] # None <=> (s = t \/ txs[s] # None)
    BY <1>1, <1>2
  <2> QED
    BY <2>1, <2>2 DEF Entered, LiveAccounts
<1>4. txs' \in [TxIds -> TxRows \cup {None}]
  BY <1>1
<1>5. \A s \in TxIds : txs'[s] # None /\ txs'[s].type # "TRANSFER" => txs'[s].to = None
  BY <1>2 DEF IInv, TypeOK, Fits
<1>6. \A s \in Entered' : txs'[s].cat # None =>
        cats'[txs'[s].cat] # None /\ (s \notin bent' => Suits(txs'[s].type, cats'[txs'[s].cat].kind))
  <2> SUFFICES ASSUME NEW s \in Entered', txs'[s].cat # None
               PROVE  cats'[txs'[s].cat] # None /\ (s \notin bent' => Suits(txs'[s].type, cats'[txs'[s].cat].kind))
    OBVIOUS
  <2>1. CASE s = t
    BY <1>2, <2>1 DEF Fits
  <2>2. CASE s # t
    <3>1. s \in Entered /\ txs'[s] = txs[s] /\ (s \notin bent' => s \notin bent)
      BY <1>2, <1>3, <2>2 DEF Entered
    <3> QED
      BY <3>1 DEF IInv, Sorted
  <2> QED
    BY <2>1, <2>2
<1>7. bent' \subseteq Entered'
  BY <1>3 DEF IInv, Sorted
<1>8. Sorted'
  BY <1>6, <1>7 DEF Sorted
<1>9. ASSUME NEW s \in Entered', txs'[s].type \in Earning \cup Spending PROVE txs'[s].from \in LiveAccounts'
  <2>1. CASE s = t
    BY <1>2, <1>3, <2>1 DEF Fits
  <2>2. CASE s # t
    <3>1. s \in Entered /\ txs'[s] = txs[s]
      BY <1>2, <1>3, <2>2 DEF Entered
    <3> QED
      BY <1>3, <1>9, <3>1 DEF IInv, Owned
  <2> QED
    BY <2>1, <2>2
<1> QED
  BY <1>4, <1>5, <1>8, <1>9

\* A category in use keeps what is in order, unless its kind changes under its rows.
LEMMA KeepsSorted ==
    ASSUME IInv, UNCHANGED txs, bent \subseteq bent', bent' \subseteq Entered,
           \A c \in Categories : cats[c] # None =>
              cats'[c] # None /\ (cats'[c].kind = cats[c].kind \/ \A t \in Entered : txs[t].cat = c => t \in bent')
    PROVE  Sorted'
<1>1. Entered' = Entered
  BY DEF Entered
<1>2. ASSUME NEW t \in Entered', txs'[t].cat # None
      PROVE  cats'[txs'[t].cat] # None /\ (t \notin bent' => Suits(txs'[t].type, cats'[txs'[t].cat].kind))
  <2>1. t \in Entered /\ txs'[t] = txs[t] /\ (t \notin bent' => t \notin bent)
    BY <1>1
  <2>2. txs[t].cat \in Categories
    <3>1. txs[t] \in TxRows
      BY <2>1 DEF IInv, TypeOK, Entered
    <3> QED
      BY <1>2, <2>1, <3>1, RowFields
  <2>3. cats[txs[t].cat] # None /\ (t \notin bent => Suits(txs[t].type, cats[txs[t].cat].kind))
    BY <1>2, <2>1 DEF IInv, Sorted
  <2> QED
    BY <2>1, <2>2, <2>3
<1> QED
  BY <1>1, <1>2 DEF Sorted

\* Rows and what they are under stay in order with every request.
LEMMA SortedStep == ASSUME IInv, Next PROVE Sorted'
<1> USE DEF BooksOnly, StocksOnly
<1>1. TypeOK /\ Sorted
  BY DEF IInv
<1>2. CASE CreateTransaction
  <2>1. PICK t \in TxIds : \E row : /\ t \notin Entered /\ Fits(row) /\ txs' = [txs EXCEPT ![t] = row]
                                    /\ row.cat # None => row.type \notin {"TRANSFER", "VALUATION"}
    BY <1>1, <1>2, Creates
  <2> QED
    BY <1>2, <2>1, WritesRow DEF CreateTransaction
<1>3. CASE UpdateTransaction
  <2>1. PICK t \in Entered : \E row :
           /\ Fits(row) /\ txs' = [txs EXCEPT ![t] = row]
           /\ bent' = IF row.cat # None /\ row.type \in {"TRANSFER", "VALUATION"} THEN bent \cup {t} ELSE bent \ {t}
    BY <1>1, <1>3, Updates
  <2>2. t \in TxIds
    BY DEF Entered
  <2> QED
    BY <1>3, <2>1, <2>2, WritesRow DEF UpdateTransaction
<1>4. CASE DeleteTransaction
  <2>1. PICK t \in Entered : txs' = [txs EXCEPT ![t] = None] /\ bent' = bent \ {t}
    BY <1>4 DEF DeleteTransaction
  <2>2. Entered' = Entered \ {t} /\ \A s \in Entered' : txs'[s] = txs[s]
    <3>1. \A s \in TxIds : txs'[s] = IF s = t THEN None ELSE txs[s]
      BY <1>1, <2>1 DEF TypeOK
    <3> QED
      BY <3>1 DEF Entered
  <2> QED
    BY <1>1, <1>4, <2>1, <2>2 DEF Sorted, DeleteTransaction
<1>5. CASE DeleteAccount
  <2>1. PICK a \in LiveAccounts : /\ txs' = [t \in TxIds |-> IF t \in Doomed(a) THEN None ELSE txs[t]]
                                  /\ bent' = bent \ Doomed(a)
    BY <1>5 DEF DeleteAccount
  <2>2. Entered' = Entered \ Doomed(a) /\ \A s \in Entered' : txs'[s] = txs[s]
    BY <2>1 DEF Entered
  <2> QED
    BY <1>1, <1>5, <2>1, <2>2 DEF Sorted, DeleteAccount
<1>6. CASE CreateCategory
  <2>1. PICK c \in Categories : cats[c] = None /\ \E row : cats' = [cats EXCEPT ![c] = row]
    BY <1>6 DEF CreateCategory
  <2>2. \A d \in Categories : cats[d] # None => cats'[d] = cats[d]
    BY <1>1, <2>1 DEF TypeOK
  <2> QED
    BY <1>1, <1>6, <2>2, KeepsSorted DEF CreateCategory, Sorted
<1>7. CASE UpdateCategory
  <2>1. PICK c \in Categories, kind \in CategoryKinds :
          Live(cats[c]) /\ cats' = [cats EXCEPT ![c].kind = kind] /\ bent' = bent \cup {t \in Entered : txs[t].cat = c}
    BY <1>7 DEF UpdateCategory
  <2>2. cats'[c] # None /\ \A d \in Categories : d # c => cats'[d] = cats[d]
    <3>1. cats[c] \in CategoryRows
      BY <1>1, <2>1 DEF TypeOK, Live
    <3>2. [cats[c] EXCEPT !.kind = kind] \in CategoryRows
      BY <3>1 DEF CategoryRows
    <3> QED
      BY <1>1, <2>1, <3>2, NoneAssumption DEF TypeOK
  <2>3. \A d \in Categories : cats[d] # None =>
          cats'[d] # None /\ (cats'[d].kind = cats[d].kind \/ \A t \in Entered : txs[t].cat = d => t \in bent')
    BY <2>1, <2>2
  <2> QED
    BY <1>1, <1>7, <2>1, <2>3, KeepsSorted DEF UpdateCategory, Sorted
<1>8. CASE DeleteCategory
  <2>1. PICK c \in Categories : Live(cats[c]) /\ cats' = [cats EXCEPT ![c].status = "DELETED"]
    BY <1>8 DEF DeleteCategory
  <2>2. \A d \in Categories : cats[d] # None => cats'[d] # None /\ cats'[d].kind = cats[d].kind
    <3>1. cats[c] \in CategoryRows
      BY <1>1, <2>1 DEF TypeOK, Live
    <3>2. [cats[c] EXCEPT !.status = "DELETED"] \in CategoryRows /\ [cats[c] EXCEPT !.status = "DELETED"].kind = cats[c].kind
      BY <3>1 DEF CategoryRows, Status
    <3> QED
      BY <1>1, <2>1, <3>2, NoneAssumption DEF TypeOK
  <2> QED
    BY <1>1, <1>8, <2>2, KeepsSorted DEF DeleteCategory, Sorted
<1>9. ASSUME UNCHANGED <<txs, cats, bent>> PROVE Sorted'
  BY <1>1, <1>9 DEF Sorted, Entered
<1> QED
  BY <1>2, <1>3, <1>4, <1>5, <1>6, <1>7, <1>8, <1>9
     DEF Next, CreateFixed, DeleteFixed, CreateAccount, UpdateAccount, CreateItem, UpdateItem, DeleteItem, Buy, Sell, Snapshot

\* Accounts that are in use stay in use until they are deleted.
LEMMA AccountsKept ==
    ASSUME IInv, Next
    PROVE  /\ accts' \in [Accounts -> AccountRows \cup {None}]
           /\ \A a \in Accounts : accts[a] # None => accts'[a] # None
           /\ ~DeleteAccount => LiveAccounts \subseteq LiveAccounts'
<1> USE DEF BooksOnly, StocksOnly
<1>1. accts \in [Accounts -> AccountRows \cup {None}] /\ \A a \in LiveAccounts : a \in Accounts /\ accts[a] \in AccountRows
      /\ accts[a].status = "ACTIVE"
  BY DEF IInv, TypeOK, LiveAccounts, Live
<1>2. ASSUME NEW a \in Accounts, NEW row \in AccountRows, accts' = [accts EXCEPT ![a] = row],
             a \in LiveAccounts => row.status = "ACTIVE" \/ DeleteAccount
      PROVE  /\ accts' \in [Accounts -> AccountRows \cup {None}]
             /\ \A b \in Accounts : accts[b] # None => accts'[b] # None
             /\ ~DeleteAccount => LiveAccounts \subseteq LiveAccounts'
  <2>1. row # None
    BY NoneAssumption
  <2>2. accts' \in [Accounts -> AccountRows \cup {None}] /\ \A b \in Accounts : accts'[b] = IF b = a THEN row ELSE accts[b]
    BY <1>1, <1>2
  <2>3. ASSUME ~DeleteAccount, NEW b \in LiveAccounts PROVE b \in LiveAccounts'
    BY <1>1, <1>2, <2>1, <2>2, <2>3 DEF LiveAccounts, Live
  <2> QED
    BY <2>1, <2>2, <2>3
<1>3. CASE CreateAccount
  <2>1. PICK a \in Accounts, type \in AccountTypes :
          accts' = [accts EXCEPT ![a] = [type |-> type, start |-> Amount, archived |-> FALSE, status |-> "ACTIVE"]]
    BY <1>3 DEF CreateAccount
  <2>2. PICK row : row = [type |-> type, start |-> Amount, archived |-> FALSE, status |-> "ACTIVE"]
    OBVIOUS
  <2>3. row \in AccountRows /\ row.status = "ACTIVE"
    BY <2>2, BoundsAssumption DEF AccountRows, Status
  <2> QED
    BY <1>2, <2>1, <2>2, <2>3
<1>4. CASE UpdateAccount
  <2>1. PICK a \in LiveAccounts :
          \/ \E type \in AccountTypes : accts' = [accts EXCEPT ![a].type = type]
          \/ accts' = [accts EXCEPT ![a].start = Amount]
          \/ accts' = [accts EXCEPT ![a].archived = ~accts[a].archived]
    BY <1>4 DEF UpdateAccount
  <2>2. a \in Accounts /\ accts[a] \in AccountRows /\ accts[a].status = "ACTIVE"
    BY <1>1
  <2>3. CASE \E type \in AccountTypes : accts' = [accts EXCEPT ![a].type = type]
    <3>1. PICK type \in AccountTypes : accts' = [accts EXCEPT ![a] = [accts[a] EXCEPT !.type = type]]
      BY <2>3
    <3>2. [accts[a] EXCEPT !.type = type] \in AccountRows /\ [accts[a] EXCEPT !.type = type].status = "ACTIVE"
      BY <2>2 DEF AccountRows
    <3> QED
      BY <1>2, <2>2, <3>1, <3>2
  <2>4. CASE accts' = [accts EXCEPT ![a].start = Amount]
    <3>1. accts' = [accts EXCEPT ![a] = [accts[a] EXCEPT !.start = Amount]]
      BY <2>4
    <3>2. [accts[a] EXCEPT !.start = Amount] \in AccountRows /\ [accts[a] EXCEPT !.start = Amount].status = "ACTIVE"
      BY <2>2, BoundsAssumption DEF AccountRows
    <3> QED
      BY <1>2, <2>2, <3>1, <3>2
  <2>5. CASE accts' = [accts EXCEPT ![a].archived = ~accts[a].archived]
    <3>1. accts' = [accts EXCEPT ![a] = [accts[a] EXCEPT !.archived = ~accts[a].archived]]
      BY <2>5
    <3>2. [accts[a] EXCEPT !.archived = ~accts[a].archived] \in AccountRows
          /\ [accts[a] EXCEPT !.archived = ~accts[a].archived].status = "ACTIVE"
      BY <2>2 DEF AccountRows
    <3> QED
      BY <1>2, <2>2, <3>1, <3>2
  <2> QED
    BY <2>1, <2>3, <2>4, <2>5
<1>5. CASE DeleteAccount
  <2>1. PICK a \in LiveAccounts : accts' = [accts EXCEPT ![a] = [accts[a] EXCEPT !.status = "DELETED"]]
    BY <1>5 DEF DeleteAccount
  <2>2. a \in Accounts /\ [accts[a] EXCEPT !.status = "DELETED"] \in AccountRows
    BY <1>1 DEF AccountRows, Status
  <2> QED
    BY <1>2, <1>5, <2>1, <2>2
<1>6. ASSUME UNCHANGED accts
      PROVE  accts' \in [Accounts -> AccountRows \cup {None}] /\ LiveAccounts \subseteq LiveAccounts'
  BY <1>1, <1>6 DEF LiveAccounts
<1> QED
  BY <1>3, <1>4, <1>5, <1>6
     DEF Next, CreateFixed, DeleteFixed, CreateTransaction, UpdateTransaction, DeleteTransaction, CreateCategory,
         UpdateCategory, DeleteCategory, CreateItem, UpdateItem, DeleteItem, Buy, Sell, Snapshot

\* What each request leaves of transactions: their rows, their destinations and, of income
\* and expenses, an account in use.
LEMMA TransactionsKept ==
    ASSUME IInv, Next
    PROVE  /\ txs' \in [TxIds -> TxRows \cup {None}]
           /\ \A t \in TxIds : txs'[t] # None /\ txs'[t].type # "TRANSFER" => txs'[t].to = None
           /\ \A t \in Entered' : txs'[t].type \in Earning \cup Spending => txs'[t].from \in LiveAccounts'
<1> USE DEF BooksOnly, StocksOnly
<1>1. /\ txs \in [TxIds -> TxRows \cup {None}]
      /\ \A t \in TxIds : txs[t] # None /\ txs[t].type # "TRANSFER" => txs[t].to = None
      /\ \A t \in Entered : txs[t].type \in Earning \cup Spending => txs[t].from \in LiveAccounts
  BY DEF IInv, TypeOK, Owned
<1>2. CASE CreateTransaction
  <2>1. PICK t \in TxIds : \E row : /\ t \notin Entered /\ Fits(row) /\ txs' = [txs EXCEPT ![t] = row]
                                    /\ row.cat # None => row.type \notin {"TRANSFER", "VALUATION"}
    BY <1>2, Creates DEF IInv
  <2> QED
    BY <1>2, <2>1, WritesRow DEF CreateTransaction
<1>3. CASE UpdateTransaction
  <2>1. PICK t \in Entered : \E row :
           /\ Fits(row) /\ txs' = [txs EXCEPT ![t] = row]
           /\ bent' = IF row.cat # None /\ row.type \in {"TRANSFER", "VALUATION"} THEN bent \cup {t} ELSE bent \ {t}
    BY <1>3, Updates DEF IInv
  <2>2. t \in TxIds
    BY DEF Entered
  <2> QED
    BY <1>3, <2>1, <2>2, WritesRow DEF UpdateTransaction
<1>4. CASE DeleteTransaction
  <2>1. PICK t \in Entered : txs' = [txs EXCEPT ![t] = None]
    BY <1>4 DEF DeleteTransaction
  <2>2. \A s \in TxIds : txs'[s] = IF s = t THEN None ELSE txs[s]
    BY <1>1, <2>1
  <2>3. txs' \in [TxIds -> TxRows \cup {None}]
    BY <1>1, <2>1
  <2>4. Entered' \in SUBSET Entered /\ (\A s \in Entered' : txs'[s] = txs[s]) /\ LiveAccounts' = LiveAccounts
    BY <1>4, <2>2 DEF Entered, LiveAccounts, DeleteTransaction
  <2> QED
    BY <1>1, <2>2, <2>3, <2>4
<1>5. CASE DeleteAccount
  <2>1. PICK a \in LiveAccounts :
          /\ accts' = [accts EXCEPT ![a].status = "DELETED"]
          /\ txs' = [t \in TxIds |-> IF t \in Doomed(a) THEN None ELSE txs[t]]
    BY <1>5 DEF DeleteAccount
  <2>2. txs' \in [TxIds -> TxRows \cup {None}]
    BY <1>1, <2>1
  <2>3. Entered' = Entered \ Doomed(a) /\ \A s \in Entered' : txs'[s] = txs[s]
    BY <2>1 DEF Entered
  <2>4. \A b \in LiveAccounts : b # a => b \in LiveAccounts'
    <3>1. \A b \in Accounts : b # a => accts'[b] = accts[b]
      BY <2>1 DEF IInv, TypeOK
    <3> QED
      BY <3>1 DEF LiveAccounts
  <2>5. ASSUME NEW t \in Entered', txs'[t].type \in Earning \cup Spending PROVE txs'[t].from \in LiveAccounts'
    <3>1. t \in Entered /\ t \notin Doomed(a) /\ txs'[t] = txs[t] /\ t \in TxIds /\ txs[t] # None
      BY <2>3 DEF Entered
    <3>2. txs[t].type # "TRANSFER"
      BY <2>5, <3>1 DEF Earning, Spending
    <3>3. txs[t].to = None /\ txs[t].from \in LiveAccounts
      BY <1>1, <2>5, <3>1, <3>2
    <3>4. txs[t].from # a
      BY <2>5, <3>1, <3>3 DEF Doomed
    <3> QED
      BY <2>4, <3>1, <3>3, <3>4
  <2>6. \A t \in TxIds : txs'[t] # None /\ txs'[t].type # "TRANSFER" => txs'[t].to = None
    BY <1>1, <2>1
  <2> QED
    BY <2>2, <2>5, <2>6
<1>6. ASSUME UNCHANGED txs, ~DeleteAccount
      PROVE  /\ txs' \in [TxIds -> TxRows \cup {None}]
             /\ \A t \in TxIds : txs'[t] # None /\ txs'[t].type # "TRANSFER" => txs'[t].to = None
             /\ \A t \in Entered' : txs'[t].type \in Earning \cup Spending => txs'[t].from \in LiveAccounts'
  BY <1>1, <1>6, AccountsKept DEF Entered
<1> QED
  BY <1>2, <1>3, <1>4, <1>5, <1>6
     DEF Next, CreateFixed, DeleteFixed, CreateCategory, UpdateCategory, DeleteCategory, CreateAccount, UpdateAccount,
         CreateItem, UpdateItem, DeleteItem, Buy, Sell, Snapshot

\* An item in use is in an account in use: it comes into one, and the account cannot be
\* deleted before it.
LEMMA ItemsKept ==
    ASSUME IInv, Next
    PROVE  items' \in [Items -> ItemRows \cup {None}] /\ \A i \in ActiveItems' : items'[i].acct \in LiveAccounts'
<1> USE DEF BooksOnly, StocksOnly
<1>1. /\ items \in [Items -> ItemRows \cup {None}] /\ \A i \in ActiveItems : items[i].acct \in LiveAccounts
      /\ \A i \in ActiveItems : i \in Items /\ items[i] \in ItemRows
  BY DEF IInv, TypeOK, Owned, ActiveItems, Live
<1>2. ASSUME NEW i \in Items, NEW row \in ItemRows, items' = [items EXCEPT ![i] = row], row.acct \in LiveAccounts,
             UNCHANGED accts
      PROVE  items' \in [Items -> ItemRows \cup {None}] /\ \A j \in ActiveItems' : items'[j].acct \in LiveAccounts'
  <2>1. items' \in [Items -> ItemRows \cup {None}] /\ \A j \in Items : items'[j] = IF j = i THEN row ELSE items[j]
    BY <1>1, <1>2
  <2>2. LiveAccounts' = LiveAccounts
    BY <1>2 DEF LiveAccounts
  <2>3. ASSUME NEW j \in ActiveItems' PROVE items'[j].acct \in LiveAccounts
    BY <1>1, <1>2, <2>1, <2>3 DEF ActiveItems
  <2> QED
    BY <2>1, <2>2, <2>3
<1>3. CASE CreateItem
  <2>1. PICK i \in Items, a \in LiveAccounts, price \in Prices :
          items' = [items EXCEPT ![i] = [acct |-> a, price |-> price, archived |-> FALSE, status |-> "ACTIVE"]]
    BY <1>3 DEF CreateItem
  <2>2. PICK row : row = [acct |-> a, price |-> price, archived |-> FALSE, status |-> "ACTIVE"]
    OBVIOUS
  <2>3. row \in ItemRows /\ row.acct = a
    BY <2>2 DEF ItemRows, Status, LiveAccounts
  <2> QED
    BY <1>2, <1>3, <2>1, <2>2, <2>3 DEF CreateItem
<1>4. CASE UpdateItem
  <2>1. PICK i \in ActiveItems, price \in Prices, archived \in BOOLEAN :
          items' = [items EXCEPT ![i].price = price, ![i].archived = archived]
    BY <1>4 DEF UpdateItem
  <2>2. PICK row : row = [items[i] EXCEPT !.price = price, !.archived = archived]
    OBVIOUS
  <2>3. row \in ItemRows /\ row.acct = items[i].acct
    BY <1>1, <2>2 DEF ItemRows
  <2>4. items' = [items EXCEPT ![i] = row]
    <3>1. PICK mid : mid = [items EXCEPT ![i].price = price]
      OBVIOUS
    <3>2. items' = [mid EXCEPT ![i].archived = archived]
      BY <2>1, <3>1
    <3>3. \A j \in Items : mid[j] = IF j = i THEN [items[i] EXCEPT !.price = price] ELSE items[j]
      BY <1>1, <3>1
    <3> QED
      BY <1>1, <2>2, <3>1, <3>2, <3>3
  <2> QED
    BY <1>1, <1>2, <1>4, <2>3, <2>4 DEF UpdateItem
<1>5. CASE DeleteItem \/ Sell
  <2>1. PICK i \in ActiveItems, status \in Status : items' = [items EXCEPT ![i].status = status]
    <3>1. CASE DeleteItem
      BY <3>1 DEF DeleteItem, Status
    <3>2. CASE Sell
      <4>1. PICK k \in FreeTrade, i \in ActiveItems, date \in Dates :
              items' = [items EXCEPT ![i].status = IF Held(i, ThisMonth) = 1 THEN "DELETED" ELSE "ACTIVE"]
        BY <3>2 DEF Sell
      <4>2. PICK status : status = IF Held(i, ThisMonth) = 1 THEN "DELETED" ELSE "ACTIVE"
        OBVIOUS
      <4> QED
        BY <4>1, <4>2 DEF Status
    <3> QED
      BY <1>5, <3>1, <3>2
  <2>2. PICK row : row = [items[i] EXCEPT !.status = status]
    OBVIOUS
  <2>3. row \in ItemRows /\ row.acct = items[i].acct
    BY <1>1, <2>2 DEF ItemRows
  <2>4. items' = [items EXCEPT ![i] = row]
    BY <2>1, <2>2
  <2> QED
    BY <1>1, <1>2, <1>5, <2>3, <2>4 DEF DeleteItem, Sell
<1>6. CASE DeleteAccount
  <2>1. PICK a \in LiveAccounts : /\ \A i \in ActiveItems : items[i].acct # a
                                  /\ accts' = [accts EXCEPT ![a].status = "DELETED"]
    BY <1>6 DEF DeleteAccount
  <2>2. UNCHANGED items
    BY <1>6 DEF DeleteAccount
  <2>3. \A b \in LiveAccounts : b # a => b \in LiveAccounts'
    <3>1. \A b \in Accounts : b # a => accts'[b] = accts[b]
      BY <2>1 DEF IInv, TypeOK
    <3> QED
      BY <3>1 DEF LiveAccounts
  <2>4. ActiveItems' = ActiveItems
    BY <2>2 DEF ActiveItems
  <2> QED
    BY <1>1, <2>1, <2>2, <2>3, <2>4
<1>7. ASSUME UNCHANGED items, ~DeleteAccount
      PROVE  items' \in [Items -> ItemRows \cup {None}] /\ \A i \in ActiveItems' : items'[i].acct \in LiveAccounts'
  BY <1>1, <1>7, AccountsKept DEF ActiveItems
<1> QED
  BY <1>3, <1>4, <1>5, <1>6, <1>7
     DEF Next, CreateFixed, DeleteFixed, CreateTransaction, UpdateTransaction, DeleteTransaction, CreateCategory,
         UpdateCategory, DeleteCategory, CreateAccount, UpdateAccount, Buy, Snapshot

\* Trades stay trades of an item of a table of items.
LEMMA TradesKept == ASSUME IInv, Next PROVE trades' \in [TradeIds -> TradeRows \cup {None}]
<1> USE DEF BooksOnly, StocksOnly
<1>1. trades \in [TradeIds -> TradeRows \cup {None}] /\ \A i \in ActiveItems : i \in Items /\ items[i].acct \in Accounts
  BY DEF IInv, TypeOK, ActiveItems, Live, ItemRows
<1>2. CASE Buy \/ Sell
  <2>1. PICK k \in FreeTrade, i \in ActiveItems, date \in Dates, type \in {"BUY", "SELL"} :
          trades' = [trades EXCEPT ![k] = [item |-> i, acct |-> items[i].acct, type |-> type, date |-> date]]
    BY <1>2 DEF Buy, Sell
  <2>2. [item |-> i, acct |-> items[i].acct, type |-> type, date |-> date] \in TradeRows
    BY <1>1, BoundsAssumption DEF TradeRows, Months
  <2> QED
    BY <1>1, <2>1, <2>2
<1>3. CASE DeleteAccount
  BY <1>1, <1>3 DEF DeleteAccount
<1> QED
  BY <1>1, <1>2, <1>3
     DEF Next, CreateFixed, DeleteFixed, CreateTransaction, UpdateTransaction, DeleteTransaction, CreateCategory,
         UpdateCategory, DeleteCategory, CreateAccount, UpdateAccount, CreateItem, UpdateItem, DeleteItem, Snapshot

\* A snapshot is one of an account there has been, and the value of an item in a month
\* comes with a snapshot of its account.
LEMMA SnapshotsKept ==
    ASSUME IInv, Next
    PROVE  /\ \A k \in DOMAIN snaps' : k \in Accounts \X Months /\ snaps'[k] \in Int /\ accts'[k[1]] # None
           /\ \A k \in DOMAIN hist' : /\ k \in Items \X Months /\ hist'[k] \in [acct : Accounts, valuation : Nat]
                                      /\ <<hist'[k].acct, k[2]>> \in DOMAIN snaps'
<1> USE DEF BooksOnly, StocksOnly
<1>1. /\ \A k \in DOMAIN snaps : k \in Accounts \X Months /\ snaps[k] \in Int /\ accts[k[1]] # None
      /\ \A k \in DOMAIN hist : /\ k \in Items \X Months /\ hist[k] \in [acct : Accounts, valuation : Nat]
                                /\ <<hist[k].acct, k[2]>> \in DOMAIN snaps
  BY DEF IInv, TypeOK, Owned
<1>2. \A a \in Accounts : accts[a] # None => accts'[a] # None
  BY AccountsKept
<1>3. CASE DeleteAccount
  <2>1. PICK a \in LiveAccounts : /\ snaps' = [k \in {j \in DOMAIN snaps : j[1] # a} |-> snaps[k]]
                                  /\ hist' = [k \in {j \in DOMAIN hist : hist[j].acct # a} |-> hist[k]]
    BY <1>3 DEF DeleteAccount
  <2>2. \A k \in DOMAIN snaps' : k \in DOMAIN snaps /\ snaps'[k] = snaps[k] /\ k[1] # a
    BY <2>1
  <2>3. \A k \in DOMAIN hist' : k \in DOMAIN hist /\ hist'[k] = hist[k] /\ hist[k].acct # a
    BY <2>1
  <2>4. \A k \in DOMAIN hist' : <<hist'[k].acct, k[2]>> \in DOMAIN snaps'
    BY <1>1, <2>1, <2>3
  <2> QED
    BY <1>1, <1>2, <2>2, <2>3, <2>4
<1>4. CASE Snapshot
  <2>1. PICK m \in Months, price \in [Items -> Nat] :
          /\ snaps' = Joined(OtherMonths(snaps, m), SnapshotRows(m, price))
          /\ hist' \in {hist, OtherMonths(hist, m), Joined(hist, HistoryRows(m, price)),
                        Joined(OtherMonths(hist, m), HistoryRows(m, price))}
          /\ SnapsOf(m) # {} => hist' \in {OtherMonths(hist, m), Joined(OtherMonths(hist, m), HistoryRows(m, price))}
    <3> DEFINE Older(m) == IF SnapsOf(m) # {} THEN OtherMonths(hist, m) ELSE hist
    <3>1. PICK m \in Months : m = ThisMonth - 1
      BY BoundsAssumption DEF Months
    <3>2. PICK price \in [Items -> Prices] :
            /\ snaps' = Joined(OtherMonths(snaps, m), SnapshotRows(m, price))
            /\ hist' = IF Scope = {} THEN Older(m) ELSE Joined(Older(m), HistoryRows(m, price))
      BY <1>4, <3>1 DEF Snapshot
    <3>3. price \in [Items -> Nat]
      BY BoundsAssumption
    <3> QED
      BY <3>2, <3>3
  <2>2. PICK new, val : new = SnapshotRows(m, price) /\ val = HistoryRows(m, price)
    OBVIOUS
  <2>3. /\ DOMAIN new = Scope \X {m} /\ \A k \in DOMAIN new : k \in Accounts \X {m} /\ new[k] \in Int /\ accts[k[1]] # None
        /\ \A k \in DOMAIN val : k \in Items \X {m} /\ val[k] \in [acct : Accounts, valuation : Nat] /\ val[k].acct \in Scope
    <3>1. Tables
      BY DEF IInv, TypeOK, Tables
    <3>2. Scope \in SUBSET LiveAccounts /\ DOMAIN new = Scope \X {m} /\ (\A k \in DOMAIN new : new[k] \in Int)
      BY <2>2, <3>1, SnapshotTypes
    <3>3. \A a \in Scope : a \in Accounts /\ accts[a] # None
      BY <3>1, <3>2, LiveRows
    <3>4. \A k \in DOMAIN new : k \in Accounts \X {m} /\ accts[k[1]] # None
      BY <3>2, <3>3
    <3> QED
      BY <2>2, <3>1, <3>2, <3>4, SnapshotTypes
  <2>4. /\ DOMAIN snaps' = {k \in DOMAIN snaps : k[2] # m} \cup DOMAIN new
        /\ \A k \in DOMAIN snaps' : snaps'[k] = IF k \in DOMAIN new THEN new[k] ELSE snaps[k]
    BY <2>1, <2>2 DEF Joined, OtherMonths
  <2>5. \A k \in DOMAIN snaps' : k \in Accounts \X Months /\ snaps'[k] \in Int /\ accts'[k[1]] # None
    <3>1. \A k \in DOMAIN new : k[1] \in Accounts /\ k \in Accounts \X Months
      BY <2>3
    <3> QED
      BY <1>1, <1>2, <2>3, <2>4, <3>1
  <2>6. \A k \in DOMAIN hist' : \/ k \in DOMAIN val /\ hist'[k] = val[k]
                                \/ k \in DOMAIN hist /\ hist'[k] = hist[k] /\ (k[2] # m \/ SnapsOf(m) = {})
    BY <2>1, <2>2 DEF Joined, OtherMonths
  <2>7. ASSUME NEW k \in DOMAIN hist'
        PROVE  k \in Items \X Months /\ hist'[k] \in [acct : Accounts, valuation : Nat] /\ <<hist'[k].acct, k[2]>> \in DOMAIN snaps'
    <3>1. CASE k \in DOMAIN val /\ hist'[k] = val[k]
      <4>1. k \in Items \X {m} /\ val[k] \in [acct : Accounts, valuation : Nat] /\ <<val[k].acct, k[2]>> \in DOMAIN new
        BY <2>3, <3>1
      <4> QED
        BY <2>4, <3>1, <4>1
    <3>2. CASE k \in DOMAIN hist /\ hist'[k] = hist[k] /\ (k[2] # m \/ SnapsOf(m) = {})
      <4>1. k \in Items \X Months /\ hist[k] \in [acct : Accounts, valuation : Nat] /\ <<hist[k].acct, k[2]>> \in DOMAIN snaps
        BY <1>1, <3>2
      <4>2. k[2] # m
        BY <3>2, <4>1 DEF SnapsOf
      <4> QED
        BY <2>4, <3>2, <4>1, <4>2
    <3> QED
      BY <2>6, <3>1, <3>2
  <2> QED
    BY <2>5, <2>7
<1> QED
  BY <1>1, <1>2, <1>3, <1>4
     DEF Next, CreateFixed, DeleteFixed, CreateTransaction, UpdateTransaction, DeleteTransaction, CreateCategory,
         UpdateCategory, DeleteCategory, CreateAccount, UpdateAccount, CreateItem, UpdateItem, DeleteItem, Buy, Sell

\* Categories and fixed items stay rows of their tables, and requests are counted.
LEMMA ListsKept ==
    ASSUME IInv, Next
    PROVE  /\ cats' \in [Categories -> CategoryRows \cup {None}] /\ fixed' \in [Fixed -> Status \cup {None}]
           /\ left' \in 0..Budget
<1> USE DEF BooksOnly, StocksOnly
<1>1. cats \in [Categories -> CategoryRows \cup {None}] /\ fixed \in [Fixed -> Status \cup {None}] /\ left \in 0..Budget
  BY DEF IInv, TypeOK
<1>2. left' \in 0..Budget
  <2>1. Request
    BY DEF Next, CreateFixed, DeleteFixed, CreateTransaction, UpdateTransaction, DeleteTransaction, CreateCategory,
           UpdateCategory, DeleteCategory, CreateAccount, UpdateAccount, DeleteAccount, CreateItem, UpdateItem,
           DeleteItem, Buy, Sell, Snapshot
  <2> QED
    BY <1>1, <2>1, BoundsAssumption DEF Request
<1>3. CASE CreateCategory
  <2>1. PICK c \in Categories, kind \in CategoryKinds : cats' = [cats EXCEPT ![c] = [kind |-> kind, status |-> "ACTIVE"]]
    BY <1>3 DEF CreateCategory
  <2>2. [kind |-> kind, status |-> "ACTIVE"] \in CategoryRows
    BY DEF CategoryRows, Status
  <2> QED
    BY <1>1, <1>2, <1>3, <2>1, <2>2 DEF CreateCategory
<1>4. CASE UpdateCategory
  <2>1. PICK c \in Categories, kind \in CategoryKinds : Live(cats[c]) /\ cats' = [cats EXCEPT ![c].kind = kind]
    BY <1>4 DEF UpdateCategory
  <2>2. [cats[c] EXCEPT !.kind = kind] \in CategoryRows
    BY <1>1, <2>1 DEF CategoryRows, Live
  <2> QED
    BY <1>1, <1>2, <1>4, <2>1, <2>2 DEF UpdateCategory
<1>5. CASE DeleteCategory
  <2>1. PICK c \in Categories : Live(cats[c]) /\ cats' = [cats EXCEPT ![c].status = "DELETED"]
    BY <1>5 DEF DeleteCategory
  <2>2. [cats[c] EXCEPT !.status = "DELETED"] \in CategoryRows
    BY <1>1, <2>1 DEF CategoryRows, Live, Status
  <2> QED
    BY <1>1, <1>2, <1>5, <2>1, <2>2 DEF DeleteCategory
<1>6. CASE CreateFixed \/ DeleteFixed
  <2>1. PICK f \in Fixed, status \in Status : fixed' = [fixed EXCEPT ![f] = status]
    BY <1>6 DEF CreateFixed, DeleteFixed, Status
  <2> QED
    BY <1>1, <1>2, <1>6, <2>1 DEF CreateFixed, DeleteFixed
<1> QED
  BY <1>1, <1>2, <1>3, <1>4, <1>5, <1>6
     DEF Next, CreateTransaction, UpdateTransaction, DeleteTransaction, CreateAccount, UpdateAccount, DeleteAccount,
         CreateItem, UpdateItem, DeleteItem, Buy, Sell, Snapshot

\* Every request, whatever it is, leaves the books in order.
LEMMA Step == ASSUME IInv, [Next]_vars PROVE IInv'
<1>1. CASE Next
  <2>1. TypeOK'
    <3>1. bent' \subseteq TxIds
      BY <1>1, SortedStep DEF Sorted, Entered
    <3> QED
      BY <1>1, <3>1, AccountsKept, TransactionsKept, ItemsKept, TradesKept, SnapshotsKept, ListsKept DEF TypeOK
  <2>2. Owned'
    BY <1>1, TransactionsKept, ItemsKept, SnapshotsKept DEF Owned
  <2> QED
    BY <1>1, <2>1, <2>2, SortedStep DEF IInv
<1>2. CASE UNCHANGED vars
  BY <1>2 DEF vars, IInv, TypeOK, Sorted, Owned, Entered, ActiveItems, LiveAccounts
<1> QED
  BY <1>1, <1>2

\* Every row is under what it is counted by, whatever requests come in whatever order.
THEOREM Invariance == Spec => []IInv
BY Starts, Step, PTL DEF Spec

\* Every table keeps the type of its columns, and only transfers have a destination
\* (the models of account, transaction, category, fixed, portfolio and wealth).
THEOREM TypeCorrect == Spec => []TypeOK
<1>1. IInv => TypeOK
  BY DEF IInv
<1> QED
  BY <1>1, Invariance, PTL

-----------------------------------------------------------------------------
(* Balances *)

\* The one pass over the rows that sums up all accounts finds what a query of its own finds
\* for one.
LEMMA OnePass ==
    ASSUME TypeOK, NEW S \in SUBSET Accounts, NEW a \in S
    PROVE  SumForAccounts(S)[a] = CashFlow(Within(Rows, 1..ThisMonth), a)
<1> DEFINE spent == [t \in Entered |-> IF txs[t].type = "INCOME" THEN txs[t].amount
                                       ELSE IF txs[t].type = "VALUATION" THEN Revaluation(txs[t])
                                       ELSE -txs[t].amount]
           From == {t \in Entered : txs[t].from = a}
           Into == {t \in Entered : txs[t].to = a /\ txs[t].type = "TRANSFER"}
           Both == Touching(Rows, a)
           flow == [t \in Entered |-> Contribution(txs[t], a)]
           out  == [t \in Entered |-> IF txs[t].from = a THEN spent[t] ELSE 0]
           into == [t \in Entered |-> IF txs[t].to = a /\ txs[t].type = "TRANSFER" THEN txs[t].amount ELSE 0]
<1>1. /\ \A t \in Entered : t \in TxIds /\ txs[t] \in TxRows /\ (txs[t].type # "TRANSFER" => txs[t].to = None)
      /\ a \in Accounts /\ a # None
  BY NoneAssumption DEF TypeOK, Entered
<1>2. Within(Rows, 1..ThisMonth) = Rows
  <2>1. DOMAIN Rows = Entered /\ \A t \in Entered : Rows[t] = txs[t] /\ txs[t].date \in 1..ThisMonth
    BY <1>1, RowFields DEF Rows, Months
  <2>2. {s \in DOMAIN Rows : Rows[s].date \in 1..ThisMonth} = Entered
    BY <2>1
  <2>3. Within(Rows, 1..ThisMonth) = [t \in Entered |-> Rows[t]]
    BY <2>2 DEF Within
  <2> QED
    BY <2>3 DEF Rows
<1>3. Both = {t \in Entered : a \in {txs[t].from, txs[t].to}}
  BY DEF Touching, Rows
<1>4. SumForAccounts(S)[a] = Total(spent, From) + Total(AmountOf, Into)
  <2>1. SumForAccounts(S)[a] = Sum(spent, From) + Sum(AmountOf, Into)
    BY DEF SumForAccounts
  <2> HIDE DEF spent, From, Into
  <2> QED
    BY <2>1, SumIsTotal
<1>5. CashFlow(Rows, a) = Total(flow, Both)
  <2>1. \A t \in Both : Contribution(Rows[t], a) = flow[t]
    BY <1>3 DEF Rows
  <2> HIDE DEF flow
  <2> QED
    BY <2>1, FlowTotals
<1>6. ASSUME NEW t \in Entered
      PROVE  /\ out[t] \in Int /\ into[t] \in Int /\ spent[t] \in Int
             /\ t \in Both => flow[t] = out[t] + into[t]
  <2>1. PICK n \in Nat, rev \in Int : n = txs[t].amount /\ rev = Revaluation(txs[t])
    BY <1>1, RowFields DEF Revaluation
  <2>2. txs[t].type \in {"INCOME", "EXPENSE", "FIXED_EXPENSE", "TRANSFER", "VALUATION"}
    BY <1>1, RowFields
  <2>3. spent[t] = IF txs[t].type = "INCOME" THEN n ELSE IF txs[t].type = "VALUATION" THEN rev ELSE -n
    BY <2>1
  <2>4. out[t] = IF txs[t].from = a THEN spent[t] ELSE 0
    OBVIOUS
  <2>5. into[t] = IF txs[t].to = a /\ txs[t].type = "TRANSFER" THEN n ELSE 0
    BY <2>1
  <2>6. flow[t] = Contribution(txs[t], a)
    OBVIOUS
  <2> HIDE DEF spent, out, into, flow, From, Into, Both
  <2>7. spent[t] \in Int /\ out[t] \in Int /\ into[t] \in Int
    BY <2>3, <2>4, <2>5
  <2>8. CASE txs[t].type = "TRANSFER"
    <3>1. flow[t] = (IF txs[t].to = a THEN n ELSE 0) - (IF txs[t].from = a THEN n ELSE 0)
      BY <2>1, <2>6, <2>8 DEF Contribution
    <3> QED
      BY <2>3, <2>4, <2>5, <2>7, <2>8, <3>1
  <2>9. CASE txs[t].type = "INCOME"
    <3>1. flow[t] = IF txs[t].from = a THEN n ELSE 0
      BY <2>1, <2>6, <2>9 DEF Contribution
    <3> QED
      BY <2>3, <2>4, <2>5, <2>7, <2>9, <3>1
  <2>10. CASE txs[t].type \in {"EXPENSE", "FIXED_EXPENSE"}
    <3>1. flow[t] = -(IF txs[t].from = a THEN n ELSE 0)
      BY <2>1, <2>6, <2>10 DEF Contribution
    <3> QED
      BY <2>3, <2>4, <2>5, <2>7, <2>10, <3>1
  <2>11. CASE txs[t].type = "VALUATION"
    <3>1. flow[t] = IF txs[t].from = a THEN rev ELSE 0
      BY <2>1, <2>6, <2>11 DEF Contribution
    <3> QED
      BY <2>3, <2>4, <2>5, <2>7, <2>11, <3>1
  <2> QED
    BY <2>2, <2>7, <2>8, <2>9, <2>10, <2>11
<1>7. /\ From \in SUBSET Both /\ Into \in SUBSET Both /\ IsFiniteSet(Both)
      /\ \A t \in Both : t \in Entered
      /\ \A t \in Both \ From : out[t] = 0
      /\ \A t \in Both \ Into : into[t] = 0
      /\ \A t \in From : out[t] = spent[t]
      /\ \A t \in Into : into[t] = AmountOf[t]
  <2>1. Both \in SUBSET Entered /\ From \in SUBSET Both /\ Into \in SUBSET Both
    BY <1>3
  <2>2. IsFiniteSet(Both)
    BY <2>1, FiniteTables, FS_Subset
  <2>3. (\A t \in Both \ From : out[t] = 0) /\ (\A t \in From : out[t] = spent[t])
    BY <1>3
  <2>4. (\A t \in Both \ Into : into[t] = 0) /\ (\A t \in Into : into[t] = AmountOf[t])
    BY <1>3 DEF AmountOf
  <2> QED
    BY <2>1, <2>2, <2>3, <2>4
<1> HIDE DEF spent, out, into, flow, From, Into, Both
<1>8. Total(flow, Both) = Total(out, Both) + Total(into, Both)
  BY <1>6, <1>7, TotalAdds
<1>9. Total(out, Both) = Total(out, From) /\ Total(into, Both) = Total(into, Into)
  BY <1>6, <1>7, TotalRestricts
<1>10. Total(out, From) = Total(spent, From) /\ Total(into, Into) = Total(AmountOf, Into)
  BY <1>7, TotalSame
<1> QED
  BY <1>2, <1>4, <1>5, <1>8, <1>9, <1>10

\* What the list of accounts shows of one.
LEMMA ListShows ==
    ASSUME TypeOK, NEW a \in LiveAccounts
    PROVE  /\ ListAccounts[a].cash = Cash(a, ThisMonth) /\ Cash(a, ThisMonth) \in Int
           /\ ListAccounts[a].balance =
                Cash(a, ThisMonth) + Total(Worth, {i \in ActiveItems : items[i].acct = a /\ Invests(a)})
<1>1. LiveAccounts \in SUBSET Accounts /\ accts[a] # None
  BY DEF LiveAccounts, Live
<1>2. SumForAccounts(LiveAccounts)[a] = CashFlow(Within(Rows, 1..ThisMonth), a)
  BY <1>1, OnePass
<1> DEFINE cash == accts[a].start + SumForAccounts(LiveAccounts)[a]
                     + (IF Invests(a) THEN TradeCash(a, ThisMonth) ELSE 0)
           own  == {i \in ActiveItems : items[i].acct = a /\ Invests(a)}
<1>3. ListAccounts[a] = [cash |-> cash, balance |-> cash + Sum(Worth, own)]
  BY DEF ListAccounts
<1>4. cash = Cash(a, ThisMonth)
  BY <1>2 DEF Cash
<1> HIDE DEF cash, own
<1>5. Sum(Worth, own) = Total(Worth, own)
  BY SumIsTotal
<1>6. Cash(a, ThisMonth) \in Int
  <2>1. Tables
    BY DEF TypeOK, Tables
  <2> QED
    BY <1>1, <2>1, CashType
<1> QED
  BY <1>3, <1>4, <1>5, <1>6 DEF own

\* Balances agree in any state of the tables.
LEMMA BalancesFollow == TypeOK => BalancesAgree
<1> SUFFICES ASSUME TypeOK, NEW a \in LiveAccounts PROVE ListAccounts[a].balance = Balance(a)
  BY DEF BalancesAgree
<1>1. PICK own : own = {i \in ActiveItems : items[i].acct = a /\ Invests(a)}
  OBVIOUS
<1>2. ListAccounts[a].balance = Cash(a, ThisMonth) + Total(Worth, own) /\ Cash(a, ThisMonth) \in Int
  BY <1>1, ListShows
<1>3. CASE Invests(a)
  <2>1. own = {i \in ActiveItems : items[i].acct = a}
    BY <1>1, <1>3
  <2>2. Balance(a) = Cash(a, ThisMonth) + Sum(Worth, own)
    BY <1>3, <2>1 DEF Balance
  <2> QED
    BY <1>2, <2>2, SumIsTotal
<1>4. CASE ~Invests(a)
  <2>1. own = {}
    BY <1>1, <1>4
  <2>2. Balance(a) = Cash(a, ThisMonth) + 0 /\ Total(Worth, own) = 0
    BY <1>4, <2>1, TotalOfNone DEF Balance
  <2> QED
    BY <1>2, <2>2
<1> QED
  BY <1>3, <1>4

\* The balance in a list of accounts is always the balance the account's own page computes
\* (account/service.py, _build_balance and _calc_balance).
THEOREM BalancesAlwaysAgree == Spec => []BalancesAgree
BY TypeCorrect, BalancesFollow, PTL

-----------------------------------------------------------------------------
(* The figures of a month *)

\* Sums of amounts over sets that differ by parts of a third differ by no more than its sum.
LEMMA TotalsClose ==
    ASSUME NEW f, NEW U, IsFiniteSet(U), \A x \in U : f[x] \in Nat,
           NEW X \in SUBSET U, NEW Y \in SUBSET U, NEW B \in SUBSET U, X \ Y \subseteq B, Y \ X \subseteq B
    PROVE  Total(f, X) \in Total(f, Y) - Total(f, B)..Total(f, Y) + Total(f, B)
<1>1. PICK P, Q, R : P = X \ Y /\ Q = Y \ X /\ R = X \cap Y
  OBVIOUS
<1>2. /\ P \in SUBSET U /\ Q \in SUBSET U /\ R \in SUBSET U /\ P \in SUBSET B /\ Q \in SUBSET B
      /\ P \cap R = {} /\ Q \cap R = {} /\ X = P \cup R /\ Y = Q \cup R
  BY <1>1
<1>3. \A S \in SUBSET U : IsFiniteSet(S) /\ (\A x \in S : f[x] \in Nat) /\ Total(f, S) \in Nat
  BY FS_Subset, TotalOfPart
<1>4. Total(f, P) <= Total(f, B) /\ Total(f, Q) <= Total(f, B)
  BY <1>2, <1>3, TotalOfPart
<1>5. Total(f, P \cup R) = Total(f, P) + Total(f, R) /\ Total(f, Q \cup R) = Total(f, Q) + Total(f, R)
  <2>1. \A x \in U : f[x] \in Int
    OBVIOUS
  <2>2. IsFiniteSet(P) /\ IsFiniteSet(Q) /\ IsFiniteSet(R)
        /\ (\A x \in P \cup R : f[x] \in Int) /\ (\A x \in Q \cup R : f[x] \in Int)
    BY <1>2, <1>3, <2>1
  <2> QED
    BY <1>2, <2>2, TotalOfUnion
<1>6. PICK p, q, r, b \in Nat : p = Total(f, P) /\ q = Total(f, Q) /\ r = Total(f, R) /\ b = Total(f, B)
  BY <1>2, <1>3
<1>7. Total(f, X) = p + r /\ Total(f, Y) = q + r
  BY <1>2, <1>5, <1>6
<1>8. p <= b /\ q <= b => p + r \in (q + r) - b..(q + r) + b
  OBVIOUS
<1> QED
  BY <1>4, <1>6, <1>7, <1>8

\* The rows of a month are finitely many rows with an amount.
LEMMA MonthRows ==
    ASSUME TypeOK, NEW m, NEW types
    PROVE  /\ RowsIn(m, types) \in SUBSET Entered /\ IsFiniteSet(RowsIn(m, types))
           /\ \A t \in Entered : txs[t] \in TxRows /\ AmountOf[t] \in Nat /\ AmountOf[t] \in Int
<1>1. \A t \in Entered : txs[t] \in TxRows
  BY DEF TypeOK, Entered
<1>2. \A t \in Entered : AmountOf[t] \in Nat /\ AmountOf[t] \in Int
  BY <1>1, RowFields DEF AmountOf
<1>3. RowsIn(m, types) \in SUBSET Entered
  BY DEF RowsIn
<1> QED
  BY <1>1, <1>2, <1>3, FiniteTables, FS_Subset

\* The calendar looks at the rows the sums by type look at.
LEMMA CalendarFits == ASSUME TypeOK, NEW m PROVE ByType(m) = Calendar(m)
<1>1. ASSUME NEW types \in {Earning, Spending, {"TRANSFER"}}
      PROVE  {t \in RowsIn(m, TxTypes \ {"VALUATION"}) : txs[t].type \in types} = RowsIn(m, types)
  BY DEF RowsIn, TxTypes, Earning, Spending
<1> QED
  BY <1>1 DEF ByType, Calendar

\* What was earned and what was spent in a month is what each account in use earned and spent.
LEMMA AccountsFit ==
    ASSUME IInv, NEW m
    PROVE  /\ ByType(m).income  = Sum([a \in LiveAccounts |-> AccountMonth(a, m).income], LiveAccounts)
           /\ ByType(m).expense = Sum([a \in LiveAccounts |-> AccountMonth(a, m).expense + AccountMonth(a, m).fixed],
                                      LiveAccounts)
<1> DEFINE own == [t \in Entered |-> txs[t].from]
           income  == [a \in LiveAccounts |-> AccountMonth(a, m).income]
           expense == [a \in LiveAccounts |-> AccountMonth(a, m).expense + AccountMonth(a, m).fixed]
           Of(types, a) == {t \in RowsIn(m, types) : own[t] = a}
           parts(types) == [a \in LiveAccounts |-> Of(types, a)]
<1>1. TypeOK /\ \A t \in Entered : txs[t].type \in Earning \cup Spending => txs[t].from \in LiveAccounts
  BY DEF IInv, Owned
<1>2. \A t \in RowsIn(m, Earning) \cup RowsIn(m, Spending) : AmountOf[t] \in Int /\ own[t] \in LiveAccounts
  BY <1>1, MonthRows DEF RowsIn
<1>3. \A types, a : {t \in RowsIn(m, types) : txs[t].from = a} = Of(types, a)
  BY DEF RowsIn
<1>4. \A a \in LiveAccounts : income[a] = Total(AmountOf, Of(Earning, a))
  <2> HIDE DEF Of
  <2> QED
    BY <1>3, SumIsTotal DEF AccountMonth
<1>5. ASSUME NEW a \in LiveAccounts PROVE expense[a] = Total(AmountOf, Of(Spending, a))
  <2>1. PICK P, Q : P = Of({"EXPENSE"}, a) /\ Q = Of({"FIXED_EXPENSE"}, a)
    OBVIOUS
  <2>2. P \cap Q = {} /\ Of(Spending, a) = P \cup Q /\ P \in SUBSET Entered /\ Q \in SUBSET Entered
    BY <2>1 DEF RowsIn, Spending
  <2>3. Total(AmountOf, P \cup Q) = Total(AmountOf, P) + Total(AmountOf, Q)
    <3>1. IsFiniteSet(P) /\ IsFiniteSet(Q)
      BY <2>2, FiniteTables, FS_Subset
    <3>2. \A t \in P \cup Q : AmountOf[t] \in Int
      BY <1>1, <2>2, MonthRows
    <3> QED
      BY <2>2, <3>1, <3>2, TotalOfUnion
  <2>4. expense[a] = Sum(AmountOf, P) + Sum(AmountOf, Q)
    <3> HIDE DEF Of
    <3> QED
      BY <1>3, <2>1 DEF AccountMonth
  <2> HIDE DEF Of, expense
  <2> QED
    BY <2>2, <2>3, <2>4, SumIsTotal
<1>6. IsFiniteSet(LiveAccounts) /\ IsFiniteSet(RowsIn(m, Earning)) /\ IsFiniteSet(RowsIn(m, Spending))
  BY <1>1, MonthRows, FiniteTables
<1>7. ASSUME NEW types, NEW a \in LiveAccounts
       PROVE  parts(types)[a] = Of(types, a) /\ \A t : t \in parts(types)[a] <=> t \in RowsIn(m, types) /\ own[t] = a
  OBVIOUS
<1> HIDE DEF own, income, expense, parts, Of
<1>8. Total(income, LiveAccounts) = Total(AmountOf, RowsIn(m, Earning))
  BY <1>2, <1>4, <1>6, <1>7, TotalOfParts
<1>9. Total(expense, LiveAccounts) = Total(AmountOf, RowsIn(m, Spending))
  BY <1>2, <1>5, <1>6, <1>7, TotalOfParts
<1>10. ByType(m).income = Total(AmountOf, RowsIn(m, Earning)) /\ ByType(m).expense = Total(AmountOf, RowsIn(m, Spending))
  BY SumIsTotal DEF ByType
<1>11. Sum(income, LiveAccounts) = Total(income, LiveAccounts) /\ Sum(expense, LiveAccounts) = Total(expense, LiveAccounts)
  BY SumIsTotal
<1> QED
  BY <1>8, <1>9, <1>10, <1>11 DEF income, expense

\* The chart of a kind of category shows the rows of the types of that kind, but for those
\* under no category and those that were bent.
LEMMA ChartFits ==
    ASSUME IInv, NEW m, NEW kind, NEW types, <<kind, types>> \in {<<"INCOME", Earning>>, <<"EXPENSE", Spending>>}
    PROVE  Chart(kind, m) \in Sum(AmountOf, RowsIn(m, types)) - Unsorted(types, m) - Bent(m)
                              ..Sum(AmountOf, RowsIn(m, types)) - Unsorted(types, m) + Bent(m)
<1> DEFINE cat   == [t \in Entered |-> txs[t].cat]
           kinds == {c \in Categories : cats[c] # None /\ cats[c].kind = kind}
           byCat == [c \in Categories |-> ByCategory(c, m)]
           X == {t \in RowsIn(m, TxTypes) : cat[t] \in kinds}
           Y == {t \in RowsIn(m, types) : txs[t].cat # None}
           N == {t \in RowsIn(m, types) : txs[t].cat = None}
           B == {t \in bent : txs[t].date = m}
<1>1. TypeOK /\ Sorted /\ types \in SUBSET TxTypes
  BY DEF IInv, TxTypes
<1>2. /\ IsFiniteSet(Entered) /\ (\A t \in Entered : txs[t] \in TxRows /\ AmountOf[t] \in Nat /\ AmountOf[t] \in Int)
      /\ IsFiniteSet(RowsIn(m, types)) /\ RowsIn(m, types) \in SUBSET Entered
  BY <1>1, MonthRows, FiniteTables
<1>3. X \in SUBSET Entered /\ Y \in SUBSET Entered /\ N \in SUBSET Entered /\ B \in SUBSET Entered
  BY <1>1 DEF RowsIn, Sorted
<1>4. X \ Y \subseteq B /\ Y \ X \subseteq B
  <2>1. ASSUME NEW t \in Entered, txs[t].cat # None, t \notin bent
        PROVE  txs[t].cat \in Categories /\ cats[txs[t].cat] # None /\ Suits(txs[t].type, cats[txs[t].cat].kind)
               /\ txs[t].type \in TxTypes
    <3>1. txs[t].cat \in Categories \cup {None} /\ txs[t].type \in TxTypes
      BY <1>2 DEF TxRows
    <3> QED
      BY <1>1, <2>1, <3>1 DEF Sorted
  <2>2. ASSUME NEW t \in X, t \notin bent PROVE t \in Y
    <3>1. t \in Entered /\ txs[t].date = m /\ txs[t].cat \in kinds /\ txs[t].cat # None
      BY <2>2, NoneAssumption DEF RowsIn
    <3>2. Suits(txs[t].type, kind)
      BY <2>1, <2>2, <3>1
    <3>3. txs[t].type \in types
      BY <3>2 DEF Suits, Earning, Spending
    <3> QED
      BY <3>1, <3>3 DEF RowsIn
  <2>3. ASSUME NEW t \in Y, t \notin bent PROVE t \in X
    <3>1. t \in Entered /\ txs[t].date = m /\ txs[t].cat # None /\ txs[t].type \in types
      BY DEF RowsIn
    <3>2. /\ txs[t].cat \in Categories /\ cats[txs[t].cat] # None /\ Suits(txs[t].type, cats[txs[t].cat].kind)
          /\ txs[t].type \in TxTypes
      BY <2>1, <2>3, <3>1
    <3>3. cats[txs[t].cat].kind = kind
      BY <3>1, <3>2 DEF Suits, Earning, Spending
    <3> QED
      BY <3>1, <3>2, <3>3 DEF RowsIn
  <2>4. ASSUME NEW t \in X \cup Y PROVE txs[t].date = m
    BY DEF RowsIn
  <2> QED
    BY <2>2, <2>3, <2>4
<1>5. Chart(kind, m) = Total(AmountOf, X)
  <2>1. kinds \in SUBSET Categories /\ IsFiniteSet(kinds) /\ IsFiniteSet(X)
    BY <1>2, <1>3, FiniteAssumption, FS_Subset
  <2>2. \A t \in X : AmountOf[t] \in Int /\ cat[t] \in kinds
    BY <1>2, <1>3
  <2> DEFINE parts == [c \in kinds |-> {t \in X : cat[t] = c}]
  <2>3. ASSUME NEW c \in kinds PROVE byCat[c] = Total(AmountOf, parts[c])
    <3>1. parts[c] = {t \in RowsIn(m, TxTypes) : txs[t].cat = c}
      BY DEF RowsIn
    <3>2. byCat[c] = Sum(AmountOf, {t \in RowsIn(m, TxTypes) : txs[t].cat = c})
      BY DEF ByCategory
    <3> HIDE DEF byCat, X, cat, parts
    <3> QED
      BY <3>1, <3>2, SumIsTotal
  <2>4. Chart(kind, m) = Sum(byCat, kinds)
    BY DEF Chart
  <2>5. \A c \in kinds : \A t : t \in parts[c] <=> t \in X /\ cat[t] = c
    OBVIOUS
  <2> HIDE DEF byCat, kinds, X, cat, parts
  <2>6. Total(byCat, kinds) = Total(AmountOf, X)
    BY <2>1, <2>2, <2>3, <2>5, TotalOfParts
  <2> QED
    BY <2>4, <2>6, SumIsTotal
<1>6. Total(AmountOf, RowsIn(m, types)) = Total(AmountOf, Y) + Total(AmountOf, N)
  <2>1. Y \cap N = {} /\ RowsIn(m, types) = Y \cup N
    OBVIOUS
  <2> HIDE DEF Y, N
  <2>2. IsFiniteSet(Y) /\ IsFiniteSet(N) /\ \A t \in Y \cup N : AmountOf[t] \in Int
    BY <1>2, <1>3, FS_Subset
  <2> QED
    BY <2>1, <2>2, TotalOfUnion
<1>7. /\ Sum(AmountOf, RowsIn(m, types)) = Total(AmountOf, RowsIn(m, types))
      /\ Unsorted(types, m) = Total(AmountOf, N) /\ Bent(m) = Total(AmountOf, B)
  BY SumIsTotal DEF Unsorted, Bent
<1> HIDE DEF X, Y, N, B
<1>8. Total(AmountOf, X) \in Total(AmountOf, Y) - Total(AmountOf, B)..Total(AmountOf, Y) + Total(AmountOf, B)
  BY <1>2, <1>3, <1>4, TotalsClose
<1>9. PICK y, n \in Int : y = Total(AmountOf, Y) /\ n = Total(AmountOf, N)
  BY <1>2, <1>3, FS_Subset, TotalOfPart
<1>10. y + n - n = y
  OBVIOUS
<1> QED
  BY <1>5, <1>6, <1>7, <1>8, <1>9, <1>10

\* What fixed items were used for is part of what was spent.
LEMMA FixedFits ==
    ASSUME TypeOK, NEW m
    PROVE  Sum([f \in Fixed |-> ByFixed(f, m)], Fixed) <= ByType(m).expense
<1> DEFINE fix  == [t \in Entered |-> txs[t].fixed]
           uses == [f \in Fixed |-> ByFixed(f, m)]
           S == RowsIn(m, Spending)
           Used == {t \in S : fix[t] \in Fixed}
           parts == [f \in Fixed |-> {t \in Used : fix[t] = f}]
<1>1. IsFiniteSet(S) /\ S \in SUBSET Entered /\ \A t \in S : AmountOf[t] \in Nat /\ AmountOf[t] \in Int
  BY MonthRows
<1>2. Used \in SUBSET S /\ IsFiniteSet(Used) /\ IsFiniteSet(Fixed)
  BY <1>1, FS_Subset, FiniteAssumption
<1>3. ASSUME NEW f \in Fixed PROVE uses[f] = Total(AmountOf, parts[f])
  <2>1. parts[f] = {t \in S : txs[t].fixed = f}
    BY <1>1
  <2>2. uses[f] = Sum(AmountOf, {t \in S : txs[t].fixed = f})
    BY DEF ByFixed
  <2> HIDE DEF uses, Used, fix, S, parts
  <2> QED
    BY <2>1, <2>2, SumIsTotal
<1>4. \A t \in Used : AmountOf[t] \in Int /\ fix[t] \in Fixed
  BY <1>1
<1>5. ByType(m).expense = Sum(AmountOf, S)
  BY DEF ByType
<1>6. \A f \in Fixed : \A t : t \in parts[f] <=> t \in Used /\ fix[t] = f
  OBVIOUS
<1> HIDE DEF uses, Used, fix, S, parts
<1>7. Total(uses, Fixed) = Total(AmountOf, Used)
  BY <1>2, <1>3, <1>4, <1>6, TotalOfParts
<1>8. Total(AmountOf, Used) <= Total(AmountOf, S)
  BY <1>1, <1>2, TotalOfPart
<1>9. Sum(uses, Fixed) = Total(uses, Fixed) /\ Sum(AmountOf, S) = Total(AmountOf, S)
  BY SumIsTotal
<1> QED
  BY <1>5, <1>7, <1>8, <1>9 DEF uses

\* The figures of the months agree where rows are in order.
LEMMA MonthsFollow == IInv => MonthFiguresAgree
<1> SUFFICES ASSUME IInv PROVE MonthFiguresAgree
  OBVIOUS
<1>1. TypeOK
  BY DEF IInv
<1>2. ASSUME NEW m
      PROVE  /\ Chart("INCOME", m) \in ByType(m).income - Unsorted(Earning, m) - Bent(m)
                                       ..ByType(m).income - Unsorted(Earning, m) + Bent(m)
             /\ Chart("EXPENSE", m) \in ByType(m).expense - Unsorted(Spending, m) - Bent(m)
                                        ..ByType(m).expense - Unsorted(Spending, m) + Bent(m)
  BY ChartFits DEF ByType
<1> QED
  BY <1>1, <1>2, CalendarFits, AccountsFit, FixedFits DEF MonthFiguresAgree

\* The figures of every month agree, as MonthFiguresAgree says, whatever was created, changed
\* or deleted (stats/service.py, transaction/repository.py).
THEOREM MonthsAgree == Spec => []MonthFiguresAgree
BY Invariance, MonthsFollow, PTL

-----------------------------------------------------------------------------
(* Wealth *)

\* A total of slices is the sum of the three.
LEMMA ThreeSlices ==
    ASSUME NEW c \in Int, NEW a \in Int, NEW i \in Int
    PROVE  AllOf([CASH |-> c, ASSET |-> a, INVESTMENT |-> i]) = c + a + i
<1>1. PICK f : f = [CASH |-> c, ASSET |-> a, INVESTMENT |-> i]
  OBVIOUS
<1>2. f["CASH"] = c /\ f["ASSET"] = a /\ f["INVESTMENT"] = i
  BY <1>1
<1>3. IsFiniteSet(Slices) /\ IsFiniteSet({"INVESTMENT", "ASSET"}) /\ IsFiniteSet({"ASSET"})
  <2>1. IsFiniteSet({"ASSET"}) /\ Slices = {"INVESTMENT", "ASSET"} \cup {"CASH"}
        /\ {"INVESTMENT", "ASSET"} = {"ASSET"} \cup {"INVESTMENT"}
    BY FS_Singleton DEF Slices
  <2> QED
    BY <2>1, FS_AddElement
<1>4. /\ Slices \ {"CASH"} = {"INVESTMENT", "ASSET"} /\ {"INVESTMENT", "ASSET"} \ {"INVESTMENT"} = {"ASSET"}
      /\ {"ASSET"} \ {"ASSET"} = {}
      /\ "CASH" \in Slices /\ \A x \in Slices : x \in {"CASH", "INVESTMENT", "ASSET"}
  BY DEF Slices
<1>5. Total(f, Slices) = f["CASH"] + Total(f, {"INVESTMENT", "ASSET"})
  BY <1>2, <1>3, <1>4, TotalOfMore
<1>6. Total(f, {"INVESTMENT", "ASSET"}) = f["INVESTMENT"] + Total(f, {"ASSET"})
  <2>1. \A x \in {"INVESTMENT", "ASSET"} : f[x] \in Int
    BY <1>2
  <2> QED
    BY <1>3, <1>4, <2>1, TotalOfMore
<1>7. Total(f, {"ASSET"}) = f["ASSET"] + Total(f, {})
  <2>1. \A x \in {"ASSET"} : f[x] \in Int
    BY <1>2
  <2> QED
    BY <1>3, <1>4, <2>1, TotalOfMore
<1>8. AllOf(f) = Total(f, Slices)
  BY SumIsTotal DEF AllOf
<1>9. PICK total : total = Total(f, Slices)
  OBVIOUS
<1>10. total = c + (i + (a + 0))
  BY <1>2, <1>5, <1>6, <1>7, <1>9, TotalOfNone
<1> QED
  BY <1>1, <1>8, <1>9, <1>10

\* The accounts S of some books are those that invest, J, those of cash, C, and those of
\* assets, A; the items I are in accounts of theirs, the items L in none that invests, and
\* the balance of an account that invests is its cash and its part of the items.
Sliced(S, J, C, A, cash, balance, I, acct, value, part, L) ==
    /\ IsFiniteSet(S) /\ S = J \cup C \cup A /\ J \cap C = {} /\ J \cap A = {} /\ C \cap A = {}
    /\ \A a \in S : cash[a] \in Int /\ balance[a] \in Int
    /\ IsFiniteSet(I) /\ \A i \in I : acct[i] \in S /\ value[i] \in Int
    /\ \A a \in J : \A i : i \in part[a] <=> i \in I /\ acct[i] = a
    /\ \A a \in J : balance[a] = cash[a] + Total(value, part[a])
    /\ \A i : i \in L <=> i \in I /\ acct[i] \notin J

\* What both the allocation and the trend do: of the accounts that invest the cash without
\* their items, of the others the whole balance, and all items on top.
LEMMA SlicesAddUp ==
    ASSUME NEW S, NEW J, NEW C, NEW A, NEW cash, NEW balance, NEW I, NEW acct, NEW value, NEW part, NEW L,
           Sliced(S, J, C, A, cash, balance, I, acct, value, part, L)
    PROVE  /\ Total(cash, J) + Total(balance, C) \in Int /\ Total(balance, A) \in Int /\ Total(value, I) \in Int
           /\ (Total(cash, J) + Total(balance, C)) + Total(balance, A) + Total(value, I)
                = Total(balance, S) + Total(value, L)
<1> USE DEF Sliced
<1> DEFINE worth == [a \in J |-> Total(value, part[a])]
           K == {i \in I : acct[i] \in J}
<1>1. /\ IsFiniteSet(J) /\ IsFiniteSet(C) /\ IsFiniteSet(A) /\ IsFiniteSet(C \cup A)
      /\ \A a \in J \cup C \cup A : cash[a] \in Int /\ balance[a] \in Int
  <2>1. J \in SUBSET S /\ C \in SUBSET S /\ A \in SUBSET S /\ C \cup A \in SUBSET S
    OBVIOUS
  <2> QED
    BY <2>1, FS_Subset
<1>2. Total(balance, S) = Total(balance, J) + Total(balance, C \cup A)
      /\ Total(balance, C \cup A) = Total(balance, C) + Total(balance, A)
  <2>1. PICK D : D = C \cup A
    OBVIOUS
  <2>2. J \cap D = {} /\ S = J \cup D /\ IsFiniteSet(D) /\ \A a \in J \cup D : balance[a] \in Int
    BY <1>1, <2>1
  <2>3. Total(balance, J \cup D) = Total(balance, J) + Total(balance, D)
    BY <1>1, <2>2, TotalOfUnion
  <2>4. Total(balance, C \cup A) = Total(balance, C) + Total(balance, A)
    BY <1>1, TotalOfUnion
  <2> QED
    BY <2>1, <2>2, <2>3, <2>4
<1>3. \A a \in J : worth[a] \in Int /\ worth[a] = Total(value, part[a]) /\ balance[a] = cash[a] + worth[a]
  <2> SUFFICES ASSUME NEW a \in J PROVE Total(value, part[a]) \in Int
    OBVIOUS
  <2>1. part[a] \in SUBSET I
    OBVIOUS
  <2>2. IsFiniteSet(part[a]) /\ \A i \in part[a] : value[i] \in Int
    BY <2>1, FS_Subset
  <2> QED
    BY <2>2, TotalType
<1>4. IsFiniteSet(K) /\ IsFiniteSet(L) /\ K \cap L = {} /\ I = K \cup L
      /\ (\A i \in K : i \in I /\ acct[i] \in J /\ value[i] \in Int) /\ \A i \in K \cup L : value[i] \in Int
  <2>1. K \in SUBSET I /\ L \in SUBSET I /\ K \cap L = {} /\ I = K \cup L
    OBVIOUS
  <2> QED
    BY <2>1, FS_Subset
<1>5. \A a \in J : \A i : i \in part[a] <=> i \in K /\ acct[i] = a
  OBVIOUS
<1>6. IsFiniteSet(S) /\ IsFiniteSet(I)
  OBVIOUS
<1> HIDE DEF worth, K, Sliced
<1>7. Total(balance, J) = Total(cash, J) + Total(worth, J)
  BY <1>1, <1>3, TotalAdds
<1>8. Total(worth, J) = Total(value, K)
  BY <1>1, <1>3, <1>4, <1>5, TotalOfParts
<1>9. Total(value, K \cup L) = Total(value, K) + Total(value, L)
  <2>1. \A i \in K \cup L : value[i] \in Int
    BY <1>4
  <2> QED
    BY <1>4, <2>1, TotalOfUnion
<1>10. PICK j, c, a, k, l \in Int : /\ j = Total(cash, J) /\ c = Total(balance, C) /\ a = Total(balance, A)
                                   /\ k = Total(value, K) /\ l = Total(value, L)
  <2>1. /\ (\A x \in J : cash[x] \in Int) /\ (\A x \in C : balance[x] \in Int) /\ (\A x \in A : balance[x] \in Int)
        /\ (\A x \in K : value[x] \in Int) /\ (\A x \in L : value[x] \in Int)
    BY <1>1, <1>4
  <2> QED
    BY <1>1, <1>4, <2>1, TotalType
<1>11. Total(balance, S) = (j + k) + (c + a) /\ Total(value, I) = k + l
  BY <1>2, <1>4, <1>7, <1>8, <1>9, <1>10
<1>12. (j + c) + a + (k + l) = ((j + k) + (c + a)) + l
  OBVIOUS
<1> QED
  BY <1>10, <1>11, <1>12

\* An account there has been is of one of three types.
LEMMA AccountsByType ==
    ASSUME TypeOK, NEW S \in SUBSET Accounts, \A a \in S : accts[a] # None
    PROVE  IsFiniteSet(S) /\ \A a \in S : accts[a].type \in {"CASH", "INVESTMENT", "ASSET"}
<1>1. \A a \in S : accts[a].type \in {"CASH", "INVESTMENT", "ASSET"}
  BY DEF TypeOK, AccountRows, AccountTypes
<1>2. IsFiniteSet(S)
  BY FiniteAssumption, FS_Subset
<1> QED
  BY <1>1, <1>2

\* The worth of what is held is a whole number.
LEMMA WorthType == ASSUME TypeOK PROVE \A i \in ActiveItems : Worth[i] \in Int
<1> SUFFICES ASSUME NEW i \in ActiveItems PROVE Held(i, ThisMonth) * items[i].price \in Int
  BY DEF Worth
<1>1. items[i] \in ItemRows
  BY DEF TypeOK, ActiveItems, Live
<1>2. items[i].price \in Int
  <2>1. items[i].price \in Prices
    BY <1>1 DEF ItemRows
  <2>2. \A p \in Prices : p \in Int
    BY BoundsAssumption
  <2> QED
    BY <2>1, <2>2
<1>3. Held(i, ThisMonth) \in Int
  BY CountType
<1>4. PICK p \in Int, h \in Int : p = items[i].price /\ h = Held(i, ThisMonth)
  BY <1>2, <1>3
<1>5. h * p \in Int
  OBVIOUS
<1> QED
  BY <1>4, <1>5

\* The allocation of today.
LEMMA AllocationAddsUp ==
    ASSUME IInv, NEW balance, balance = [a \in LiveAccounts |-> ListAccounts[a].balance],
           NEW strays, strays = {i \in ActiveItems : ~Invests(items[i].acct)}
    PROVE  AllOf(Allocation) = Sum(balance, LiveAccounts) + Sum(Worth, strays)
<1>1. PICK J, C, A : /\ J = {a \in LiveAccounts : accts[a].type = "INVESTMENT"}
                     /\ C = {a \in LiveAccounts : accts[a].type = "CASH"}
                     /\ A = {a \in LiveAccounts : accts[a].type = "ASSET"}
  OBVIOUS
<1>2. PICK cash, acct, part : /\ cash = [a \in LiveAccounts |-> ListAccounts[a].cash]
                              /\ acct = [i \in ActiveItems |-> items[i].acct]
                              /\ part = [a \in J |-> {i \in ActiveItems : items[i].acct = a}]
  OBVIOUS
<1>3. TypeOK /\ LiveAccounts \in SUBSET Accounts /\ \A a \in LiveAccounts : accts[a] # None
  BY DEF IInv, LiveAccounts, Live
<1>4. /\ LiveAccounts = J \cup C \cup A /\ J \cap C = {} /\ J \cap A = {} /\ C \cap A = {}
      /\ IsFiniteSet(LiveAccounts) /\ IsFiniteSet(ActiveItems)
  <2>1. \A a \in LiveAccounts : accts[a].type \in {"CASH", "INVESTMENT", "ASSET"}
    BY <1>3, AccountsByType
  <2> QED
    BY <1>1, <2>1, FiniteTables
<1>5. ASSUME NEW a \in LiveAccounts
      PROVE  /\ cash[a] \in Int /\ balance[a] \in Int
             /\ a \in J => balance[a] = cash[a] + Total(Worth, part[a])
  <2>1. PICK own : own = {i \in ActiveItems : items[i].acct = a /\ Invests(a)}
    OBVIOUS
  <2>2. cash[a] \in Int /\ balance[a] = cash[a] + Total(Worth, own)
    BY <1>2, <1>3, <2>1, ListShows
  <2>3. Total(Worth, own) \in Int
    <3>1. own \in SUBSET ActiveItems
      BY <2>1
    <3>2. IsFiniteSet(own) /\ \A i \in own : Worth[i] \in Int
      BY <1>3, <1>4, <3>1, WorthType, FS_Subset
    <3> QED
      BY <3>2, TotalType
  <2>4. a \in J => own = part[a]
    BY <1>1, <1>2, <2>1 DEF Invests
  <2> QED
    BY <2>2, <2>3, <2>4
<1>6. \A i \in ActiveItems : acct[i] \in LiveAccounts /\ Worth[i] \in Int
  BY <1>2, <1>3, WorthType DEF IInv, Owned
<1>7. \A a \in J : \A i : i \in part[a] <=> i \in ActiveItems /\ acct[i] = a
  BY <1>2
<1>8. \A i : i \in strays <=> i \in ActiveItems /\ acct[i] \notin J
  BY <1>1, <1>2, <1>6 DEF Invests
<1>9. /\ Total(cash, J) + Total(balance, C) \in Int /\ Total(balance, A) \in Int /\ Total(Worth, ActiveItems) \in Int
      /\ (Total(cash, J) + Total(balance, C)) + Total(balance, A) + Total(Worth, ActiveItems)
           = Total(balance, LiveAccounts) + Total(Worth, strays)
  <2>1. \A a \in J : balance[a] = cash[a] + Total(Worth, part[a])
    BY <1>4, <1>5
  <2>2. \A a \in LiveAccounts : cash[a] \in Int /\ balance[a] \in Int
    BY <1>5
  <2>3. Sliced(LiveAccounts, J, C, A, cash, balance, ActiveItems, acct, Worth, part, strays)
    BY <1>4, <1>6, <1>7, <1>8, <2>1, <2>2 DEF Sliced
  <2> QED
    BY <2>3, SlicesAddUp
<1>10. Allocation = [CASH |-> Sum(cash, J) + Sum(balance, C), ASSET |-> Sum(balance, A),
                     INVESTMENT |-> Sum(Worth, ActiveItems)]
  BY <1>1, <1>2 DEF Allocation
<1>11. Allocation = [CASH |-> Total(cash, J) + Total(balance, C), ASSET |-> Total(balance, A),
                     INVESTMENT |-> Total(Worth, ActiveItems)]
  BY <1>10, SumIsTotal
<1>12. AllOf(Allocation) = (Total(cash, J) + Total(balance, C)) + Total(balance, A) + Total(Worth, ActiveItems)
  BY <1>9, <1>11, ThreeSlices
<1> QED
  BY <1>9, <1>12, SumIsTotal

\* The trend of a month.
LEMMA TrendAddsUp ==
    ASSUME IInv, NEW m, NEW lost, lost = {i \in HistOf(m) : ~Invests(hist[<<i, m>>].acct)}
    PROVE  AllOf(Trend(m)) = YearlyTotal(m) + Valuations(lost, m)
<1>1. PICK S, I, J, C, A : /\ S = SnapsOf(m) /\ I = HistOf(m)
                           /\ J = {a \in S : accts[a].type = "INVESTMENT"}
                           /\ C = {a \in S : accts[a].type = "CASH"}
                           /\ A = {a \in S : accts[a].type = "ASSET"}
  OBVIOUS
<1>2. PICK value, acct, part : /\ value = [i \in I |-> hist[<<i, m>>].valuation]
                               /\ acct = [i \in I |-> hist[<<i, m>>].acct]
                               /\ part = [a \in S |-> {i \in I : hist[<<i, m>>].acct = a}]
  OBVIOUS
<1>3. PICK balance, cash : balance = [a \in S |-> snaps[<<a, m>>]]
                           /\ cash = [a \in S |-> snaps[<<a, m>>] - Total(value, part[a])]
  OBVIOUS
<1>4. TypeOK /\ S \in SUBSET Accounts /\ (\A a \in S : accts[a] # None /\ snaps[<<a, m>>] \in Int)
  <2>1. \A a \in S : a \in Accounts /\ <<a, m>> \in DOMAIN snaps
    BY <1>1 DEF SnapsOf
  <2>2. \A k \in DOMAIN snaps : accts[k[1]] # None /\ snaps[k] \in Int
    BY DEF IInv, TypeOK, Owned
  <2>3. ASSUME NEW a \in S PROVE accts[a] # None /\ snaps[<<a, m>>] \in Int
    <3>1. <<a, m>> \in DOMAIN snaps /\ <<a, m>>[1] = a
      BY <2>1
    <3> QED
      BY <2>2, <3>1
  <2> QED
    BY <2>1, <2>3 DEF IInv
<1>5. S = J \cup C \cup A /\ J \cap C = {} /\ J \cap A = {} /\ C \cap A = {} /\ IsFiniteSet(S) /\ IsFiniteSet(I)
  <2>1. IsFiniteSet(S) /\ \A a \in S : accts[a].type \in {"CASH", "INVESTMENT", "ASSET"}
    BY <1>4, AccountsByType
  <2>2. S = J \cup C \cup A /\ J \cap C = {} /\ J \cap A = {} /\ C \cap A = {}
    BY <1>1, <2>1
  <2> QED
    BY <1>1, <2>1, <2>2, FiniteTables
<1>6. \A i \in I : acct[i] \in S /\ value[i] \in Int
  <2> SUFFICES ASSUME NEW i \in I PROVE acct[i] \in S /\ value[i] \in Int
    OBVIOUS
  <2>1. PICK k : k = <<i, m>>
    OBVIOUS
  <2>2. k \in DOMAIN hist /\ k[2] = m
    BY <1>1, <2>1 DEF HistOf
  <2>3. hist[k] \in [acct : Accounts, valuation : Nat] /\ <<hist[k].acct, m>> \in DOMAIN snaps
    BY <2>2 DEF IInv, TypeOK, Owned
  <2>4. hist[k].acct \in S /\ hist[k].valuation \in Int
    BY <1>1, <2>3 DEF SnapsOf
  <2> QED
    BY <1>2, <2>1, <2>4
<1>7. ASSUME NEW a \in S
      PROVE  /\ cash[a] \in Int /\ balance[a] \in Int /\ balance[a] = cash[a] + Total(value, part[a])
             /\ \A i : i \in part[a] <=> i \in I /\ acct[i] = a
  <2>1. \A i : i \in part[a] <=> i \in I /\ acct[i] = a
    BY <1>2
  <2>2. part[a] \in SUBSET I
    BY <2>1
  <2>3. IsFiniteSet(part[a]) /\ \A i \in part[a] : value[i] \in Int
    BY <1>5, <1>6, <2>2, FS_Subset
  <2>4. PICK n, v \in Int : v = Total(value, part[a]) /\ n = snaps[<<a, m>>]
    BY <1>4, <2>3, TotalType
  <2>5. balance[a] = n /\ cash[a] = n - v
    BY <1>3, <2>4
  <2>6. n = (n - v) + v
    OBVIOUS
  <2> QED
    BY <2>1, <2>4, <2>5, <2>6
<1>8. \A i : i \in lost <=> i \in I /\ acct[i] \notin J
  BY <1>1, <1>2, <1>6 DEF Invests
<1>9. /\ Total(cash, J) + Total(balance, C) \in Int /\ Total(balance, A) \in Int /\ Total(value, I) \in Int
      /\ (Total(cash, J) + Total(balance, C)) + Total(balance, A) + Total(value, I) = Total(balance, S) + Total(value, lost)
  <2>1. \A a \in J : a \in S
    BY <1>5
  <2>2. \A a \in J : balance[a] = cash[a] + Total(value, part[a])
    BY <1>7, <2>1
  <2>3. \A a \in J : \A i : i \in part[a] <=> i \in I /\ acct[i] = a
    BY <1>7, <2>1
  <2>4. \A a \in S : cash[a] \in Int /\ balance[a] \in Int
    BY <1>7
  <2>5. Sliced(S, J, C, A, cash, balance, I, acct, value, part, lost)
    BY <1>5, <1>6, <1>8, <2>2, <2>3, <2>4 DEF Sliced
  <2> QED
    BY <2>5, SlicesAddUp
<1>10. Recorded(m) = balance
  BY <1>1, <1>3 DEF Recorded
<1>11. \A T : Valuations(T, m) = Total(value, T)
  BY <1>1, <1>2, SumIsTotal DEF Valuations
<1>12. [a \in SnapsOf(m) |-> snaps[<<a, m>>] - Valuations(ValuedIn(a, m), m)] = cash
  <2>1. \A a \in S : ValuedIn(a, m) = part[a]
    BY <1>1, <1>2 DEF ValuedIn
  <2> QED
    BY <1>1, <1>3, <1>11, <2>1
<1>13. Trend(m) = [CASH |-> Sum(cash, J) + Sum(balance, C), ASSET |-> Sum(balance, A), INVESTMENT |-> Total(value, I)]
  BY <1>1, <1>10, <1>11, <1>12 DEF Trend
<1>14. Trend(m) = [CASH |-> Total(cash, J) + Total(balance, C), ASSET |-> Total(balance, A), INVESTMENT |-> Total(value, I)]
  BY <1>13, SumIsTotal
<1>15. AllOf(Trend(m)) = (Total(cash, J) + Total(balance, C)) + Total(balance, A) + Total(value, I)
  BY <1>9, <1>14, ThreeSlices
<1>16. YearlyTotal(m) = Total(balance, S)
  BY <1>1, <1>10, SumIsTotal DEF YearlyTotal
<1> QED
  BY <1>9, <1>11, <1>15, <1>16

\* The slices add up where what is counted belongs to an account.
LEMMA WealthFollows == IInv => WealthAddsUp
<1> SUFFICES ASSUME IInv PROVE WealthAddsUp
  OBVIOUS
<1> QED
  BY AllocationAddsUp, TrendAddsUp DEF WealthAddsUp

\* The slices of the allocation and of every month of the trend add up to the totals that the
\* wealth page shows, but for the worth of items in accounts that no longer invest
\* (wealth/service.py, _build_allocation and build_allocation_trend).
THEOREM WealthSums == Spec => []WealthAddsUp
BY Invariance, WealthFollows, PTL
=============================================================================
