----------------------------- MODULE Snapshots -----------------------------
(***************************************************************************)
(* The monthly snapshots of one household                                  *)
(* (src/app/domain/account_snapshot, portfolio/snapshot_service.py, the    *)
(* month prices of src/app/domain/market_price).  The scheduled job and    *)
(* the manual POST are database transactions under READ COMMITTED: each    *)
(* statement sees what is committed by then and the run's own writes, a    *)
(* DELETE waits for the rows another transaction is deleting, an upsert    *)
(* for the price rows another one is writing.  There is no unique index on *)
(* (account, month) and only the job takes an advisory lock.               *)
(*                                                                         *)
(* A soft-deleted row and a deleted one are both gone: no query here sees  *)
(* either.  An investing account holds one item.  The price of an item is  *)
(* 2 for a month whose price is stored, what was paid for it is 1.         *)
(***************************************************************************)
EXTENDS Integers, FiniteSets, FiniteSetsExt

CONSTANTS
    Accounts, Workers,
    Listed,        \* accounts whose item the price service quotes
    Unlisted,      \* accounts whose item is of market OTHER
    LastMonth,     \* bound: the months are 1..LastMonth
    CatchUp,       \* SNAPSHOT_CATCHUP_MONTHS, 12 in the code
    Entries,       \* bound: the entries users make, of an account, a month and a kind
    Budget,        \* bound on the requests and jobs of a behaviour
    Edits,         \* bound on the changes to the household's books
    None

ASSUME ItemsAssumption  == Listed \cup Unlisted \subseteq Accounts /\ Listed \cap Unlisted = {}
ASSUME WindowAssumption == LastMonth \in Nat \ {0} /\ CatchUp \in Nat /\ CatchUp >= 2
ASSUME EntriesAssumption ==
    Entries \subseteq (Accounts \X Nat \X {"cash"}) \cup ((Listed \cup Unlisted) \X Nat \X {"trade"})
ASSUME BoundsAssumption == Budget \in Nat /\ Edits \in Nat

VARIABLES
    target,    \* last month, by the clock: the month to snapshot
    clash,     \* whether another household keeps an OTHER item under a code of this one's
    book,      \* the entries of the accounts
    accts,     \* the committed status of the accounts
    prices,    \* the committed market_price_history rows: item and month
    rows,      \* the committed, active account_snapshots rows
    hist,      \* the committed, active portfolio_value_history rows
    pc, job,   \* where a transaction stands and what it works on
    mine,      \* its uncommitted writes
    left,      \* how many more requests and jobs arrive
    edits,     \* how many more entries are made
    calm,      \* history: transactions nothing else happened during
    unpriced,  \* history: items whose price some run did not store
    crossed    \* history: accounts deleted while a snapshot was being made

vars == <<target, clash, book, accts, prices, rows, hist, pc, job, mine, left, edits,
          calm, unpriced, crossed>>

Months    == 1..LastMonth
Investing == Listed \cup Unlisted
Rows      == [acct : Accounts, month : Months, amount : Int, by : 1..Budget]
Kinds     == {"auto", "manual", "delete"}
Jobs      == [kind : Kinds, id : 1..Budget, upto : Months, todo : SUBSET Months,
              replace : BOOLEAN, cash : UNION {[A -> Int] : A \in SUBSET Accounts},
              doomed : SUBSET Rows, acct : Accounts \cup {None}]
Writes    == [keys : SUBSET (Investing \X Months), rows : SUBSET Rows, gone : SUBSET Rows,
              hist : SUBSET Rows, unhist : SUBSET Rows]
NoWrites  == [keys |-> {}, rows |-> {}, gone |-> {}, hist |-> {}, unhist |-> {}]

ASSUME NoneAssumption == None \notin Accounts \cup Jobs

TypeOK ==
    /\ target \in Months /\ clash \in BOOLEAN
    /\ book   \subseteq Entries
    /\ accts  \in [Accounts -> {"ACTIVE", "ARCHIVED", "DELETED"}]
    /\ prices \subseteq Investing \X Months
    /\ \A r \in rows \cup hist : r \in Rows
    /\ pc     \in [Workers -> {"idle", "prices", "floor", "decide", "wipe", "wiped",
                               "measure", "save", "history", "commit"}]
    /\ \A w \in Workers : pc[w] = "idle" <=> job[w] = None
    /\ \A w \in Workers : pc[w] = "idle" => mine[w] = NoWrites
    /\ \A w \in Workers : mine[w].gone \cap mine[w].rows = {}
    /\ left \in 0..Budget /\ edits \in 0..Edits
    /\ calm \subseteq Workers /\ unpriced \subseteq Investing /\ crossed \subseteq Accounts

Init ==
    /\ target = 1 /\ clash \in BOOLEAN /\ book = {} /\ prices = {} /\ rows = {} /\ hist = {}
    /\ accts = [a \in Accounts |-> "ACTIVE"]
    /\ pc    = [w \in Workers |-> "idle"]
    /\ job   = [w \in Workers |-> None]
    /\ mine  = [w \in Workers |-> NoWrites]
    /\ left  = Budget /\ edits = Edits
    /\ calm  = {} /\ unpriced = {} /\ crossed = {}

-----------------------------------------------------------------------------
(* Figures *)

Open      == {w \in Workers : pc[w] # "idle"}
Scope     == {a \in Accounts : accts[a] = "ACTIVE"}
Until(a, m, kind) == Cardinality({k \in 1..m : <<a, k, kind>> \in book})

\* _calc_investment_balance and _calc_cash_balance up to the end of month m
Cash(a, m) == Until(a, m, "cash") - Until(a, m, "trade")

\* value_holdings_at_month: the month's price, the cost where there is none
PriceOf(a, m, ps) == IF <<a, m>> \in ps THEN 2 ELSE 1

\* asof_holdings_by_account: what is held at the end of the month
Held(a, m)      == Until(a, m, "trade")
Worth(a, m, ps) == Held(a, m) * PriceOf(a, m, ps)

SeenRows(w)   == (rows \ mine[w].gone) \cup mine[w].rows
SeenHist(w)   == (hist \ mine[w].unhist) \cup mine[w].hist
SeenPrices(w) == prices \cup mine[w].keys

InMonth(S, m) == {r \in S : r.month = m}
Has(S, m)     == InMonth(S, m) # {}
\* Variant: the newest month instead of the oldest
NewestMonth(S) == Max({r.month : r \in S})
OldestMonth(S) == Min({r.month : r \in S})
\* Variant: the snapshots are forgotten
RowsOfNone(a)  == {}
RowsOf(a)      == {r \in rows : r.acct = a}
HistOf(a)      == {h \in hist : h.acct = a}
Current(w)     == Max(job[w].todo)

-----------------------------------------------------------------------------
(* Transactions *)

Goto(w, label)   == pc' = [pc EXCEPT ![w] = label]
HeldKeys(w)      == UNION {mine[v].keys : v \in Workers \ {w}}
Deleting(w)      == UNION {mine[v].gone : v \in Workers \ {w}}
Untouched        == UNCHANGED <<target, clash, book, accts, prices, rows, hist, left, edits>>

Start(w, kind, doomed, acct) ==
    /\ pc[w] = "idle" /\ left > 0
    /\ left' = left - 1
    /\ job'  = [job EXCEPT ![w] =
                  [kind |-> kind, id |-> Budget - left + 1, upto |-> target, todo |-> {target},
                   replace |-> FALSE, cash |-> << >>, doomed |-> doomed, acct |-> acct]]
    /\ calm' = IF Open = {} THEN {w} ELSE {}
    /\ UNCHANGED <<target, clash, book, accts, prices, rows, hist, edits, unpriced>>

Crossing == crossed' = crossed \cup ({job[v].acct : v \in Open} \ {None})

\* create_monthly_snapshots_job, under the advisory lock of its name
StartAuto(w) ==
    /\ \A v \in Open : job[v].kind # "auto"
    /\ Start(w, "auto", {}, None) /\ Goto(w, "prices") /\ Crossing
    /\ UNCHANGED mine

\* Variant: the manual snapshot does not store prices first
StartManualUnpriced(w) ==
    /\ Start(w, "manual", {}, None) /\ Goto(w, "decide") /\ Crossing
    /\ UNCHANGED mine

\* create_target_month_snapshot
StartManual(w) ==
    /\ Start(w, "manual", {}, None) /\ Goto(w, "prices") /\ Crossing
    /\ UNCHANGED mine

\* delete_account: an account that holds nothing; the value history goes first, then
\* the UPDATE of the snapshots begins with the rows it sees
StartDelete(w, a) ==
    /\ accts[a] # "DELETED" /\ \A m \in Months : <<a, m, "trade">> \notin book
    /\ \A v \in Open : job[v].acct # a
    /\ Start(w, "delete", RowsOf(a), a) /\ Goto(w, "wiped")
    /\ mine' = [mine EXCEPT ![w].unhist = HistOf(a)]
    /\ crossed' = crossed \cup (IF Open = {} THEN {} ELSE {a})

Items == {a \in Investing : accts[a] # "DELETED"}

\* backfill_yahoo_monthly: what the price service answered, for every month so far
Backfill(fetched) == fetched \X (1..target)

\* snapshot_other_prices: the price the user keeps, for the month of the snapshot
OtherPrices(w) == (Items \cap Unlisted) \X {job[w].upto}

\* The job stores the OTHER prices of all households in one INSERT ... ON CONFLICT DO
\* UPDATE, and the database refuses one that names a row twice
Refused(w) == job[w].kind = "auto" /\ clash /\ Items \cap Unlisted # {}

\* Both upserts, once no other transaction is writing one of the rows
Upsert(w) ==
    /\ pc[w] = "prices" /\ ~Refused(w)
    /\ \E fetched \in SUBSET (Items \cap Listed) :
         LET keys == Backfill(fetched) \cup OtherPrices(w)
         IN  /\ keys \cap HeldKeys(w) = {}
             /\ mine' = [mine EXCEPT ![w].keys = keys]
             /\ unpriced' = unpriced \cup (Investing \ fetched)
    /\ Goto(w, IF job[w].kind = "auto" THEN "floor" ELSE "decide")
    /\ Untouched /\ UNCHANGED <<job, calm, crossed>>

\* The job fills the months from the oldest snapshot on, within the catch-up window
Floor(w) ==
    /\ pc[w] = "floor"
    /\ LET upto  == job[w].upto
           floor == IF SeenRows(w) = {} THEN upto ELSE OldestMonth(SeenRows(w))
       IN  job' = [job EXCEPT ![w].todo = {m \in Months : m <= upto /\ m > upto - CatchUp /\ m >= floor}]
    /\ Goto(w, IF job'[w].todo = {} THEN "commit" ELSE "decide")
    /\ Untouched /\ UNCHANGED <<mine, calm, unpriced, crossed>>

\* Done with a month: the next older one, or the commit
NextMonth(w) ==
    /\ job' = [job EXCEPT ![w].todo = @ \ {Current(w)}, ![w].cash = << >>, ![w].doomed = {}]
    /\ Goto(w, IF job'[w].todo = {} THEN "commit" ELSE "decide")

\* Variant: one month more is recomputed
UpsertMonthsThree(w) == (job[w].upto - 2)..job[w].upto
UpsertMonths(w) == {job[w].upto, job[w].upto - 1}

\* A month that exists is replaced if recent and left alone otherwise
Decide(w) ==
    /\ pc[w] = "decide"
    /\ LET exists == Has(SeenRows(w), Current(w))
       IN  IF exists /\ Current(w) \notin UpsertMonths(w)
           THEN NextMonth(w)
           ELSE /\ job' = [job EXCEPT ![w].replace = exists]
                /\ Goto(w, IF exists THEN "wipe" ELSE "measure")
    /\ Untouched /\ UNCHANGED <<mine, calm, unpriced, crossed>>

\* The DELETE of the month's rows begins: it has seen these rows ...
Wipe(w) ==
    /\ pc[w] = "wipe"
    /\ job' = [job EXCEPT ![w].doomed = InMonth(SeenRows(w), Current(w))]
    /\ Goto(w, "wiped")
    /\ Untouched /\ UNCHANGED <<mine, calm, unpriced, crossed>>

\* ... and ends once nobody else is deleting any of them
Wiped(w) ==
    /\ pc[w] = "wiped"
    /\ job[w].doomed \cap Deleting(w) = {}
    /\ mine' = [mine EXCEPT ![w].gone = @ \cup (job[w].doomed \cap rows)]
    /\ Goto(w, IF job[w].kind = "delete" THEN "commit" ELSE "measure")
    /\ Untouched /\ UNCHANGED <<job, calm, unpriced, crossed>>

\* The accounts that are neither deleted nor archived, and the cash of each
Measure(w) ==
    /\ pc[w] = "measure"
    /\ IF Scope = {} /\ ~job[w].replace
       THEN NextMonth(w)
       ELSE /\ job' = [job EXCEPT ![w].cash = [a \in Scope |-> Cash(a, Current(w))]]
            /\ Goto(w, "save")
    /\ Untouched /\ UNCHANGED <<mine, calm, unpriced, crossed>>

\* The holdings are valued by later queries; the rows are inserted
Save(w) ==
    /\ pc[w] = "save"
    /\ LET m == Current(w) IN
       mine' = [mine EXCEPT ![w].rows = @ \cup
                {[acct |-> a, month |-> m, by |-> job[w].id,
                  amount |-> job[w].cash[a] + Worth(a, m, SeenPrices(w))] : a \in DOMAIN job[w].cash}]
    /\ Goto(w, "history")
    /\ Untouched /\ UNCHANGED <<job, calm, unpriced, crossed>>

\* Variant: the value history is not replaced
HistoryAppended(w) ==
    /\ pc[w] = "history"
    /\ mine' = [mine EXCEPT ![w].hist = @ \cup
                {[acct |-> a, month |-> Current(w), by |-> job[w].id,
                  amount |-> Worth(a, Current(w), SeenPrices(w))] :
                 a \in {b \in Scope \cap Investing : Held(b, Current(w)) > 0}}]
    /\ NextMonth(w)
    /\ Untouched /\ UNCHANGED <<calm, unpriced, crossed>>

\* snapshot_household_portfolio: reads the accounts and their holdings once more
History(w) ==
    /\ pc[w] = "history"
    /\ LET m    == Current(w)
           old  == IF job[w].replace THEN InMonth(SeenHist(w), m) ELSE {}
           held == {a \in Scope \cap Investing : Held(a, m) > 0}
       IN  mine' = [mine EXCEPT
             ![w].unhist = @ \cup (old \cap hist),
             ![w].hist   = @ \cup {[acct |-> a, month |-> m, by |-> job[w].id,
                                    amount |-> Worth(a, m, SeenPrices(w))] : a \in held}]
    /\ NextMonth(w)
    /\ Untouched /\ UNCHANGED <<calm, unpriced, crossed>>

\* Variant: what was written outlives the transaction
EndForgetful(w) ==
    /\ Goto(w, "idle")
    /\ job'  = [job EXCEPT ![w] = None]
    /\ calm' = calm \ {w}
    /\ UNCHANGED mine

End(w) ==
    /\ Goto(w, "idle")
    /\ job'  = [job EXCEPT ![w] = None]
    /\ mine' = [mine EXCEPT ![w] = NoWrites]
    /\ calm' = calm \ {w}

Commit(w) ==
    /\ pc[w] = "commit"
    /\ rows'   = (rows \ mine[w].gone) \cup mine[w].rows
    /\ hist'   = (hist \ mine[w].unhist) \cup mine[w].hist
    /\ prices' = prices \cup mine[w].keys
    /\ accts'  = IF job[w].kind = "delete" THEN [accts EXCEPT ![job[w].acct] = "DELETED"] ELSE accts
    /\ End(w)
    /\ UNCHANGED <<target, clash, book, left, edits, unpriced, crossed>>

\* A failing query or a crash: the whole transaction, every month of it, is rolled back
Abort(w) ==
    /\ w \in Open
    /\ End(w)
    /\ Untouched /\ UNCHANGED <<unpriced, crossed>>

\* ... so that the job fails, for every household
Refuse(w) ==
    /\ pc[w] = "prices" /\ Refused(w)
    /\ End(w)
    /\ Untouched /\ UNCHANGED <<unpriced, crossed>>

-----------------------------------------------------------------------------
(* The rest of the household *)

\* An entry dated in a past or the present month is made or taken back
Enter(e) ==
    /\ edits > 0 /\ edits' = edits - 1
    /\ accts[e[1]] # "DELETED"
    /\ e[2] <= target
    /\ book' = IF e \in book THEN book \ {e} ELSE book \cup {e}
    /\ calm' = {}
    /\ UNCHANGED <<target, clash, accts, prices, rows, hist, pc, job, mine, left, unpriced, crossed>>

\* update_account with is_archived
Archive(a) ==
    /\ edits > 0 /\ edits' = edits - 1
    /\ accts[a] # "DELETED"
    /\ accts' = [accts EXCEPT ![a] = IF @ = "ACTIVE" THEN "ARCHIVED" ELSE "ACTIVE"]
    /\ calm' = {}
    /\ UNCHANGED <<target, clash, book, prices, rows, hist, pc, job, mine, left, unpriced, crossed>>

\* No run takes longer than a month
MonthEnds ==
    /\ target < LastMonth /\ target' = target + 1
    /\ \A w \in Open : job[w].upto = target
    /\ UNCHANGED <<clash, book, accts, prices, rows, hist, pc, job, mine, left, edits, calm, unpriced, crossed>>

Run(w) ==
    \/ StartAuto(w) \/ StartManual(w) \/ \E a \in Accounts : StartDelete(w, a)
    \/ Upsert(w) \/ Refuse(w) \/ Floor(w) \/ Decide(w) \/ Wipe(w) \/ Wiped(w)
    \/ Measure(w) \/ Save(w) \/ History(w) \/ Commit(w) \/ Abort(w)

Next ==
    \/ \E w \in Workers : Run(w)
    \/ \E e \in Entries : Enter(e)
    \/ \E a \in Accounts : Archive(a)
    \/ MonthEnds

Spec == Init /\ [][Next]_vars

-----------------------------------------------------------------------------
(* What a user relies on *)

Same(r, s) == r.acct = s.acct /\ r.month = s.month

\* portfolio/repository.py says of items of one code that the last one wins in the
\* upsert of their prices (find_active_other_prices).
SharedCodesAccepted == [][\A w \in Workers : ~Refuse(w)]_vars

\* docs/codewalk/05-fixed-snapshot.md: making a month's snapshot twice leaves no
\* duplicates (has_active_for_month, then insert or replace).
OneRowPerMonth == \A r, s \in rows : Same(r, s) => r = s

\* What the code does guarantee: runs that all store the price of one item are
\* serialised by its row, because the existence of the month is asked for after
\* the upsert of the prices; then an account has one row a month.
PricesSerialiseRuns == Listed \subseteq unpriced \/ OneRowPerMonth

\* The rows of a month, and its value history, are those of the books
RowsExact(m) ==
    /\ \A r \in InMonth(rows, m) : accts[r.acct] = "ACTIVE" /\ r.amount = Cash(r.acct, m) + Worth(r.acct, m, prices)
    /\ \A a \in Scope : Cardinality({r \in InMonth(rows, m) : r.acct = a}) = 1
HistExact(m) ==
    \A a \in Scope : LET own == {h \in InMonth(hist, m) : h.acct = a}
                     IN  /\ Cardinality(own) = (IF Held(a, m) > 0 THEN 1 ELSE 0)
                         /\ \A h \in own : h.amount = Worth(a, m, prices)

\* A value history without snapshots, left by a run that replaced a month while its last
\* account was archived and unarchived: the next run takes the month for a new one
Orphaned(m) == Has(hist, m) /\ ~Has(rows, m)

\* A run during which nothing else happened leaves every month it wrote exact:
\* duplicates, rows of archived or deleted accounts, balances and valuations torn by
\* entries made meanwhile are gone, whatever came before; only an orphaned value
\* history is not replaced but doubled
CalmRunRepairs ==
    [][\A w \in calm : Commit(w) =>
         \A m \in {r.month : r \in mine[w].rows} : RowsExact(m)' /\ (~Orphaned(m) => HistExact(m)')]_vars

\* A month that was snapshotted and is older than the two recomputed ones loses rows
\* only to the deletion of their account and gets none
OldMonthsStay ==
    [][\A w \in Workers : Commit(w) /\ job[w].kind # "delete" =>
         \A m \in 1..(job[w].upto - 2) : Has(rows, m) => InMonth(rows', m) = InMonth(rows, m)]_vars

\* After the job has run, no month between the household's first snapshot and the last
\* month lacks one, as far back as the catch-up reaches
CatchUpLeavesNoGap ==
    [][\A w \in calm : Commit(w) /\ job[w].kind = "auto" /\ Scope # {} =>
         \A m \in Months : /\ m <= job[w].upto /\ m > job[w].upto - CatchUp
                           /\ m = job[w].upto \/ \E r \in rows : r.month <= m
                           => Has(rows', m)]_vars

\* A deleted account leaves no row behind in any month's totals, unless it was deleted
\* while a snapshot was being made
NoRowsOfTheDeleted ==
    \A r \in rows \cup hist : accts[r.acct] = "DELETED" => r.acct \in crossed
=============================================================================
