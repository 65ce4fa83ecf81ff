# Household ledger: verification project

The repository is the back end of a household account book: FastAPI, SQLAlchemy (async) and
PostgreSQL under READ COMMITTED, one process per container and more than one container
(`docker-compose.multi.yml`). Almost every number a user sees is derived from rows by sums and
replays, almost nothing is guarded by a lock, and the code says in many places why that is
supposed to be enough. This project states what "enough" means and checks it.

All line numbers are relative to the repository, all paths below start at `src/app/` unless
another root is given.

## 1. Inventory

A request is one database session: `get_db` (`core/database.py:46`) opens it, the handler runs,
the exit code of the dependency commits, an exception rolls back. Components meet in the
database only; there are no queues or callbacks between them. The exceptions are the idempotency
middleware, which wraps the handler with a second session of its own, the scheduler, which opens
sessions outside of requests, and the alert table in process memory. The data base refuses few
things: there are unique indexes on idempotency keys, month prices and currency pairs, and on
nothing else, so that every other uniqueness rests on a check before an insert.

| component | state | operations | hard behaviours | what makes it correct |
|---|---|---|---|---|
| idempotency (`core/idempotency`) | `idempotency_records`, unique (user, key) | acquire, mark completed, release, hourly cleanup | retries on other processes while the first attempt runs; two transactions and a crash between their commits; lost connections; TTL | one execution of a key at a time; at most one committed effect; a stored answer goes to the same call only; nobody waits for ever |
| stock items and trades (`domain/portfolio`) | `portfolio_items` (stored quantity, average), `portfolio_transactions` (stored profit) | create, buy, sell, edit, delete, archive, remove; each trade mutation replays all trades | two replays at a time; backdated trades; rounding; locks in opposite orders; deleted items that revive | what is stored is what the trades say; no date is short; money is conserved; damage is repaired |
| as-of holdings (`domain/portfolio/repository.py:444`) | none | quantity and average for a date in SQL | a second computation of the same numbers | agrees with the replay |
| transactions (`domain/transaction`) | `transactions` | create, partial update, soft delete, paged ledger with running balance | two partial updates of a row; a row whose type changes; page edges | ledger and sums agree, however it is paged |
| accounts (`domain/account`) | `accounts` | create, update, cascading soft delete, balances | deletion of both ends of a transfer; deletion during an insert | no orphan row; the other balances do not move |
| monthly snapshots (`domain/account_snapshot`, `domain/portfolio/snapshot_service.py`, `domain/market_price`) | `account_snapshots`, `portfolio_value_history`, `market_price_history` | monthly job with catch-up, manual snapshot, price upserts | job and manual run at a time; late entries and deletions during a run; missing prices | one row per account and month where prices serialise the runs; a calm run repairs; no gap; settled months stay |
| scheduler and jobs (`core/scheduler.py`, `core/jobs.py`, `main.py`) | advisory locks | `run_locked_job` on every instance, bootstrap | every instance fires every job; external calls inside the transaction; crashes | a job runs once at a time; a failed or killed run does not stop later ones |
| exchange rate, current prices (`domain/exchange_rate`, `domain/market_price/service.py`) | `currency_rates`, `portfolio_items.current_price` | scheduled jobs, a user's refresh | a job and a user write the same rows in different orders; a rate replaced during a refresh | prices are current and converted; deadlocks end |
| demo seed (`core/demo/seed.py`) | the demo user and the households it owns | purge and insert | bootstrap and reset run under two lock names; visitors at work | the demo is restored |
| households (`domain/household`) | `households`, `household_members` | create, add, remove, delete with cascade | check-then-insert without an index; additions during a deletion | one membership per user, the owner gets in, deleted households are empty |
| sign-in (`domain/auth`, `core/auth`) | `refresh_tokens` | sign in, refresh, sign out | sign-ins at a time; equal tokens | the cap holds again after the next sign-in |
| users | `users` | register, change the profile | check-then-insert | one user per address |
| categories and fixed items (`domain/category`, `domain/fixed`) | one table each | create, update, soft delete | rows that were validated against them stay | the month's figures agree |
| wealth, home, stats (`domain/wealth`, `domain/home`, `domain/stats`) | none | reads | most figures are computed twice, with different filters | totals, slices, charts, calendar and ledgers add up |
| settings, enum, health; alerts (`core/alert.py`); access log, error mapping, schema, backups | cooldown stamps in memory | - | - | - |

`PROJECT.json` lists the components with their status, and under `hazards` every place where a
test would hardly reach what can go wrong, with the property that watches it or the reason why
none does yet.

## 2. Modules

```
KeyContract <-- IdempotencyRefinement --> Idempotency
                  ^          ^
        MCIdempotency   IdempotencyProofs

MovingAverage --\                     AccountLedger --\
                 > Portfolio                           > Ledger <-- LedgerProofs --> Totals
UnitOfWork ----/   ^     ^            UnitOfWork ----/      ^
          MCPortfolio  PortfolioProofs --> Totals        MCLedger

AccountLedger <-- Books <-- MCBooks
                    ^
               BooksProofs --> Totals

Snapshots <-- MCSnapshots     ScheduledJobs <-- MCScheduledJobs     Access <-- MCAccess
    ^                               ^                                 ^
SnapshotsProofs               ScheduledJobsProofs                 AccessProofs
```

(`A --> B`: A extends or instantiates B. `Totals` proves what is needed of finite sets and of sums
over them.) `UnitOfWork` is what both session models use of
SQLAlchemy: an UPDATE names the columns whose value differs from the loaded one.

### Idempotency

Models `IdempotencyMiddleware.dispatch` for POST requests with a key and a valid token, from the
insert of the record to the answer. `pc` is the place in `dispatch`:

| `pc` | place in the code |
|---|---|
| `acquire` | before or inside the INSERT .. ON CONFLICT DO NOTHING (`repository.py:17`) |
| `conflict` | the insert found a row; lookup and answer (`service.py:49-67`, `middleware.py:80-88`) |
| `router` | inside `call_next` |
| `respond` | the handler returned; get_db's exit code and the hand-over of the response (`middleware.py:92`) |
| `marked` | after `mark_completed`, before the commit (`middleware.py:109`) |
| `unwind` | the except block (`middleware.py:112`) |
| `done`, `dead` | answered; the process died |

The middleware's transaction is not a variable of its own: between the insert and its only commit
it exists exactly as the entry `holder[k] = r`, an uncommitted row that no other transaction sees
and that makes their insert wait. `rec[k]` is the committed row. `biz[r]` is the router's
transaction, committed by `TeardownCommits`. `TeardownFirst` says whether FastAPI runs that exit
code before the response reaches the middleware or not: the pinned version (`src/uv.lock:286`)
runs it after the response, so both orders are checked and the proofs hold for both.

Faults: `LoseConnection` (the database ends the middleware's transaction while the router goes
on), `CommitRecord` with a lost acknowledgement, `TeardownRaises` (a commit that raises although
it may have happened), `StoreFails`, `Crash` of a process with all its requests, and time
(`Expire`) with the cleanup job.

`KeyContract` is the abstract specification: a key is owned by at most one execution, an
execution keeps its response or gives the key up, stored answers are the kept one, and forgetting
never meets an owner. `IdempotencyRefinement` maps `holder` to the owner, the committed row to the
kept response, and the answers by the execution they stem from. `Keep` may answer or not because
the acknowledgement of the commit may be lost.

### MovingAverage and Portfolio

`MovingAverage` is the arithmetic: `Replay` is `_recompute_realized_pnl` in the order of
`find_active_by_item_id`, `AsOfQty` and `AsOfAvg` are the SQL aggregate for a date. Money is in
units of 0.01 and the running cost is an exact fraction, which stands for Decimal's 28 digits; the
three roundings (ROUND_HALF_UP, ROUND_HALF_EVEN of `quantize`, PostgreSQL's numeric column) are
modelled by what they do.

`Portfolio` is one item and its trades under concurrent sessions:

| action | code |
|---|---|
| `Create`, `Enter` | `create_portfolio`, `buy`, `sell` up to the replay |
| `Edit`, `Erase`, `Write` | `update_`/`delete_portfolio_transaction`: load, flush of the row, load of the item |
| `Archive`, `Remove` | `update_portfolio`, `delete_portfolio` |
| `Recalc`, `Refuse` | `_recalc_item_from_transactions`, with its two BAD_REQUESTs |
| `LockTxRows`, `LockItemRow` | the row locks of the flush; the two tables in either order |
| `Commit`, `Rollback`, `Fail` | `get_db`'s exit code |
| `DeadlockVictim` | PostgreSQL's detector |

A query sees the committed rows of its moment plus the session's own (`View`); a row that is in
the session keeps its loaded values (`base`, `seen`); the flush writes changed columns only.

### AccountLedger and Ledger

`AccountLedger` has the two ways to an account's money: the sums (`CashFlow`) and the paged ledger
(`Ledger`), which starts from a sum and walks back row by row, each page continuing with the
balance its cursor carries. `Ledger` is the accounts and transactions of a household under
concurrent sessions: `Create`, `Load`/`Patch`/`Flush` for a partial update, `Erase`, `Retype`, and
`Close`/`Solo`/`Shared`/`Flush` for the sequence of UPDATEs that deletes an account. In the
initial state the accounts exist; `Assets` are those of a manual asset type.

### Snapshots

One household, its accounts (each with at most one item, quoted by the price service or not) and
months. A worker is a transaction: the monthly job, the manual snapshot, or the deletion of an
account. `pc` follows `create_monthly_snapshots_for_all` and `_build_and_save_snapshot`:

| `pc` | action | code |
|---|---|---|
| `prices` | `Upsert`, `Refuse` | `backfill_yahoo_monthly`, `snapshot_other_prices`, `upsert_prices`: waits for rows another run is writing; the service may answer for any part of the quoted items |
| `floor`, `decide` | `Floor`, `Decide` | the catch-up's floor; per month, skip, insert or replace |
| `wipe`, `wiped` | `Wipe`, `Wiped` | `delete_for_household_month`: finds rows, waits for whoever is deleting them |
| `measure`, `save` | `Measure`, `Save` | cash first, then holdings at the month's price and the rows |
| `history` | `History` | `snapshot_household_portfolio`, which deletes and inserts in turn |
| `commit` | `Commit`, `Abort` | `get_db`, `run_locked_job` |

`Enter` adds an entry of any month, `Archive` archives an account, `MonthEnds` moves the clock on.
`clash` says whether the job's list of OTHER prices names one code twice.

### ScheduledJobs

`Runs` are pairs of an instance and a job: `Begin` takes the advisory lock or changes nothing,
`Fail` rolls back and goes on to `Alert`, `Crash` kills all runs of an instance whose transactions
the server keeps, as `ghost`s with their locks, until `Reap`. The work is that of the rate job
(`FetchRate`, `CommitRate`), of the price jobs and of a user's refresh, which takes no advisory
lock (`FetchChunk` with one `Retry`, `Write` row by row, `CommitPrices`, `BreakDeadlock`), and of the
two seedings (`Ensure`, `Purge`, `CommitSeeding`). A visitor of the demo changes the profile, opens
a household or adds a row while all this goes on.

### Access

Users, refresh tokens, households, members and rows of a household. Each request is a check
(`Start...`) and, later, a write with the commit; both see what is committed at that moment.
`cascade` is the middle of `delete_household`, whose statements take the rows that exist when they
run. A token is its user and the second of the sign-in, because nothing else is signed into it.

### Books

The whole household, one request at a time: what is computed twice must agree after any sequence
of requests, and no concurrency is needed to make it differ. The state is the tables; the initial
state is what the demo seed creates, two or three rows of a kind. The figures are the operators
`Balance` and `ListAccounts` (the two computations of a balance), `ByType`, `Calendar`, `Chart`,
`ByFixed` and `AccountMonth` (those of a month), `Allocation`, `Trend` and `YearlyTotal`. `bent` are
the rows that were left under a category that does not fit them: an update of the type that names
no category, or a change of the category's kind; `UpdateTransaction` validates what the code does.

## 3. What the runs check

| run | instance | shows |
|---|---|---|
| `idem_overlap` | 3 attempts, 1 key, 2 processes, get_db's commit overlapping | executions exclude each other, a second effect needs a failure or an expired record, no PENDING row is ever visible, and ID003 is answered only after a cleanup |
| `idem_ordered` | 2 attempts, 2 keys x 2 paths x 2 bodies, commit first | the key contract is implemented, `IInv` holds, an answered success is durable, stored answers match their request, every request is answered |
| `portfolio_sequential` | 1 session, 5 requests, 3 trades, 2 quantities, prices and dates | stored numbers are the replay's, the SQL's holdings of a date agree with it, money is conserved |
| `portfolio_races` | 2 sessions, 6 requests, 2 trades | a trade request that nobody overtakes stores what the trades say, whatever an earlier race left |
| `portfolio_live` | 2 sessions, 4 requests | every request ends |
| `ledger_races` | 3 accounts, 2 sessions, 3 requests, 2 dates | `IInv`, the invariant the proofs use; ledger and sums agree unless a row was raced for, pages agree always, a deleted account takes its rows, deletion moves no other balance |
| `snapshots_overlap` | 2 accounts, 3 months, 2 workers, 3 runs, 1 late entry | runs that store the price of an item are serialised by its row; a run nothing overlaps leaves its months exact, whatever earlier ones left; settled months stay; the job leaves no gap; a deleted account leaves rows only if a run was under way |
| `access_overlap` | 2 addresses, 2 sessions, 6 requests, 4 rows per table, a cap of 2 | duplicates need two inserts at a time, owners get in, deleted households are empty unless crossed, a lone sign-in restores the cap |
| `jobs_overlap` | 2 instances, 5 jobs, 2 pairs, 3 runs or requests | an undisturbed seeding restores the demo, refreshed prices are current and converted, every run ends |
| `books_figures` | 4 accounts, 3 categories, 2 items on the seed's books, 3 requests | balances, the figures of a month and the slices of the wealth add up, and by how much they do not is named by rows and items |

Two runs end in a violation of a sentence in the docs or comments, which `PROJECT.json` quotes:

| run | the code |
|---|---|
| `idem_doc_durable` | answers and stores a success whose effect then rolls back, when get_db's exit code overlaps |
| `snapshots_doc_codes` | stores the prices of all OTHER items by one statement, which PostgreSQL refuses if two have one code; an empty code is allowed, and the demo's gold has one |

Further disagreements were met while modelling. The modules do what the code does; the properties
above say what holds in spite of it:

- `tests/SCENARIOS.md:78` expects a crash to leave a PENDING record behind: it was never committed
  (`OneEffectPerKey` counts the second effect).
- An archived item can be bought again and stays archived (`portfolio/service.py:133` against 187).
- The average of a snapshot is over all purchases, that of an item is moving; they part at the
  first purchase after a sale (`portfolio/repository.py:494` says they agree; `AsOfHoldingsAgree`).
- Two partial updates of a transfer merge into a row that the ledger lists and the balance
  ignores (`transaction/service.py:575`; `LedgersCloseUnlessRaced`).
- A revaluation can lose its direction and another row have one (`transaction/enum.py:18`), and a
  TRANSFER can keep a category, which the monthly charts count (`transaction/repository.py:346`;
  `bent` in `MonthFiguresAgree`).
- Two manual snapshots of a household without a quoted item at a time store a month twice
  (`PricesSerialiseRuns` says when they cannot).
- A value history whose month has no snapshot is not replaced by the next run but joined by a second
  one (`Orphaned` in `CalmRunRepairs`; `portfolio/snapshot_service.py`).
- The demo's bootstrap and its reset hold different locks, although `main.py:51` says that no two
  instances seed at a time (`SeedingRestores` excepts `twins`).
- Two sign-ins within one second store the same token, whose lookup then raises
  (`auth/repository.py:34`), against `auth/router.py:68`.
- The worth of an item whose account no longer is an INVESTMENT account is in the allocation and
  not in the total, and twice in the trend (`WealthAddsUp`).

**Bounds.** A race needs two attempts and a third one that meets what they left: three attempts in
`idem_overlap`; two keys, paths and bodies distinguish "same call" in every combination. In
`Portfolio` two trades are enough for each pair of lock orders and for an oversale, three for
sale between two purchases, two prices for an average that differs from either. In `Ledger`
three accounts are needed because a transfer moved to another destination has a third one, three
requests because a race has two and something must exist before; two dates give both orders of
rows and a month with one before it. `MaxTx` bounds the rows entered, `Budget` the requests of a
behaviour: six in `portfolio_races`, enough for a race over existing trades, a second one over its
damage, and the repair. In `Ledger` one account begins as an asset, the others as cash.
Processes, attempts, cash accounts and sessions are symmetric in the runs without liveness.

In `Snapshots` three runs are a race and the calm run that meets its remains, three months are the
two that are recomputed and a settled one, and one late entry is enough to tear a snapshot. One
account has a quoted item and one an OTHER item, because only the former serialises runs. In
`Access` six requests reach two cap overruns, a deletion crossed by additions, and a member removed
and added again; the cap is 2 instead of 5, with 4 token rows. In `ScheduledJobs` three runs or
requests are a crashed or failed run, one that meets its locks and one after it; two pairs are a
market in dollars and one in won, written in either order; the quote moves once. In `Books` three
requests on the seed's books are enough to make a row, change what it refers to, and change it or
its account again; there are two months, entries are in the first (the month a snapshot is of), and
amounts are 5 so that no sum of a few shares cancels one. Updates name one field, or the type with a second one.

**Fairness.** `Idempotency`: weak fairness of each request's server steps and of get_db's exit
code, because the event loop runs every ready coroutine and handlers end; nothing is assumed of
crashes, faults, time or cleanup. Weak fairness suffices although several retries may wait for
one index entry: whoever gets in leaves the row or frees the entry, and attempts are finite.
`Portfolio`: strong fairness of a request's steps, because PostgreSQL grants row locks in the
order of the requests for them, so that a waiting session is not overtaken for ever, and weak
fairness of the deadlock detector, which runs after `deadlock_timeout`. `ScheduledJobs`: weak
fairness of one disjunction, that some run goes on while any can: calls to the price service and to
Discord have timeouts, waits between attempts end, the server executes statements, breaks deadlocks
and notices dead clients. Nothing makes the service answer, and nothing makes a trigger fire or a user ask.

**Deadlock** is not checked: the number of attempts, trades or requests is bounded, and a system
without a further request has stopped as it should. That nobody is stuck is stated by the three
liveness properties.

**Mutants.** Every property of a passing run has a mutant in the modules (an operator whose
comment starts with "Variant") that TLC refutes: a lookup instead of an atomic insert, a record
committed early or never, an increment instead of a replay, a fee forgotten, locks that outlive
their transaction, and so on.

## 4. What is proved

Everything in this section holds for every value of the constants that the named assumptions of
the module admit; the assumptions say that `None` is nothing else, that bounds are numbers, and
what the request schemas and the wiring guarantee, nothing about behaviours. Each component has one
inductive invariant, `IInv` (`IInv => P` for the invariants, and `IInv /\ Next => A` for the action
properties). TLC checked every one of them on the instances of the runs before it was proved;
those of `Idempotency` and `Ledger` are in the modules and in the runs, the others are stated in
the proof modules. The inductive step has one lemma per action or group of actions, and under it
one step per part that the action can disturb.

### Idempotency

For every set of requests, keys, calls, bodies and processes and, where not said otherwise, for both
orders of get_db's commit:

| theorem of `IdempotencyProofs` | |
|---|---|
| `Invariance` | `Spec => []IInv` |
| `Typing`, `Exclusion`, `PendingInvisible`, `ReplaySound`, `AtMostOneEffect` | the safety invariants of the runs, from `IInv` |
| `RefusedAfterCleanup` | `Spec => InProgressOnlyAfterCleanup` |
| `DurableAnswers` | `TeardownFirst => (Spec => []OkReplyIsDurable)`; in the other order it is false, which `idem_doc_durable` shows |
| `Refinement` | `Spec => ImplementsContract` |

`OneEffectPerKey` and `OneExecutionPerKey` are not inductive: that a second effect is impossible
rests on who owns the index entry and on what the row says. `IInv` has one named part per reason:
the owner of an entry is inside its transaction (`HolderIsRunning`) and an execution owns its entry
unless its connection broke (`RunningHolds`), hence exclusion; an entry and a committed row
exclude each other (`HeldKeyHasNoRow`); a row and an answer describe an execution that is over
(`RowDescribesExecution`, `AnswerDescribesExecution`), hence answers match their requests; an
execution answered below 500 has its row unless the TTL took it (`AnsweredIsKept`), hence one effect
per key. `AnswerIsKnown` and `NothingBeforeAcquire` tie the control state to the outcome. Two later
parts stand on it: who lost the insert and finds no row has been preceded by a cleanup
(`CleanupRemembers`), and where the exit code runs first every outcome of success is a committed
one (`CommitPrecedes`). The refinement proof shows that the owner, the kept response and the
answers map each action to `Take`, `Keep`, `GiveUp`, `Replay`, `Forget` or a stutter, with `IInv` for
the guards.

### Sums and recursive functions

`Replay`, `Ledger` and `MapThenSumSet` are recursive functions, of which a definition says only
that they are some function that satisfies the recursion, if there is one. `Totals` and the
proofs that use it therefore first show that one exists, for larger and larger sets, and then argue
by the smallest counterexample: of the sets for which a claim fails there is one without a smaller
one (`SmallestSet`, from the well-foundedness of `<`), and it does not fail there. This replaces the
library's induction theorems, whose operator parameter no installed prover can instantiate.
`Totals!TotalOfMore` is the first thing this gives: a sum over a finite set does not depend on the order
in which `CHOOSE` takes the elements. From it follow that sums add up element by element
(`TotalAdds`), over disjoint sets (`TotalOfUnion`), and over the classes that a function cuts a
set into (`TotalOfParts`): what a GROUP BY promises.

### MovingAverage and Portfolio

For every finite book of trades with quantities above zero, and prices, fees and dates that are
whole numbers not below zero (`TradesAssumption`; cents and whole shares):

| theorem | |
|---|---|
| `PortfolioProofs!ReplayType`, `RoundedExact`, `ReplayReads` | the replay ends, its numbers are no negative ones, rounding leaves whole numbers alone, and no stored profit plays a part in it |
| `PortfolioProofs!ReplayConserves` | what a replay that is not short has bought and sold leaves as quantity, cost and profit, up to half a cent per sale and per share held |
| `PortfolioProofs!AsOfIsHeld` | the SQL's quantity for a date is not negative where the replay is not short, and at the last date the one of the replay |
| `PortfolioProofs!AveragesAgree` | without a sale the SQL's average and the replay's agree up to their two roundings |
| `PortfolioProofs!Invariance`, `TypeCorrect` | `Spec => []IInv`, `Spec => []TypeOK` |
| `PortfolioProofs!SoloRequestsRepair` | `Spec => SoloRequestRepairs`, for any number of sessions |
| `PortfolioProofs!OneAtATimeMatches`, `OneAtATimeHoldingsAgree`, `OneAtATimeMoneyConserved` | with one session: `Spec => []StoredMatchesReplay`, `[]AsOfHoldingsAgree`, `[]MoneyConserved` |

`Known` is the heart of `IInv`: what a request has loaded is what is stored, and what it plans to
write is what a replay of that says, as long as no other commit has overtaken it (`late`). With one
session nobody is overtaken, and the three invariants follow; with two they are false, and the
theorem that remains is the repair. `Held` keeps what is true of overtaken requests too, so that
types survive races.

### AccountLedger and Ledger

For every set of accounts and sessions, every set of assets among the accounts, amounts above zero
(`AmountsAssumption`), and every bound on rows and requests:

| theorem of `LedgerProofs` | |
|---|---|
| `Invariance`, `Typing` | `Spec => []IInv`, `Spec => []TypeOK` |
| `DeletionTakesRows` | `Spec => []DeadTakeTheirRows` |
| `DeletionPreservesOthers` | `Spec => DeletionKeepsOthers` |
| `LedgerStands` | pages of any size put every row at the balance they start from less what is newer |
| `PagesAgreeAlways` | `Spec => []PagesAgree` |
| `LedgersClose` | `Spec => []LedgersCloseUnlessRaced` |

`DeadTakeTheirRows` says nothing of what the sessions hold, so its strengthening does: a request
that no commit overtook has loaded what is committed, will write a row it validated against that,
and its UPDATEs have found all rows there are to find (`FreshJobs`); a row that was never raced for
is a consistent one (`UnracedAreSound`), which is why the two UPDATEs of `delete_account` together
cover it: `SoloRows` those without a counterparty, `DeadTransfers` those whose other end is dead.
`JobFits` ties a request to the kind of row it works on. Only `Commit` disturbs the tables, and
whoever is at work at that moment is overtaken by it; the other actions are `Private` to their
session, which one lemma handles for all of them.

That a deletion moves no other balance cannot rest on freshness, because it holds for overtaken
deletions too. `Claimed` says why: the row locks keep what the UPDATEs found as they found it, so
a row to be deleted still has no end alive but the account's own; and no commit revives an account,
since nobody writes a status back that he did not change.

The ledger's proof is about data alone. `PageCuts`: a page takes the newest rows of what is behind
the cursor and leaves what is older than its last row. `PageStands`: a page and pages that are right
are right. Hence every page size gives the same balances (`PagesAgree` needs no more, whatever
rows there are), and the oldest row opens at the start less the sum of all signed amounts. Both
paths read a consistent row alike (`SoundIsSigned`), so unraced ledgers close.

### Snapshots

For every set of accounts, quoted and OTHER items among them, workers, months, a catch-up of two
months or more, entries and bounds:

| theorem of `SnapshotsProofs` | |
|---|---|
| `TypeCorrect` | `Spec => []TypeOK` |
| `PricesSerialise` | `Spec => []PricesSerialiseRuns` |
| `NothingOfTheDeleted` | `Spec => []NoRowsOfTheDeleted` |
| `OldMonthsAreKept` | `Spec => OldMonthsStay` |
| `CatchUpFills` | `Spec => CatchUpLeavesNoGap` |
| `CalmRunsRepair` | `Spec => CalmRunRepairs` |

The invariant follows a transaction through its stages: each month is written once and only the two
last ones are replaced (`WritesOnce`, `Replaces`); the advisory lock and the locks of the price rows
keep runs apart (`Locked`); a run that is kept apart has found every row of the months it has
cleared (`SoleRunsClear`), which is what serialisation means here; nobody fills an old month that
another fills (`OldMonthsFree`); a deletion that no run crossed sees all rows of its account
(`DeletionsSee`); and what an undisturbed run has written is what the books say (`CalmRuns`). The
lemmas underneath are about the largest month to do and about rows as sets.

### ScheduledJobs

For every set of instances and triggered jobs, pairs, chunk sizes and bounds:

| theorem of `ScheduledJobsProofs` | |
|---|---|
| `TypeCorrect` | `Spec => []TypeOK` |
| `RefreshesAreCurrent` | `Spec => RefreshedPricesAreCurrent` |
| `SeedingsRestore` | `Spec => SeedingRestores` |

`Known` says what a run has read, by stage: quotes no older than the run and converted at its rate,
and, while nobody crossed it, at the stored one and over no newer quote (`Quoted`); and the rows a
seeding is to purge (`Read`). `Peopled` is that there is one demo user, `Apart` that his row is
locked by one seeding at a time. `Counted` is needed for types: identifiers are taken from those
not in use, and there is always one left because each was paid for by a run or a request.

### Access

For every set of addresses and sessions, every cap of refresh tokens and every bound:

| theorem of `AccessProofs` | |
|---|---|
| `TypeCorrect` | `Spec => []TypeOK` |
| `OwnersEnter` | `Spec => []OwnerEnters` |
| `DuplicatesAreRaced` | `Spec => []DuplicatesOnlyWhereRaced` |
| `DeletionsEmpty` | `Spec => []DeletedAreEmpty` |
| `SoloSignInsCap` | `Spec => SoloSignInCaps` |

Who inserts what is already there, or what another one is inserting too, has been noticed
(`RacesNoticed`): a duplicate that was not noticed would have been found by the check. An owner has
exactly one active membership (`OneOwnership`), which survives because nobody may add or remove the
owner. Between its two UPDATEs a deletion has seen everything in the household (`DeletionsSee`), and
a sign-in that is alone has made room (`AloneIsAlone`, by counting the tokens it leaves).

### Books

For every finite set of accounts, categories, items and fixed items, any amounts, prices and months, and any
number of requests:

| theorem of `BooksProofs` | |
|---|---|
| `Invariance`, `TypeCorrect` | `Spec => []IInv`, `Spec => []TypeOK` |
| `BalancesAlwaysAgree` | `Spec => []BalancesAgree` |
| `MonthsAgree` | `Spec => []MonthFiguresAgree` |
| `WealthSums` | `Spec => []WealthAddsUp` |

The agreement of two figures is a fact about one state of the tables, but not about every one:
`IInv` says which. A row is under a category that fits its type unless it was bent, and only rows
that exist are bent (`Sorted`); an income or an expense and an item in use belong to a live account,
a snapshot to an account there has been, and a value to a snapshot of its account (`Owned`).
`Sorted` rests on the validation of `create` and `update`, `Owned` on the cascade of
`delete_account`.

- Balances: what a row adds to an account is what comes in less what goes out, so that the one pass
  over all rows and the query per account are two orders of one sum (`OnePass`).
- Months: the rows of a month are cut by account, by category and by fixed item (`TotalOfParts`;
  `Owned`, or the rows of the dead would be in no account's part). The chart takes rows by the kind of
  the category and the totals by type: each row in one set and not in the other is bent
  (`Sorted`), hence the difference is within their amounts (`TotalsClose`).
- Wealth: today's allocation and each month of the trend cut accounts by type, and items by the
  type of their account, into three slices; one lemma for both (`SlicesAddUp`).

### Only model-checked

- Liveness (`EveryRequestAnswered`, `EveryRequestEnds`, `EveryRunEnds`): fairness and `ENABLED` are
  out of the prover's reach.
- The two runs that end in a violation.

## 5. Abstractions

- A session's reads are those the handler makes, each a step of its own where another session's
  commit in between can matter; validation and write of one handler are merged where the handler
  does not look at the database again.
- Idempotency: the status line, headers and body of an answer are one outcome and the execution it
  stems from; a body is its fingerprint. A request that was refused by the router (4xx) is stored
  like a success, a 5xx is not. The PENDING TTL has nothing to act on, since no PENDING row is
  committed; `Expire` covers both TTLs.
- Portfolio: one item; quantities are whole shares; the item's account is alive; current prices,
  names and quotes play no part in what is checked.
- Ledger: EXPENSE stands for FIXED_EXPENSE too, ASSET for the four kinds of manual assets;
  balances are relative to the start balance; categories and fixed items are left out (they are in
  `Books`); a date stands for a month; the ledger is read in one step.
- Snapshots: one household and one item of each kind; a price is 2 where one is stored and 1, the
  cost, where none is. A soft-deleted row and a deleted one are the same, for no query sees either.
- ScheduledJobs: a price is when it was quoted and at which rate it was converted, so that "current"
  can be said; of the demo's rows only whether the seed or a visitor wrote them. The monthly job is
  in `Snapshots`, the cleanup of idempotency records in `Idempotency`.
- Access: passwords, invitations by address and the expiry of tokens are left out: the clock does
  not reach it. A child is a row of any table the cascade names.
- Books: one share at price 1 per trade, one amount, months for dates. Renaming, colours, order,
  and the amount of a fixed item have no action, since no figure depends on them. Concurrent requests
  are the matter of the other modules.
- `raced` and `late` (`Portfolio`, `Ledger`), `calm`, `unpriced` and `crossed` (`Snapshots`), `raced`,
  `alone` and `crossed` (`Access`), `crossed` and `twins` (`ScheduledJobs`) and `bent` (`Books`) are history
  variables: requests that were overtaken, rows they wrote. They only occur in properties.

## 6. Not modelled

- `settings`, `enum`, `health`, the access log, the mapping of exceptions, migrations and backups:
  constant answers, translation and DDL, with no state of their own that could go wrong.
- The alerts' cooldown table: whether a message goes out is read by nothing. What matters, that an
  alert is sent after the rollback and never fails a run, is in `ScheduledJobs`.
- Routers and schemas beyond the checks that guard an action; names, codes, colours, orders; quotes
  of single stocks; the paged list of all transactions.
- The connection pool, fractional quantities, and a ledger read in several steps; `hazards` names
  them with their lines.

## 7. Plan

1. A ledger reader of several steps on top of `AccountLedger`.
2. The deletion of an account while an item is created for it (composing `Portfolio` with `Ledger`).
3. A connection pool under `Idempotency`, with the acquire timeout.
4. The lemmas on `CashFlow`, which `LedgerProofs` and `BooksProofs` each have, in one place.
