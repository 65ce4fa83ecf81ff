--------------------------- MODULE ScheduledJobs ---------------------------
(***************************************************************************)
(* What runs by the clock: run_locked_job on several instances of the      *)
(* program (src/app/core/scheduler.py, jobs.py, main.py), and the work of  *)
(* the jobs that have no module of their own: the exchange rate            *)
(* (exchange_rate/service.py), the current prices                          *)
(* (market_price/service.py), also refreshed by a request that takes no    *)
(* advisory lock, and the demo household (core/demo/seed.py), seeded under *)
(* one lock name at the start and reset under another one every morning.   *)
(*                                                                         *)
(* A run is a transaction.  What it has written shows when it commits; the *)
(* rows it has written are locked until then.  An instance can crash; the  *)
(* server may notice only later that the transactions of the dead process  *)
(* are to be rolled back, and they keep their locks until then.            *)
(***************************************************************************)
EXTENDS Integers, FiniteSets, Functions

CONSTANTS
    Instances,           \* processes, each with its own scheduler
    USPairs, KRPairs,    \* the (code, market) pairs of the active items
    ChunkSize,           \* _CHUNK_SIZE
    MaxQuote,            \* bound on the moves of the market
    Triggered,           \* the jobs that run in an instance of the model
    Budget,              \* bound on the runs, requests and crashes of a behaviour
    None

Pairs == USPairs \cup KRPairs

ASSUME PairsAssumption  == USPairs \cap KRPairs = {} /\ None \notin Pairs
ASSUME BoundsAssumption == {ChunkSize, Budget} \subseteq Nat \ {0} /\ MaxQuote \in Nat
VARIABLES
    pc,          \* where a run stands
    run,         \* what it has read and is going to write
    quote,       \* how far the market has moved
    rate,        \* the currency_rates row: the quote it was fetched at, or None
    price,       \* current_price of the items of a pair: its quote and its rate
    users,       \* the users rows of the demo address: TRUE if as seeded
    households,  \* the households rows of demo users: id to owner
    content,     \* rows below a household: id to "seeded", or "touched" by a visitor
    visit,       \* a visitor's request under way
    left,        \* how many more runs and requests there are
    crossed,     \* history: runs during which others changed what they work on
    twins        \* history: two seedings created the demo user at a time

vars == <<pc, run, quote, rate, price, users, households, content, visit, left, crossed, twins>>

Seedings == {"bootstrap_demo", "reset_demo"}
Refreshs == {"refresh_kr_prices", "refresh_us_prices", "manual"}
Jobs     == Seedings \cup Refreshs \cup {"refresh_usd_krw"}
Runs     == Instances \X Triggered

ASSUME TriggeredAssumption == Triggered \subseteq Jobs

Job(r) == r[2]
Quotes == 0..MaxQuote
Ids    == 1..Budget           \* each run or request adds at most one row
Prices == [at : Quotes, fx : Quotes \cup {None}]

\* What a run has read and is going to write: of the rate, of prices, of the demo
RateRuns == [todo : SUBSET {"USD"}, tries : 0..1, got : {<< >>} \cup {<<q>> : q \in Quotes}]
RefreshRuns == [todo : SUBSET Pairs, tries : 0..1, got : UNION {[D -> Prices] : D \in SUBSET Pairs},
                fx : Quotes \cup {None}, since : Quotes]
SeedingRuns == [user : Ids \cup {None}, pristine : BOOLEAN, kill : SUBSET Ids, added : SUBSET Ids]

ASSUME NoneAssumption == None \notin Nat \cup Runs \cup RateRuns \cup RefreshRuns \cup SeedingRuns

TypeOK ==
    /\ pc \in [Runs -> {"idle", "fetch", "write", "ensure", "purge", "build", "commit", "alert", "ghost"}]
    /\ \A r \in Runs : pc[r] \in {"idle", "alert"} <=> run[r] = None
    /\ quote \in Quotes /\ rate \in Quotes \cup {None}
    /\ price \in [Pairs -> Prices]
    /\ \E U \in SUBSET Ids : users \in [U -> BOOLEAN]
    /\ \E H \in SUBSET Ids : households \in [H -> DOMAIN users]
    /\ \E C \in SUBSET Ids : content \in [C -> {"seeded", "touched"}]
    /\ left \in 0..Budget /\ crossed \subseteq Runs /\ twins \in BOOLEAN

\* A new data base: no rate yet, prices as their items were created, no demo
Init ==
    /\ pc  = [r \in Runs |-> "idle"]
    /\ run = [r \in Runs |-> None]
    /\ quote = 0 /\ rate = None
    /\ price = [p \in Pairs |-> [at |-> 0, fx |-> IF p \in USPairs THEN 0 ELSE None]]
    /\ users = << >> /\ households = << >> /\ content = << >>
    /\ visit = None /\ left = Budget
    /\ crossed = {} /\ twins = FALSE

Open(r) == pc[r] \notin {"idle", "alert"}     \* its transaction is open
Demo == <<users, households, content>>
Data == <<rate, price, Demo>>
Rest == <<quote, visit, twins>>

-----------------------------------------------------------------------------
(* run_locked_job *)

\* try_advisory_lock: one transaction for each name; a request of a user takes none
LockFree(n) == n = "manual" \/ \A r \in Runs : Job(r) = n => ~Open(r)

\* The trigger fires, or a user asks for new prices; a run that does not get the lock
\* ends at once and changes nothing.  A scheduler runs a job once at a time.
Begin(r, label, rec) ==
    /\ pc[r] = "idle" /\ left > 0 /\ LockFree(Job(r))
    /\ left' = left - 1
    /\ pc'   = [pc EXCEPT ![r] = label]
    /\ run'  = [run EXCEPT ![r] = rec]
    /\ crossed' = crossed \ {r}
    /\ UNCHANGED <<Data, Rest>>

Goto(r, label, rec) ==
    /\ pc'  = [pc EXCEPT ![r] = label]
    /\ run' = [run EXCEPT ![r] = rec]
    /\ UNCHANGED left

\* Variant: what has been read outlives the run
FinishForgetful(r, label) == Goto(r, label, run[r]) /\ UNCHANGED <<quote, visit>>

\* The transaction ends; run_locked_job raises after the alert is sent
Finish(r, label) == Goto(r, label, None) /\ UNCHANGED <<quote, visit>>

\* A query fails, a deadlock is broken, the request is dropped: rollback, then the
\* alert.  The task of the bootstrap is not referenced and may vanish without one.
Fail(r) ==
    /\ Open(r) /\ pc[r] # "ghost"
    /\ \/ Job(r) # "manual" /\ Finish(r, "alert")
       \/ Job(r) \in {"manual", "bootstrap_demo"} /\ Finish(r, "idle")
    /\ UNCHANGED <<Data, crossed, twins>>

\* send_alert: muted by the cooldown, delivered or not, it neither fails nor hangs
Alert(r) ==
    /\ pc[r] = "alert" /\ Finish(r, "idle")
    /\ UNCHANGED <<Data, crossed, twins>>

\* The process dies, and the server is yet to find out
Crash(i) ==
    /\ \E r \in Runs : r[1] = i /\ pc[r] # "idle"
    /\ pc'  = [r \in Runs |-> IF r[1] # i THEN pc[r] ELSE IF Open(r) THEN "ghost" ELSE "idle"]
    /\ left > 0 /\ left' = left - 1
    /\ UNCHANGED <<run, Data, Rest, crossed>>

Reap(r) ==
    /\ pc[r] = "ghost" /\ Finish(r, "idle")
    /\ UNCHANGED <<Data, crossed, twins>>

-----------------------------------------------------------------------------
(* The exchange rate and the prices *)

StartRate(r) ==
    /\ Job(r) = "refresh_usd_krw"
    /\ Begin(r, "fetch", [todo |-> {"USD"}, tries |-> 0, got |-> << >>])

\* Variant: the American pairs are kept when there is no rate
Offered(wanted) == wanted

\* Without a rate the markets in dollars are left out
Eligible(wanted) == IF rate = None THEN wanted \ USPairs ELSE wanted

StartRefresh(r) ==
    LET wanted == CASE Job(r) = "refresh_kr_prices" -> KRPairs
                    [] Job(r) = "refresh_us_prices" -> USPairs
                    [] Job(r) = "manual"            -> Pairs
    IN  /\ Job(r) \in Refreshs
        /\ Begin(r, IF Eligible(wanted) = {} THEN "commit" ELSE "fetch",
                 [todo |-> Eligible(wanted), tries |-> 0, got |-> << >>, fx |-> rate, since |-> quote])

\* Variant: there is always one more attempt
RetryForever(r) ==
    /\ pc[r] = "fetch"
    /\ Goto(r, "fetch", [run[r] EXCEPT !.tries = 1 - @])
    /\ UNCHANGED <<Data, Rest, crossed>>

\* _request_chart: a temporary error, tried again once
Retry(r) ==
    /\ pc[r] = "fetch" /\ run[r].tries = 0
    /\ Goto(r, "fetch", [run[r] EXCEPT !.tries = 1])
    /\ UNCHANGED <<Data, Rest, crossed>>

\* _fetch_one: the quote, in won
Converted(p, fx) == [at |-> quote, fx |-> IF p \in USPairs THEN fx ELSE None]

\* _chunks: the next pairs, in the order of a SELECT DISTINCT
Chunks(todo) == {C \in (SUBSET todo) \ {{}} : Cardinality(C) = ChunkSize \/ (C = todo /\ Cardinality(C) < ChunkSize)}

\* fetch_chart_quote: Yahoo may answer for a symbol, with a price, or not
Answered(C) == SUBSET C

FetchChunk(r) ==
    /\ pc[r] = "fetch" /\ Job(r) \in Refreshs
    /\ \E C \in Chunks(run[r].todo) : \E ok \in Answered(C) :
         LET rest == run[r].todo \ C
             got  == [p \in DOMAIN run[r].got \cup ok |->
                        IF p \in ok THEN Converted(p, run[r].fx) ELSE run[r].got[p]]
         IN  IF rest # {} THEN Goto(r, "fetch", [run[r] EXCEPT !.todo = rest, !.tries = 0, !.got = got])
             ELSE Goto(r, "write", [run[r] EXCEPT !.todo = DOMAIN got, !.got = got])
    /\ UNCHANGED <<Data, Rest, crossed>>

FetchRate(r) ==
    /\ pc[r] = "fetch" /\ Job(r) = "refresh_usd_krw"
    /\ \/ Goto(r, "commit", [run[r] EXCEPT !.todo = {}, !.got = <<quote>>])
       \/ Goto(r, "commit", [run[r] EXCEPT !.todo = {}])
    /\ UNCHANGED <<Data, Rest, crossed>>

\* The pairs whose rows a run has written and not committed
Written(r) == IF Job(r) \in Refreshs /\ run[r] # None /\ pc[r] \in {"write", "commit", "ghost"}
              THEN DOMAIN run[r].got \ run[r].todo ELSE {}

\* bulk_update_current_price_by_code_market: a statement for each pair, in the order
\* in which SELECT DISTINCT gave them; it waits for rows another run has written
Write(r) ==
    /\ pc[r] = "write"
    /\ IF run[r].todo = {} THEN Goto(r, "commit", run[r])
       ELSE \E p \in run[r].todo :
              /\ \A s \in Runs \ {r} : p \notin Written(s)
              /\ Goto(r, "write", [run[r] EXCEPT !.todo = @ \ {p}])
    /\ UNCHANGED <<Data, Rest, crossed>>

\* The server's deadlock detector: r waits for s and s for r
Deadlocked(r) ==
    /\ pc[r] = "write" /\ run[r].todo # {} /\ run[r].todo \cap Written(r) = {}
    /\ \E s \in Runs \ {r} :
         /\ pc[s] = "write" /\ run[s].todo # {}
         /\ run[r].todo \subseteq Written(s) /\ run[s].todo \subseteq Written(r)

BreakDeadlock(r) == Deadlocked(r) /\ Fail(r)

CommitPrices(r) ==
    /\ pc[r] = "commit" /\ Job(r) \in Refreshs
    /\ price' = [p \in Pairs |-> IF p \in DOMAIN run[r].got THEN run[r].got[p] ELSE price[p]]
    /\ crossed' = crossed \cup {s \in Runs \ {r} : Job(s) \in Refreshs /\ Open(s)}
    /\ Finish(r, "idle")
    /\ UNCHANGED <<rate, Demo, twins>>

\* update or insert; nothing if no quote came
CommitRate(r) ==
    /\ pc[r] = "commit" /\ Job(r) = "refresh_usd_krw"
    /\ rate' = IF run[r].got = << >> THEN rate ELSE run[r].got[1]
    /\ crossed' = crossed \cup {s \in Runs : Job(s) \in Refreshs /\ Open(s)}
    /\ Finish(r, "idle")
    /\ UNCHANGED <<price, Demo, twins>>

-----------------------------------------------------------------------------
(* The demo household *)

Owned(u) == {h \in DOMAIN households : households[h] = u}

\* seed_demo under the name of the reset, and bootstrap_if_empty
StartSeeding(r) ==
    /\ Job(r) \in Seedings
    /\ Begin(r, "ensure", [user |-> None, pristine |-> FALSE, kill |-> {}, added |-> {}])

\* bootstrap_if_empty: nothing to do once the user has a household
AlreadySeeded(r, u) == Job(r) = "bootstrap_demo" /\ Owned(u) # {}

\* _ensure_demo_user reads a user of the address, and the bootstrap ends if that user has
\* a household.  What it sets to the value it has read is not written (pristine).
Ensure(r) ==
    /\ pc[r] = "ensure"
    /\ \E u \in IF users = << >> THEN {None} ELSE DOMAIN users :
         IF AlreadySeeded(r, u) THEN Goto(r, "idle", None)
         ELSE Goto(r, "purge", [run[r] EXCEPT !.user = u, !.pristine = u # None /\ users[u]])
    /\ UNCHANGED <<Data, Rest, crossed>>

\* A seeding that holds the lock of the user's row
Holds(s, u) == Job(s) \in Seedings /\ pc[s] \in {"build", "ghost"} /\ run[s].user = u

\* Variant: only what a seeding has made
DoomedSeeded(u) == {h \in Owned(u) : content[h] = "seeded"}

\* The households of the purge: whatever the user owns, of any status
Doomed(u) == Owned(u)

\* _purge_demo_data: the new hash of the password is flushed before its first query, so
\* the user's row is locked from here to the end
Purge(r) ==
    /\ pc[r] = "purge"
    /\ run[r].user # None => {s \in Runs \ {r} : Holds(s, run[r].user)} = {}
    /\ Goto(r, "build", [run[r] EXCEPT !.kill = IF run[r].user = None THEN {} ELSE Doomed(run[r].user)])
    /\ UNCHANGED <<Data, Rest, crossed>>

Fresh(S) == CHOOSE i \in Ids : i \notin S /\ \A j \in Ids \ S : i <= j
NewHousehold == Fresh(DOMAIN households \cup DOMAIN content)
Put(f, i, v) == [j \in DOMAIN f \cup {i} |-> IF j = i THEN v ELSE f[j]]

\* Seedings that have read what now changes under them
Overtaken(stages, r) == {s \in Runs \ {r} : Job(s) \in Seedings /\ pc[s] \in stages}

\* Everything is made anew; prices that Yahoo does not give are replaced by costs
CommitSeeding(r) ==
    /\ pc[r] = "build"
    /\ LET u == IF run[r].user = None THEN Fresh(DOMAIN users) ELSE run[r].user
           gone == run[r].kill \ run[r].added
       IN  /\ users' = Put(users, u, IF run[r].pristine THEN users[u] ELSE TRUE)
           /\ households' = Put(Restrict(households, DOMAIN households \ run[r].kill), NewHousehold, u)
           /\ content' = Put(Restrict(content, DOMAIN content \ gone), NewHousehold, "seeded")
    /\ twins' = (twins \/ (run[r].user = None /\ users # << >>))
    /\ crossed' = crossed \cup Overtaken({"build"}, r) \cup {s \in Overtaken({"purge"}, r) : run[s].user = None}
    /\ Finish(r, "idle")
    /\ UNCHANGED <<rate, price>>

\* A visitor signs in as the demo user and is about to change something
StartVisit ==
    /\ visit = None /\ left > 0 /\ left' = left - 1
    /\ \E u \in DOMAIN users :
         \/ visit' = [kind |-> "profile", user |-> u]
         \/ visit' = [kind |-> "household", user |-> u]
         \/ \E h \in Owned(u) : visit' = [kind |-> "row", hh |-> h]
    /\ UNCHANGED <<pc, run, Data, quote, crossed, twins>>

\* PUT /user/{id}
ChangeProfile ==
    /\ visit.kind = "profile" /\ {s \in Runs : Holds(s, visit.user)} = {}
    /\ users'   = [users EXCEPT ![visit.user] = FALSE]
    /\ crossed' = crossed \cup Overtaken({"purge"}, None)
    /\ UNCHANGED <<run, households, content>>

\* POST /household
OpenHousehold ==
    /\ visit.kind = "household"
    /\ households' = Put(households, NewHousehold, visit.user)
    /\ content'    = Put(content, NewHousehold, "touched")
    /\ crossed'    = crossed \cup Overtaken({"build"}, None)
    /\ UNCHANGED <<run, users>>

\* Any other POST: the row's household may be gone by now, no foreign key looks
AddRow ==
    /\ visit.kind = "row"
    /\ content' = Put(content, visit.hh, "touched")
    /\ crossed' = crossed \cup Overtaken({"build"}, None)
    /\ run' = [s \in Runs |-> IF s \in Overtaken({"build"}, None)
                              THEN [run[s] EXCEPT !.added = @ \cup {visit.hh}] ELSE run[s]]
    /\ UNCHANGED <<users, households>>

EndVisit ==
    /\ visit # None /\ visit' = None
    /\ ChangeProfile \/ OpenHousehold \/ AddRow \/ UNCHANGED <<run, Demo, crossed>>
    /\ UNCHANGED <<pc, quote, rate, price, left, twins>>

-----------------------------------------------------------------------------
Move ==
    /\ quote < MaxQuote /\ quote' = quote + 1
    /\ UNCHANGED <<pc, run, Data, visit, left, crossed, twins>>

Start(r) == StartRate(r) \/ StartRefresh(r) \/ StartSeeding(r)
Proceed(r) ==
    \/ FetchChunk(r) \/ FetchRate(r) \/ Write(r) \/ BreakDeadlock(r) \/ CommitPrices(r) \/ CommitRate(r)
    \/ Ensure(r) \/ Purge(r) \/ CommitSeeding(r) \/ Alert(r) \/ Reap(r)

Next ==
    \/ \E r \in Runs : Start(r) \/ Retry(r) \/ Proceed(r) \/ Fail(r)
    \/ \E i \in Instances : Crash(i)
    \/ StartVisit \/ EndVisit \/ Move

Spec == Init /\ [][Next]_vars

\* Yahoo and Discord are called with timeouts, sleeps end, the server executes
\* statements, breaks deadlocks and notices dead clients: while some run can go on, one does.
\* Nothing makes Yahoo answer, a trigger fire or a user ask.
Fairness == WF_vars(\E r \in Runs : Retry(r) \/ Proceed(r))
FairSpec == Spec /\ Fairness

-----------------------------------------------------------------------------
(* What operators and visitors rely on *)

\* A seeding brings the demo back whatever visitors have done to it, households of their
\* own included: one user with the profile of the curriculum vitae, one household,
\* nothing left of the purged ones; and a restart with a demo in place does not reset it.
\* Excepted are changes under its eyes, and twins of the demo user.
SeedingRestores ==
    [][\A r \in Runs : CommitSeeding(r) /\ r \notin crossed /\ ~twins =>
         /\ Cardinality(DOMAIN users') = 1 /\ \A u \in DOMAIN users' : users'[u]
         /\ Cardinality(DOMAIN households') = 1
         /\ \A h \in DOMAIN households' : content'[h] = "seeded"
         /\ DOMAIN content' \ DOMAIN households' \subseteq DOMAIN content \ DOMAIN households
         /\ Job(r) = "bootstrap_demo" => households = << >>]_vars

\* Prices a refresh commits are quotes made since it began, in won: a price in dollars
\* is converted, and at the stored rate, and no older quote comes back, unless the rate
\* or other prices were committed during the run.
RefreshedPricesAreCurrent ==
    [][\A r \in Runs : CommitPrices(r) => \A p \in DOMAIN run[r].got :
         /\ price'[p].at >= run[r].since
         /\ p \in USPairs => price'[p].fx # None
         /\ r \notin crossed => price'[p].at >= price[p].at /\ (p \in USPairs => price'[p].fx = rate)]_vars

\* Every run and every transaction comes to an end, by success, failure, deadlock or
\* crash, and leaves the name's lock to the next: once no more of them begin (there are
\* Budget of them), no transaction stays open.
EveryRunEnds == <>[](\A r \in Runs : pc[r] = "idle")
=============================================================================
