-------------------------- MODULE SnapshotsProofs --------------------------
(***************************************************************************)
(* The monthly snapshots, for any accounts, any number of simultaneous     *)
(* transactions, any number of months and any catch-up window.             *)
(*                                                                         *)
(* What is known of one transaction is said of its stage s, its job j and  *)
(* its writes m, so that it stays said while others take steps.            *)
(***************************************************************************)
EXTENDS Snapshots, FiniteSetTheorems, WellFoundedInduction, TLAPS

Stages  == {"prices", "floor", "decide", "wipe", "wiped", "measure", "save", "history", "commit"}
Monthly == {"decide", "wipe", "wiped", "measure", "save", "history"}     \* those with a month at hand

Tabled ==
    /\ target \in Months /\ clash \in BOOLEAN
    /\ book   \subseteq Entries
    /\ accts  \in [Accounts -> {"ACTIVE", "ARCHIVED", "DELETED"}]
    /\ prices \subseteq Investing \X Months
    /\ rows   \subseteq Rows /\ hist \subseteq Rows
    /\ pc     \in [Workers -> Stages \cup {"idle"}]
    /\ job    \in [Workers -> Jobs \cup {None}]
    /\ mine   \in [Workers -> Writes]
    /\ \A w \in Workers : pc[w] = "idle" <=> job[w] = None
    /\ \A w \in Workers : pc[w] = "idle" => mine[w] = NoWrites
    /\ left \in 0..Budget /\ edits \in 0..Edits
    /\ calm \subseteq Workers /\ unpriced \subseteq Investing /\ crossed \subseteq Accounts

\* Transactions and rows bear numbers of their own, and none is from a month to come
Numbered ==
    /\ \A w \in Open : job[w].id <= Budget - left
    /\ \A w \in Open : job[w].upto <= target /\ target <= job[w].upto + 1
    /\ \A v, w \in Open : v # w => job[v].id # job[w].id
    /\ \A r \in rows : r.by <= Budget - left /\ r.month <= target
    /\ \A r \in rows : \A w \in Open : r.by # job[w].id

Latest(j)   == Max(j.todo)
MonthsOf(S) == {r.month : r \in S}

\* The months still to do, the one whose rows are already there not counted
Pending(s, j) == IF s = "history" THEN j.todo \ {Latest(j)} ELSE j.todo

\* The months whose former rows a snapshot has removed, or found to be none
Cleared(s, j, m) == MonthsOf(m.rows) \cup (IF s \in {"measure", "save"} THEN {Latest(j)} ELSE {})

Deleter(s, j, m) ==
    /\ s \in {"wiped", "commit"}
    /\ j.acct \in Accounts
    /\ m.rows = {} /\ m.hist = {}

Plans(s, j, m) ==
    /\ j.acct = None
    /\ j.todo \subseteq 1..j.upto
    /\ s \in Monthly \cup {"prices"} => j.todo # {}
    /\ s = "commit" => j.todo = {}
    /\ s = "floor" => j.kind = "auto"
    /\ s \in {"prices", "floor"} => m.rows = {} /\ m.gone = {} /\ m.hist = {} /\ m.unhist = {}
    /\ j.kind = "manual" => j.todo \subseteq {j.upto}

\* Every month is written once, and what was written is not deleted again
WritesOnce(s, j, m) ==
    /\ \A r \in m.rows : r.by = j.id /\ r.month <= j.upto /\ r.month \notin Pending(s, j)
    /\ j.kind = "manual" => \A r \in m.rows : r.month = j.upto
    /\ \A r, q \in m.rows : Same(r, q) => r = q
    /\ \A h \in m.hist : h.month \notin j.todo

\* Only the two last months are deleted
Replaces(s, j, m) ==
    /\ \A r \in m.gone : r.by # j.id /\ r.month >= j.upto - 1
    /\ \A r \in m.gone : r.month \in j.todo => s \in {"measure", "save", "history"} /\ r.month = Latest(j)
    /\ s \in {"wipe", "wiped"} => Latest(j) \in {j.upto, j.upto - 1}
    /\ s = "wiped" => \A r \in j.doomed : r.month = Latest(j)

Snapper(s, j, m) == Plans(s, j, m) /\ WritesOnce(s, j, m) /\ Replaces(s, j, m)

Snaps(w) == w \in Open /\ job[w].kind # "delete"
Working ==
    /\ \A w \in Open : job[w].kind = "delete" => Deleter(pc[w], job[w], mine[w])
    /\ \A w \in Open : job[w].kind # "delete" => Snapper(pc[w], job[w], mine[w])

\* What keeps transactions apart: the lock of the job and those of the price rows
Locked ==
    /\ \A v, w \in Open : job[v].kind = "auto" /\ job[w].kind = "auto" => v = w
    /\ \A v, w \in Workers : v # w => mine[v].keys \cap mine[w].keys = {}
    /\ \A w \in Open : job[w].kind # "delete" /\ pc[w] # "prices" =>
         \A a \in Listed \ unpriced : <<a, 1>> \in mine[w].keys

\* A run that nothing happens beside, or that is kept apart by an item whose price all
\* runs have stored, sees every row of the months it has cleared
Sole(w) == w \in calm \/ ~(Listed \subseteq unpriced)
Clears(s, j, m, R) ==
    /\ \A n \in Cleared(s, j, m) : InMonth(R \ m.gone, n) = {}
    /\ s = "wiped" => InMonth(R \ m.gone, Latest(j)) \subseteq j.doomed
SoleRunsClear ==
    \A w \in Open : job[w].kind # "delete" /\ Sole(w) => Clears(pc[w], job[w], mine[w], rows)

\* No other run adds rows to an old month that this one fills
Fills(s, j, m, R) == \A n \in Cleared(s, j, m) : n <= j.upto - 2 => InMonth(R, n) = {}
OldMonthsFree ==
    \A w \in Open : job[w].kind # "delete" => Fills(pc[w], job[w], mine[w], rows)

\* Deletions see every row of their account, unless they were crossed
Remembers(j, m, A, X) ==
    \A a \in DOMAIN j.cash \cup {r.acct : r \in m.rows \cup m.hist} : A[a] = "DELETED" => a \in X
Forgets(s, j, m, R, H) ==
    /\ s = "wiped"  => \A r \in R : r.acct = j.acct => r \in j.doomed
    /\ s = "commit" => \A r \in R : r.acct = j.acct => r \in m.gone
    /\ \A h \in H : h.acct = j.acct => h \in m.unhist
DeletionsSee ==
    /\ \A w \in Open : job[w].kind # "delete" => Remembers(job[w], mine[w], accts, crossed)
    /\ \A v, w \in Open : job[w].kind = "delete" /\ job[w].acct \notin crossed => job[v].kind = "delete"
    /\ \A w \in Open : job[w].kind = "delete" /\ job[w].acct \notin crossed =>
         Forgets(pc[w], job[w], mine[w], rows, hist)

\* What an undisturbed run writes is what the books say
FreshRows(j, n, ps) ==
    {[acct |-> a, month |-> n, by |-> j.id, amount |-> Cash(a, n) + Worth(a, n, ps)] : a \in Scope}
FreshHist(j, n, ps) ==
    {[acct |-> a, month |-> n, by |-> j.id, amount |-> Worth(a, n, ps)] :
     a \in {b \in Scope \cap Investing : Held(b, n) > 0}}

Undisturbed(s, j, m) ==
    /\ \A r \in rows : r.month <= j.upto
    /\ s \in Monthly \ {"decide"} => j.replace = Has(rows, Latest(j))
    /\ s = "save" => j.cash = [a \in Scope |-> Cash(a, Latest(j))]
    /\ \A n \in MonthsOf(m.rows) : InMonth(m.rows, n) = FreshRows(j, n, prices \cup m.keys)
    /\ \A n \in MonthsOf(m.rows) \ j.todo : ~Orphaned(n) =>
         InMonth(hist \ m.unhist, n) = {} /\ InMonth(m.hist, n) = FreshHist(j, n, prices \cup m.keys)

\* The months the job is to leave without a gap
Wanted(j) == {n \in Months : /\ n <= j.upto /\ n > j.upto - CatchUp
                             /\ n = j.upto \/ \E r \in rows : r.month <= n}
FillsGaps(s, j, m) ==
    j.kind = "auto" /\ s \notin {"prices", "floor"} /\ Scope # {} =>
      \A n \in Wanted(j) : n \in Pending(s, j) \/ Has((rows \ m.gone) \cup m.rows, n)

CalmRuns ==
    /\ \A w \in calm : Open = {w}
    /\ \A w \in calm : job[w].kind # "delete" =>
         Undisturbed(pc[w], job[w], mine[w]) /\ FillsGaps(pc[w], job[w], mine[w])

IInv ==
    /\ Tabled /\ Numbered /\ Working /\ Locked /\ SoleRunsClear /\ PricesSerialiseRuns
    /\ OldMonthsFree /\ NoRowsOfTheDeleted /\ DeletionsSee /\ CalmRuns

-----------------------------------------------------------------------------
(* The figures, the months and the records *)

\* A set of numbers has a least one.
LEMMA Least == ASSUME NEW T \in SUBSET Nat, T # {} PROVE \E m \in T : \A t \in T : m <= t
<1> DEFINE R == OpToRel(<, Nat)
<1>1. IsWellFoundedOn(R, Nat)
  BY NatLessThanWellFounded
<1>2. \A x, y \in Nat : x < y => <<x, y>> \in R
  BY DEF OpToRel
<1>3. PICK m \in T : \A y \in T : ~(<<y, m>> \in R)
  BY <1>1, WFMin
<1>4. ASSUME NEW t \in T PROVE m <= t
  <2>1. m \in Nat /\ t \in Nat /\ ~(t < m)
    BY <1>2, <1>3
  <2> QED
    BY <2>1
<1> QED
  BY <1>3, <1>4

\* The oldest of some months is the minimum.
LEMMA MinIsLeast ==
    ASSUME NEW T \in SUBSET Nat, T # {}
    PROVE  Min(T) \in T /\ \A t \in T : Min(T) <= t
<1>1. \E m \in T : \A t \in T : m <= t
  BY Least
<1> QED
  BY <1>1 DEF Min

\* The latest of some months up to a last one is the maximum.
LEMMA MaxIsGreatest ==
    ASSUME NEW N \in Nat, NEW T \in SUBSET (1..N), T # {}
    PROVE  Max(T) \in T /\ \A t \in T : t <= Max(T)
<1> DEFINE Rest == {N - t : t \in T}
<1>0. \A t \in T : t \in Nat /\ t \in Int /\ N - t \in Nat
  OBVIOUS
<1>1. Rest \in SUBSET Nat /\ Rest # {}
  BY <1>0
<1>2. PICK m \in Rest : \A r \in Rest : m <= r
  BY <1>1, Least
<1>3. PICK x \in T : m = N - x
  OBVIOUS
<1>4. ASSUME NEW t \in T PROVE x >= t
  <2>1. N - x <= N - t
    BY <1>2, <1>3
  <2> QED
    BY <2>1
<1>5. \E y \in T : \A t \in T : y >= t
  BY <1>4
<1>6. Max(T) \in T /\ \A t \in T : Max(T) >= t
  BY <1>5 DEF Max
<1>7. ASSUME NEW t \in T PROVE t <= Max(T)
  <2>1. Max(T) >= t /\ t \in Int /\ Max(T) \in Int
    BY <1>0, <1>6
  <2> QED
    BY <2>1
<1> QED
  BY <1>6, <1>7

\* Amounts are numbers.
LEMMA Amounts ==
    ASSUME NEW a, NEW n \in Months, NEW ps
    PROVE  /\ Held(a, n) \in Nat /\ Cash(a, n) \in Int /\ Worth(a, n, ps) \in Int
<1>1. n \in Nat
  BY WindowAssumption DEF Months
<1>2. ASSUME NEW kind PROVE Until(a, n, kind) \in Nat
  <2>1. IsFiniteSet(1..n)
    BY <1>1, FS_Interval
  <2>2. IsFiniteSet({k \in 1..n : <<a, k, kind>> \in book})
    BY <2>1, FS_Subset
  <2> QED
    BY <2>2, FS_CardinalityType DEF Until
<1>3. Held(a, n) \in Nat /\ Cash(a, n) \in Int
  BY <1>2 DEF Held, Cash
<1>4. Worth(a, n, ps) \in Int
  <2>1. PriceOf(a, n, ps) = 1 \/ PriceOf(a, n, ps) = 2
    BY DEF PriceOf
  <2>2. Held(a, n) * 1 \in Int /\ Held(a, n) * 2 \in Int
    BY <1>3
  <2> QED
    BY <2>1, <2>2 DEF Worth
<1> QED
  BY <1>3, <1>4

\* The fields of a transaction.
LEMMA JobFields ==
    ASSUME NEW j \in Jobs
    PROVE  /\ j.kind \in Kinds /\ j.id \in 1..Budget /\ j.upto \in Months /\ j.todo \in SUBSET Months
           /\ j.replace \in BOOLEAN /\ j.doomed \in SUBSET Rows /\ j.acct \in Accounts \cup {None}
           /\ DOMAIN j.cash \subseteq Accounts /\ \A a \in DOMAIN j.cash : j.cash[a] \in Int
<1>1. j.cash \in UNION {[A -> Int] : A \in SUBSET Accounts}
  BY DEF Jobs
<1>2. PICK A \in SUBSET Accounts : j.cash \in [A -> Int]
  BY <1>1
<1> QED
  BY <1>2 DEF Jobs

\* A job with some fields replaced.
LEMMA JobWith ==
    ASSUME NEW j \in Jobs, NEW t \in SUBSET Months, NEW b \in BOOLEAN, NEW d \in SUBSET Rows,
           NEW A \in SUBSET Accounts, NEW c \in [A -> Int]
    PROVE  /\ [j EXCEPT !.todo = t] \in Jobs /\ [j EXCEPT !.replace = b] \in Jobs
           /\ [j EXCEPT !.doomed = d] \in Jobs /\ [j EXCEPT !.cash = c] \in Jobs
           /\ [j EXCEPT !.todo = t, !.cash = c, !.doomed = d] \in Jobs
<1>1. c \in UNION {[B -> Int] : B \in SUBSET Accounts}
  OBVIOUS
<1> DEFINE Cashes == UNION {[B -> Int] : B \in SUBSET Accounts}
<1> HIDE DEF Cashes
<1>2. c \in Cashes
  BY <1>1 DEF Cashes
<1>3. Jobs = [kind : Kinds, id : 1..Budget, upto : Months, todo : SUBSET Months,
              replace : BOOLEAN, cash : Cashes, doomed : SUBSET Rows, acct : Accounts \cup {None}]
  BY DEF Jobs, Cashes
<1> QED
  BY <1>2, <1>3

\* A snapshot's month at hand is one of those it has to do.
LEMMA LatestIsDue ==
    ASSUME NEW j \in Jobs, j.todo # {}
    PROVE  Latest(j) \in j.todo /\ Latest(j) \in Months /\ \A n \in j.todo : n <= Latest(j)
<1>1. j.todo \in SUBSET (1..LastMonth) /\ LastMonth \in Nat
  BY JobFields, WindowAssumption DEF Months
<1> QED
  BY <1>1, MaxIsGreatest DEF Latest, Months

-----------------------------------------------------------------------------
(* The invariant holds at the start and through the steps of a transaction *)

\* A new data base.
LEMMA InitInv == Init => IInv
<1> SUFFICES ASSUME Init PROVE IInv
  OBVIOUS
<1>1. Open = {} /\ rows = {} /\ hist = {} /\ calm = {}
  BY DEF Init, Open
<1>2. Tabled
  BY WindowAssumption, BoundsAssumption DEF Init, Tabled, Months, Writes, NoWrites
<1>3. Numbered /\ Working /\ SoleRunsClear /\ OldMonthsFree /\ DeletionsSee /\ CalmRuns
  BY <1>1 DEF Numbered, Working, SoleRunsClear, OldMonthsFree, DeletionsSee, CalmRuns
<1>4. Locked
  <2>1. \A w \in Workers : mine[w].keys = {}
    BY DEF Init, NoWrites
  <2> QED
    BY <1>1, <2>1 DEF Locked
<1>5. PricesSerialiseRuns /\ NoRowsOfTheDeleted
  BY <1>1 DEF PricesSerialiseRuns, OneRowPerMonth, NoRowsOfTheDeleted
<1> QED
  BY <1>2, <1>3, <1>4, <1>5 DEF IInv

\* All that is known of one transaction
Facts(w, s, j, m) ==
    /\ j.kind = "delete" => Deleter(s, j, m) /\ (j.acct \notin crossed => Forgets(s, j, m, rows, hist))
    /\ j.kind # "delete" =>
         /\ Snapper(s, j, m) /\ Fills(s, j, m, rows) /\ Remembers(j, m, accts, crossed)
         /\ Sole(w) => Clears(s, j, m, rows)
         /\ w \in calm => Undisturbed(s, j, m) /\ FillsGaps(s, j, m)

\* The transactions have stages, jobs and writes, and the invariant says this of each.
LEMMA OpenFacts ==
    ASSUME IInv, NEW w \in Workers, pc[w] # "idle"
    PROVE  /\ w \in Open /\ pc[w] \in Stages /\ job[w] \in Jobs /\ mine[w] \in Writes
           /\ Facts(w, pc[w], job[w], mine[w])
<1>1. w \in Open
  BY DEF Open
<1>2. pc[w] \in Stages /\ job[w] \in Jobs /\ mine[w] \in Writes
  BY DEF IInv, Tabled
<1>3. job[w].kind = "delete" =>
        /\ Deleter(pc[w], job[w], mine[w])
        /\ job[w].acct \notin crossed => Forgets(pc[w], job[w], mine[w], rows, hist)
  BY <1>1 DEF IInv, Working, DeletionsSee
<1>4. job[w].kind # "delete" =>
        /\ Snapper(pc[w], job[w], mine[w]) /\ Fills(pc[w], job[w], mine[w], rows)
        /\ Remembers(job[w], mine[w], accts, crossed)
        /\ Sole(w) => Clears(pc[w], job[w], mine[w], rows)
        /\ w \in calm => Undisturbed(pc[w], job[w], mine[w]) /\ FillsGaps(pc[w], job[w], mine[w])
  BY <1>1 DEF IInv, Working, DeletionsSee, SoleRunsClear, OldMonthsFree, CalmRuns
<1> QED
  BY <1>1, <1>2, <1>3, <1>4 DEF Facts

Moves(w, s, j, m) ==
    /\ pc'   = [pc EXCEPT ![w] = s]
    /\ job'  = [job EXCEPT ![w] = j]
    /\ mine' = [mine EXCEPT ![w] = m]
Continues(j, k) == j.kind = k.kind /\ j.id = k.id /\ j.upto = k.upto /\ j.acct = k.acct
Tables == <<target, clash, book, accts, prices, rows, hist, left, edits>>

\* The figures are those of the books and the prices.
LEMMA FiguresStay ==
    ASSUME book' = book, accts' = accts
    PROVE  /\ \A a, n : Cash(a, n)' = Cash(a, n)
           /\ \A j, n, ps : FreshRows(j, n, ps)' = FreshRows(j, n, ps)
           /\ \A j, n, ps : FreshHist(j, n, ps)' = FreshHist(j, n, ps)
           /\ Scope' = Scope
<1>1. Scope' = Scope
  BY DEF Scope
<1>2. \A a, n, kind : Until(a, n, kind)' = Until(a, n, kind)
  BY DEF Until
<1>3. \A a, n : Cash(a, n)' = Cash(a, n)
  BY <1>2 DEF Cash
<1>4. \A a, n : Held(a, n)' = Held(a, n)
  BY <1>2 DEF Held
<1>5. \A a, n, ps : Worth(a, n, ps)' = Worth(a, n, ps)
  BY <1>4 DEF Worth, PriceOf
<1> QED
  BY <1>1, <1>3, <1>4, <1>5 DEF FreshRows, FreshHist

\* An undisturbed run stays so while the data base does.
LEMMA UndisturbedStays ==
    ASSUME UNCHANGED <<book, accts, prices, rows, hist>>, NEW s, NEW j, NEW m
    PROVE  /\ Undisturbed(s, j, m) => Undisturbed(s, j, m)'
           /\ FillsGaps(s, j, m) => FillsGaps(s, j, m)'
<1>1. Scope' = Scope
  BY FiguresStay
<1>2. \A n : Orphaned(n)' = Orphaned(n)
  BY DEF Orphaned, Has, InMonth
<1>3. [a \in Scope |-> Cash(a, Latest(j))]' = [a \in Scope |-> Cash(a, Latest(j))]
  BY FiguresStay
<1>4. Undisturbed(s, j, m) => Undisturbed(s, j, m)'
  BY <1>2, <1>3, FiguresStay DEF Undisturbed
<1>5. Wanted(j)' = Wanted(j)
  BY DEF Wanted
<1>6. FillsGaps(s, j, m) => FillsGaps(s, j, m)'
  BY <1>1, <1>5 DEF FillsGaps
<1> QED
  BY <1>4, <1>6

\* The invariant, put together again after a step.
LEMMA Reassembled ==
    ASSUME Tabled', Numbered', Locked', PricesSerialiseRuns', NoRowsOfTheDeleted',
           \A v \in Open' : Facts(v, pc[v], job[v], mine[v])',
           \A u, v \in Open' : job'[v].kind = "delete" /\ job'[v].acct \notin crossed' => job'[u].kind = "delete",
           \A v \in calm' : Open' = {v}
    PROVE  IInv'
<1>1. \A v \in calm' : v \in Open'
  OBVIOUS
<1>2. Working'
  BY DEF Working, Facts
<1>3. SoleRunsClear'
  BY DEF SoleRunsClear, Facts
<1>4. OldMonthsFree'
  BY DEF OldMonthsFree, Facts
<1>5. DeletionsSee'
  BY DEF DeletionsSee, Facts
<1>6. CalmRuns'
  BY <1>1 DEF CalmRuns, Facts
<1> QED
  BY <1>2, <1>3, <1>4, <1>5, <1>6 DEF IInv

\* What is known of a transaction stays known while the data base does.
LEMMA FactsStay ==
    ASSUME UNCHANGED <<Tables, crossed, unpriced, calm>>, NEW v, NEW s, NEW j, NEW m, Facts(v, s, j, m)
    PROVE  Facts(v, s, j, m)'
<1>1. /\ Undisturbed(s, j, m) => Undisturbed(s, j, m)'
      /\ FillsGaps(s, j, m) => FillsGaps(s, j, m)'
  BY UndisturbedStays DEF Tables
<1>2. Sole(v)' <=> Sole(v)
  BY DEF Sole, Tables
<1> QED
  BY <1>1, <1>2 DEF Facts, Tables

\* A step of one transaction that leaves the data base alone keeps the invariant, if what
\* is known of this transaction is true of its new stage, job and writes.
LEMMA Advance ==
    ASSUME IInv, NEW w \in Workers, pc[w] \notin {"idle", "prices"},
           NEW s \in Stages \ {"prices"}, NEW j \in Jobs, NEW m \in Writes,
           Moves(w, s, j, m), Continues(j, job[w]), m.keys = mine[w].keys,
           UNCHANGED <<Tables, crossed, unpriced, calm>>, Facts(w, s, j, m)
    PROVE  IInv'
<1> USE DEF Tables
<1>1. /\ pc \in [Workers -> Stages \cup {"idle"}] /\ job \in [Workers -> Jobs \cup {None}]
      /\ mine \in [Workers -> Writes]
  BY DEF IInv, Tabled
<1>2. /\ pc'[w] = s /\ job'[w] = j /\ mine'[w] = m
      /\ \A v \in Workers \ {w} : pc'[v] = pc[v] /\ job'[v] = job[v] /\ mine'[v] = mine[v]
  BY <1>1 DEF Moves
<1>3. "idle" \notin Stages
  BY DEF Stages
<1>4. Open' = Open /\ w \in Open /\ Open \subseteq Workers
  BY <1>2, <1>3 DEF Open
<1>5. \A v \in Open : /\ job'[v].kind = job[v].kind /\ job'[v].id = job[v].id /\ job'[v].upto = job[v].upto
                      /\ job'[v].acct = job[v].acct
  BY <1>2, <1>4 DEF Continues
<1>6. \A v \in Workers : mine'[v].keys = mine[v].keys
  BY <1>2
<1>7. Tabled'
  <2>1. pc' \in [Workers -> Stages \cup {"idle"}] /\ job' \in [Workers -> Jobs \cup {None}]
        /\ mine' \in [Workers -> Writes]
    BY <1>1 DEF Moves
  <2>2. \A v \in Workers : pc'[v] = "idle" <=> job'[v] = None
    <3>1. s # "idle" /\ j # None
      BY <1>3, NoneAssumption
    <3> QED
      BY <1>2, <3>1 DEF IInv, Tabled
  <2>3. \A v \in Workers : pc'[v] = "idle" => mine'[v] = NoWrites
    BY <1>2, <1>3 DEF IInv, Tabled
  <2> QED
    BY <2>1, <2>2, <2>3 DEF IInv, Tabled
<1>8. Numbered'
  BY <1>4, <1>5 DEF IInv, Numbered
<1>9. Locked'
  <2>1. \A v \in Open : pc'[v] # "prices" => pc[v] # "prices"
    BY <1>2, <1>4
  <2> QED
    BY <1>4, <1>5, <1>6, <2>1 DEF IInv, Locked
<1>10. PricesSerialiseRuns' /\ NoRowsOfTheDeleted'
  BY DEF IInv, PricesSerialiseRuns, OneRowPerMonth, NoRowsOfTheDeleted
<1>11. ASSUME NEW v \in Open PROVE Facts(v, pc'[v], job'[v], mine'[v])
  <2>1. CASE v = w
    BY <1>2, <2>1
  <2>2. CASE v # w
    <3>1. v \in Workers /\ pc[v] # "idle"
      BY DEF Open
    <3> QED
      BY <1>2, <2>2, <3>1, OpenFacts
  <2> QED
    BY <2>1, <2>2
<1>12. \A v \in Open' : Facts(v, pc[v], job[v], mine[v])'
  BY <1>4, <1>11, FactsStay
<1>13. \A u, v \in Open' : job'[v].kind = "delete" /\ job'[v].acct \notin crossed' => job'[u].kind = "delete"
  BY <1>4, <1>5 DEF IInv, DeletionsSee
<1>14. \A v \in calm' : Open' = {v}
  BY <1>4 DEF IInv, CalmRuns
<1> QED
  BY <1>7, <1>8, <1>9, <1>10, <1>12, <1>13, <1>14, Reassembled

-----------------------------------------------------------------------------
(* Jobs and writes with a field replaced *)

WithTodo(h, t)    == [h EXCEPT !.todo = t]
WithReplace(h, b) == [h EXCEPT !.replace = b]
WithDoomed(h, d)  == [h EXCEPT !.doomed = d]
WithCash(h, c)    == [h EXCEPT !.cash = c]

\* A job with other months.
LEMMA NewTodo ==
    ASSUME NEW h \in Jobs, NEW t \in SUBSET Months
    PROVE  LET j == WithTodo(h, t)
           IN  /\ j \in Jobs /\ Continues(j, h) /\ j.todo = t
               /\ j.replace = h.replace /\ j.cash = h.cash /\ j.doomed = h.doomed
<1>1. WithTodo(h, t) \in Jobs
  BY JobWith DEF WithTodo, Jobs
<1> QED
  BY <1>1 DEF WithTodo, Jobs, Continues

\* A job that has found out whether the month exists.
LEMMA NewReplace ==
    ASSUME NEW h \in Jobs, NEW b \in BOOLEAN
    PROVE  LET j == WithReplace(h, b)
           IN  /\ j \in Jobs /\ Continues(j, h) /\ j.replace = b
               /\ j.todo = h.todo /\ j.cash = h.cash /\ j.doomed = h.doomed
<1>1. WithReplace(h, b) \in Jobs
  BY JobWith DEF WithReplace, Jobs
<1> QED
  BY <1>1 DEF WithReplace, Jobs, Continues

\* A job that is about to delete rows.
LEMMA NewDoomed ==
    ASSUME NEW h \in Jobs, NEW d \in SUBSET Rows
    PROVE  LET j == WithDoomed(h, d)
           IN  /\ j \in Jobs /\ Continues(j, h) /\ j.doomed = d
               /\ j.todo = h.todo /\ j.replace = h.replace /\ j.cash = h.cash
<1>1. WithDoomed(h, d) \in Jobs
  BY JobWith DEF WithDoomed, Jobs
<1> QED
  BY <1>1 DEF WithDoomed, Jobs, Continues

\* A job that has measured the cash.
LEMMA NewCash ==
    ASSUME NEW h \in Jobs, NEW A \in SUBSET Accounts, NEW c \in [A -> Int]
    PROVE  LET j == WithCash(h, c)
           IN  /\ j \in Jobs /\ Continues(j, h) /\ j.cash = c
               /\ j.todo = h.todo /\ j.replace = h.replace /\ j.doomed = h.doomed
<1>1. WithCash(h, c) \in Jobs
  BY JobWith DEF WithCash
<1> QED
  BY <1>1 DEF WithCash, Jobs, Continues

Through(h) == [h EXCEPT !.todo = h.todo \ {Latest(h)}, !.cash = << >>, !.doomed = {}]

\* A job that is done with a month.
LEMMA NewMonth ==
    ASSUME NEW h \in Jobs
    PROVE  /\ Through(h) \in Jobs /\ Continues(Through(h), h) /\ Through(h).todo = h.todo \ {Latest(h)}
           /\ Through(h).replace = h.replace /\ DOMAIN Through(h).cash = {}
<1> DEFINE t == h.todo \ {Latest(h)}
<1>1. << >> \in [{} -> Int] /\ {} \in SUBSET Accounts /\ {} \in SUBSET Rows /\ t \in SUBSET Months
  BY JobFields
<1> HIDE DEF t
<1>2. [h EXCEPT !.todo = t, !.cash = << >>, !.doomed = {}] \in Jobs
  BY <1>1, JobWith
<1>3. Through(h) = [h EXCEPT !.todo = t, !.cash = << >>, !.doomed = {}]
  BY DEF Through, t
<1>4. Through(h).cash = << >> /\ Through(h).todo = t /\ Through(h).replace = h.replace
  BY <1>3 DEF Jobs
<1>5. DOMAIN << >> = {}
  OBVIOUS
<1>6. Continues(Through(h), h)
  BY <1>3 DEF Jobs, Continues
<1> QED
  BY <1>2, <1>3, <1>4, <1>5, <1>6 DEF t

WithRows(m, R)    == [m EXCEPT !.rows = R]
WithGone(m, G)    == [m EXCEPT !.gone = G]
WithHist(m, U, H) == [m EXCEPT !.unhist = U, !.hist = H]

\* Writes with another field.
LEMMA NewWrites ==
    ASSUME NEW m \in Writes, NEW R \in SUBSET Rows
    PROVE  /\ LET n == WithRows(m, R)
              IN  n \in Writes /\ n.keys = m.keys /\ n.rows = R /\ n.gone = m.gone
                  /\ n.hist = m.hist /\ n.unhist = m.unhist
           /\ LET n == WithGone(m, R)
              IN  n \in Writes /\ n.keys = m.keys /\ n.rows = m.rows /\ n.gone = R
                  /\ n.hist = m.hist /\ n.unhist = m.unhist
BY DEF Writes, WithRows, WithGone

\* Writes with another value history.
LEMMA NewHist ==
    ASSUME NEW m \in Writes, NEW U \in SUBSET Rows, NEW H \in SUBSET Rows
    PROVE  LET n == WithHist(m, U, H)
           IN  n \in Writes /\ n.keys = m.keys /\ n.rows = m.rows /\ n.gone = m.gone
               /\ n.hist = H /\ n.unhist = U
BY DEF Writes, WithHist

\* Writes have fields.
LEMMA WriteFields ==
    ASSUME NEW m \in Writes
    PROVE  /\ m.keys \in SUBSET (Investing \X Months) /\ m.rows \in SUBSET Rows /\ m.gone \in SUBSET Rows
           /\ m.hist \in SUBSET Rows /\ m.unhist \in SUBSET Rows
BY DEF Writes

\* Rows have fields.
LEMMA RowFields ==
    ASSUME NEW r \in Rows
    PROVE  r.acct \in Accounts /\ r.month \in Months /\ r.month \in Int /\ r.amount \in Int /\ r.by \in 1..Budget
BY DEF Rows, Months

-----------------------------------------------------------------------------
(* The months the job is to fill *)

\* The job finds its months: those it wants, and none is written yet.
LEMMA FloorFacts ==
    ASSUME NEW w, NEW h \in Jobs, NEW k \in Writes, Facts(w, "floor", h, k), rows \subseteq Rows,
           NEW floor, floor = (IF rows = {} THEN h.upto ELSE OldestMonth(rows)),
           NEW t, t = {m \in Months : m <= h.upto /\ m > h.upto - CatchUp /\ m >= floor},
           NEW j, j = WithTodo(h, t), NEW s, s = (IF t = {} THEN "commit" ELSE "decide")
    PROVE  Facts(w, s, j, k)
<1>1. t \in SUBSET Months /\ h.upto \in Months /\ h.upto \in Int /\ CatchUp \in Int
  BY JobFields, WindowAssumption DEF Months
<1>2. /\ j \in Jobs /\ j.kind = h.kind /\ j.id = h.id /\ j.upto = h.upto /\ j.acct = h.acct
      /\ j.todo = t /\ j.cash = h.cash
  BY <1>1, NewTodo DEF Continues
<1>3. h.kind # "delete"
  BY DEF Facts, Deleter
<1>4. /\ k.rows = {} /\ k.gone = {} /\ k.hist = {} /\ k.unhist = {}
      /\ h.kind = "auto" /\ h.acct = None
  BY <1>3 DEF Facts, Snapper, Plans
<1>5. Plans(s, j, k)
  <2>1. t \subseteq 1..h.upto
    BY <1>1 DEF Months
  <2> QED
    BY <1>2, <1>4, <2>1 DEF Plans, Monthly
<1>6. WritesOnce(s, j, k) /\ Replaces(s, j, k)
  BY <1>4 DEF WritesOnce, Replaces
<1>7. Cleared(s, j, k) = {}
  BY <1>4 DEF Cleared, MonthsOf
<1>8. Fills(s, j, k, rows) /\ Clears(s, j, k, rows)
  BY <1>7 DEF Fills, Clears
<1>9. Remembers(j, k, accts, crossed)
  BY <1>2, <1>3 DEF Facts, Remembers
<1>10. ASSUME w \in calm PROVE Undisturbed(s, j, k) /\ FillsGaps(s, j, k)
  <2>1. \A r \in rows : r.month <= h.upto
    BY <1>3, <1>10 DEF Facts, Undisturbed
  <2>2. Undisturbed(s, j, k)
    BY <1>2, <1>4, <2>1 DEF Undisturbed, MonthsOf, Monthly
  <2>3. ASSUME NEW n \in Wanted(j) PROVE n \in t
    <3>1. /\ n \in Months /\ n \in Int /\ n <= h.upto /\ n > h.upto - CatchUp
          /\ n = h.upto \/ \E r \in rows : r.month <= n
      BY <1>2 DEF Wanted, Months
    <3>2. CASE rows = {}
      BY <1>1, <3>1, <3>2
    <3>3. CASE rows # {}
      <4>1. \A r \in rows : r.month \in Nat
        BY RowFields DEF Months
      <4> DEFINE M == {r.month : r \in rows}
      <4>2. M \in SUBSET Nat /\ M # {} /\ \A r \in rows : r.month \in M
        BY <3>3, <4>1
      <4>3. floor = Min(M)
        BY <3>3 DEF OldestMonth
      <4> HIDE DEF M
      <4>5. floor \in M /\ \A x \in M : floor <= x
        BY <4>2, <4>3, MinIsLeast
      <4>4. PICK r \in rows : r.month <= n
        BY <2>1, <3>1, <3>3
      <4> QED
        BY <3>1, <4>1, <4>2, <4>4, <4>5
    <3> QED
      BY <3>2, <3>3
  <2>4. FillsGaps(s, j, k)
    BY <1>2, <2>3 DEF FillsGaps, Pending
  <2> QED
    BY <2>2, <2>4
<1> QED
  BY <1>2, <1>3, <1>5, <1>6, <1>8, <1>9, <1>10 DEF Facts, Snapper

-----------------------------------------------------------------------------
(* A month after the other *)

\* Figures and wishes depend on a job's number and month alone.
LEMMA SameRun ==
    ASSUME NEW h, NEW j, Continues(j, h)
    PROVE  /\ \A n, ps : FreshRows(j, n, ps) = FreshRows(h, n, ps) /\ FreshHist(j, n, ps) = FreshHist(h, n, ps)
           /\ Wanted(j) = Wanted(h)
<1>1. j.id = h.id /\ j.upto = h.upto
  BY DEF Continues
<1>2. Wanted(j) = Wanted(h)
  BY <1>1 DEF Wanted
<1>3. \A n, ps : FreshRows(j, n, ps) = FreshRows(h, n, ps)
  BY <1>1 DEF FreshRows
<1>4. \A n, ps : FreshHist(j, n, ps) = FreshHist(h, n, ps)
  BY <1>1 DEF FreshHist
<1> QED
  BY <1>2, <1>3, <1>4

\* An undisturbed run stays one when it has the same months to do and the same writes.
LEMMA UndisturbedOn ==
    ASSUME NEW h, NEW j, Continues(j, h), j.todo = h.todo, NEW s, NEW t, NEW m, Undisturbed(s, h, m),
           t \in Monthly \ {"decide"} => j.replace = Has(rows, Latest(j)),
           t = "save" => j.cash = [a \in Scope |-> Cash(a, Latest(j))]
    PROVE  Undisturbed(t, j, m)
<1>1. \A n, ps : FreshRows(j, n, ps) = FreshRows(h, n, ps) /\ FreshHist(j, n, ps) = FreshHist(h, n, ps)
  BY SameRun
<1>2. \A r \in rows : r.month <= j.upto
  BY DEF Undisturbed, Continues
<1>3. \A n \in MonthsOf(m.rows) : InMonth(m.rows, n) = FreshRows(j, n, prices \cup m.keys)
  BY <1>1 DEF Undisturbed
<1>4. \A n \in MonthsOf(m.rows) \ j.todo : ~Orphaned(n) =>
        InMonth(hist \ m.unhist, n) = {} /\ InMonth(m.hist, n) = FreshHist(j, n, prices \cup m.keys)
  BY <1>1 DEF Undisturbed
<1> QED
  BY <1>2, <1>3, <1>4 DEF Undisturbed

\* Nothing is left to do for the month at hand of job h with writes m
Finished(w, h, m) ==
    LET t == h.todo \ {Latest(h)} IN
    /\ \A r \in m.rows : r.by = h.id /\ r.month <= h.upto /\ r.month \notin t
    /\ h.kind = "manual" => \A r \in m.rows : r.month = h.upto
    /\ \A r, q \in m.rows : Same(r, q) => r = q
    /\ \A g \in m.hist : g.month \notin t
    /\ \A r \in m.gone : r.by # h.id /\ r.month >= h.upto - 1 /\ r.month \notin t
    /\ \A n \in MonthsOf(m.rows) : n <= h.upto - 2 => InMonth(rows, n) = {}
    /\ Sole(w) => \A n \in MonthsOf(m.rows) : InMonth(rows \ m.gone, n) = {}
    /\ \A r \in m.rows \cup m.hist : accts[r.acct] = "DELETED" => r.acct \in crossed

FinishedCalm(h, m) ==
    LET t == h.todo \ {Latest(h)} IN
    /\ \A r \in rows : r.month <= h.upto
    /\ \A n \in MonthsOf(m.rows) : InMonth(m.rows, n) = FreshRows(h, n, prices \cup m.keys)
    /\ \A n \in MonthsOf(m.rows) \ t : ~Orphaned(n) =>
         InMonth(hist \ m.unhist, n) = {} /\ InMonth(m.hist, n) = FreshHist(h, n, prices \cup m.keys)
    /\ h.kind = "auto" /\ Scope # {} =>
         \A n \in Wanted(h) : n \in t \/ Has((rows \ m.gone) \cup m.rows, n)

\* Then the job goes on with the next month, or commits.
LEMMA MonthDone ==
    ASSUME NEW w, NEW h \in Jobs, NEW m \in Writes, h.kind # "delete", h.acct = None, h.todo # {},
           h.todo \subseteq 1..h.upto, h.kind = "manual" => h.todo \subseteq {h.upto},
           Finished(w, h, m), w \in calm => FinishedCalm(h, m),
           NEW j, j = Through(h), NEW s, s = (IF h.todo \ {Latest(h)} = {} THEN "commit" ELSE "decide")
    PROVE  j \in Jobs /\ Continues(j, h) /\ s \in Stages \ {"prices"} /\ Facts(w, s, j, m)
<1> DEFINE t == h.todo \ {Latest(h)}
<1>2. /\ j \in Jobs /\ Continues(j, h) /\ j.todo = t /\ DOMAIN j.cash = {}
  BY NewMonth
<1>3. j.kind = h.kind /\ j.id = h.id /\ j.upto = h.upto /\ j.acct = h.acct
  BY <1>2 DEF Continues
<1>4. /\ \A r \in m.rows : r.by = h.id /\ r.month <= h.upto /\ r.month \notin t
      /\ h.kind = "manual" => \A r \in m.rows : r.month = h.upto
      /\ \A r, q \in m.rows : Same(r, q) => r = q
      /\ \A g \in m.hist : g.month \notin t
      /\ \A r \in m.gone : r.by # h.id /\ r.month >= h.upto - 1 /\ r.month \notin t
      /\ \A n \in MonthsOf(m.rows) : n <= h.upto - 2 => InMonth(rows, n) = {}
      /\ Sole(w) => \A n \in MonthsOf(m.rows) : InMonth(rows \ m.gone, n) = {}
      /\ \A r \in m.rows \cup m.hist : accts[r.acct] = "DELETED" => r.acct \in crossed
  BY DEF Finished
<1> HIDE DEF t
<1>5. Plans(s, j, m)
  <2>1. t \subseteq 1..h.upto /\ (h.kind = "manual" => t \subseteq {h.upto})
    BY DEF t
  <2>2. (s = "commit" <=> t = {}) /\ s \in {"commit", "decide"}
    BY DEF t
  <2> QED
    BY <1>2, <1>3, <2>1, <2>2 DEF Plans, Monthly
<1>6. s \in {"commit", "decide"}
  OBVIOUS
<1>7. WritesOnce(s, j, m)
  BY <1>2, <1>3, <1>4, <1>6 DEF WritesOnce, Pending
<1>8. Replaces(s, j, m)
  BY <1>2, <1>3, <1>4, <1>6 DEF Replaces
<1>9. Cleared(s, j, m) = MonthsOf(m.rows)
  BY <1>6 DEF Cleared
<1>10. Fills(s, j, m, rows) /\ (Sole(w) => Clears(s, j, m, rows))
  BY <1>3, <1>4, <1>6, <1>9 DEF Fills, Clears
<1>11. Remembers(j, m, accts, crossed)
  BY <1>2, <1>4 DEF Remembers
<1>12. ASSUME w \in calm PROVE Undisturbed(s, j, m) /\ FillsGaps(s, j, m)
  <2>1. /\ \A r \in rows : r.month <= h.upto
        /\ \A n \in MonthsOf(m.rows) : InMonth(m.rows, n) = FreshRows(h, n, prices \cup m.keys)
        /\ \A n \in MonthsOf(m.rows) \ t : ~Orphaned(n) =>
             InMonth(hist \ m.unhist, n) = {} /\ InMonth(m.hist, n) = FreshHist(h, n, prices \cup m.keys)
        /\ h.kind = "auto" /\ Scope # {} =>
             \A n \in Wanted(h) : n \in t \/ Has((rows \ m.gone) \cup m.rows, n)
    BY <1>12 DEF FinishedCalm, t
  <2>2. Undisturbed(s, j, m)
    <3>1. s \notin Monthly \ {"decide"} /\ s # "save"
      BY <1>6 DEF Monthly
    <3>2. \A n, ps : FreshRows(j, n, ps) = FreshRows(h, n, ps) /\ FreshHist(j, n, ps) = FreshHist(h, n, ps)
      BY <1>2, SameRun
    <3>3. \A r \in rows : r.month <= j.upto
      BY <1>3, <2>1
    <3>4. \A n \in MonthsOf(m.rows) : InMonth(m.rows, n) = FreshRows(j, n, prices \cup m.keys)
      BY <2>1, <3>2
    <3>5. \A n \in MonthsOf(m.rows) \ j.todo : ~Orphaned(n) =>
            InMonth(hist \ m.unhist, n) = {} /\ InMonth(m.hist, n) = FreshHist(j, n, prices \cup m.keys)
      BY <1>2, <2>1, <3>2
    <3> QED
      BY <3>1, <3>3, <3>4, <3>5 DEF Undisturbed
  <2>3. FillsGaps(s, j, m)
    BY <1>2, <1>3, <1>6, <2>1, SameRun DEF FillsGaps, Pending
  <2> QED
    BY <2>2, <2>3
<1> QED
  BY <1>2, <1>3, <1>5, <1>6, <1>7, <1>8, <1>10, <1>11, <1>12 DEF Facts, Snapper, Stages

\* What a snapshot with a month at hand has done is finished if the month needs no rows:
\* it is an old one that is there, or there is nothing to snapshot.
LEMMA NothingToDo ==
    ASSUME NEW w, NEW h \in Jobs, NEW k \in Writes, NEW s \in {"decide", "measure"}, Facts(w, s, h, k),
           s = "decide"  => Has((rows \ k.gone) \cup k.rows, Latest(h)),
           s = "measure" => Scope = {}
    PROVE  Finished(w, h, k) /\ (w \in calm => FinishedCalm(h, k))
<1>1. h.kind # "delete" /\ Snapper(s, h, k) /\ Fills(s, h, k, rows) /\ Remembers(h, k, accts, crossed)
  BY DEF Facts, Deleter
<1>2. MonthsOf(k.rows) \subseteq Cleared(s, h, k)
  BY DEF Cleared
<1>3. Sole(w) => Clears(s, h, k, rows)
  BY <1>1 DEF Facts
<1>4. Finished(w, h, k)
  <2>1. /\ \A r \in k.rows : r.by = h.id /\ r.month <= h.upto /\ r.month \notin h.todo
        /\ h.kind = "manual" => \A r \in k.rows : r.month = h.upto
        /\ \A r, q \in k.rows : Same(r, q) => r = q
        /\ \A g \in k.hist : g.month \notin h.todo
    BY <1>1 DEF Snapper, WritesOnce, Pending
  <2>2. \A r \in k.gone : r.by # h.id /\ r.month >= h.upto - 1 /\ r.month \notin h.todo \ {Latest(h)}
    BY <1>1 DEF Snapper, Replaces
  <2>3. /\ \A n \in MonthsOf(k.rows) : n <= h.upto - 2 => InMonth(rows, n) = {}
        /\ Sole(w) => \A n \in MonthsOf(k.rows) : InMonth(rows \ k.gone, n) = {}
    BY <1>1, <1>2, <1>3 DEF Fills, Clears
  <2>4. \A r \in k.rows \cup k.hist : accts[r.acct] = "DELETED" => r.acct \in crossed
    BY <1>1 DEF Remembers
  <2> QED
    BY <2>1, <2>2, <2>3, <2>4 DEF Finished
<1>5. ASSUME w \in calm PROVE FinishedCalm(h, k)
  <2>1. Undisturbed(s, h, k) /\ FillsGaps(s, h, k)
    BY <1>1, <1>5 DEF Facts
  <2>2. h.todo # {}
    BY <1>1 DEF Snapper, Plans, Monthly
  <2>3. Latest(h) \in h.todo
    BY <2>2, LatestIsDue
  <2>4. \A n \in MonthsOf(k.rows) : n \notin h.todo
    BY <1>1 DEF Snapper, WritesOnce, Pending, MonthsOf
  <2>5. h.kind = "auto" /\ Scope # {} =>
          \A n \in Wanted(h) : n \in h.todo \ {Latest(h)} \/ Has((rows \ k.gone) \cup k.rows, n)
    BY <2>1 DEF FillsGaps, Pending
  <2> QED
    BY <2>1, <2>4, <2>5 DEF FinishedCalm, Undisturbed
<1> QED
  BY <1>4, <1>5

\* A month that is to be made: it is replaced, being recent, or there are no rows of it.
LEMMA DecideFacts ==
    ASSUME NEW w, NEW h \in Jobs, NEW k \in Writes, Facts(w, "decide", h, k),
           rows \subseteq Rows,
           NEW e \in BOOLEAN, e = Has((rows \ k.gone) \cup k.rows, Latest(h)),
           e => Latest(h) \in {h.upto, h.upto - 1},
           NEW j, j = WithReplace(h, e), NEW s, s = (IF e THEN "wipe" ELSE "measure")
    PROVE  Facts(w, s, j, k)
<1>1. h.kind # "delete" /\ Snapper("decide", h, k) /\ Fills("decide", h, k, rows) /\ Remembers(h, k, accts, crossed)
  BY DEF Facts, Deleter
<1>2. /\ j \in Jobs /\ Continues(j, h) /\ j.todo = h.todo /\ j.replace = e /\ j.cash = h.cash
      /\ j.kind = h.kind /\ j.id = h.id /\ j.upto = h.upto /\ j.acct = h.acct /\ Latest(j) = Latest(h)
  BY NewReplace DEF Continues, Latest
<1>3. s \in {"wipe", "measure"}
  OBVIOUS
<1>4. h.todo # {} /\ Latest(h) \in h.todo /\ Latest(h) \in Int /\ h.upto \in Int
  BY <1>1, LatestIsDue, JobFields DEF Snapper, Plans, Monthly, Months
<1>5. \A r \in k.gone : r \in Rows /\ r.month \notin h.todo /\ r.by # h.id /\ r.month >= h.upto - 1
  BY <1>1, WriteFields DEF Snapper, Replaces
<1>6. \A r \in k.rows : r.month \notin h.todo
  BY <1>1 DEF Snapper, WritesOnce, Pending
<1>7. Plans(s, j, k)
  BY <1>1, <1>2, <1>3 DEF Snapper, Plans, Monthly
<1>8. WritesOnce(s, j, k)
  BY <1>1, <1>2, <1>3 DEF Snapper, WritesOnce, Pending
<1>9. Replaces(s, j, k)
  BY <1>1, <1>2, <1>3, <1>5 DEF Replaces
<1>10. s = "measure" => InMonth(rows \ k.gone, Latest(h)) = {}
  BY DEF Has, InMonth
<1>11. e = Has(rows, Latest(h))
  BY <1>4, <1>5, <1>6 DEF Has, InMonth
<1>12. Fills(s, j, k, rows)
  <2>1. ASSUME NEW n \in Cleared(s, j, k), n <= j.upto - 2 PROVE InMonth(rows, n) = {}
    <3>1. CASE n \in MonthsOf(k.rows)
      BY <1>1, <1>2, <2>1, <3>1 DEF Fills, Cleared
    <3>2. CASE n \notin MonthsOf(k.rows)
      <4>1. n = Latest(h) /\ s = "measure"
        BY <1>2, <3>2, <2>1, <1>3 DEF Cleared
      <4> QED
        BY <1>11, <4>1 DEF Has
    <3> QED
      BY <3>1, <3>2
  <2> QED
    BY <2>1 DEF Fills
<1>13. ASSUME Sole(w) PROVE Clears(s, j, k, rows)
  <2>1. \A n \in MonthsOf(k.rows) : InMonth(rows \ k.gone, n) = {}
    BY <1>1, <1>13 DEF Facts, Clears, Cleared
  <2> QED
    BY <1>2, <1>3, <1>10, <2>1 DEF Clears, Cleared
<1>14. Remembers(j, k, accts, crossed)
  BY <1>1, <1>2 DEF Remembers
<1>15. ASSUME w \in calm PROVE Undisturbed(s, j, k) /\ FillsGaps(s, j, k)
  <2>1. Undisturbed("decide", h, k) /\ FillsGaps("decide", h, k)
    BY <1>1, <1>15 DEF Facts
  <2>2. Undisturbed(s, j, k)
    <3>1. j.replace = Has(rows, Latest(j)) /\ s # "save"
      BY <1>2, <1>3, <1>11
    <3> QED
      BY <1>2, <2>1, <3>1, UndisturbedOn
  <2>3. FillsGaps(s, j, k)
    BY <1>2, <1>3, <2>1, SameRun DEF FillsGaps, Pending
  <2> QED
    BY <2>2, <2>3
<1> QED
  BY <1>1, <1>2, <1>7, <1>8, <1>9, <1>12, <1>13, <1>14, <1>15 DEF Facts, Snapper

\* The month's rows, as the DELETE sees them.
LEMMA WipeFacts ==
    ASSUME NEW w, NEW h \in Jobs, NEW k \in Writes, Facts(w, "wipe", h, k), rows \subseteq Rows,
           NEW d, d = InMonth((rows \ k.gone) \cup k.rows, Latest(h)), NEW j, j = WithDoomed(h, d)
    PROVE  j \in Jobs /\ Continues(j, h) /\ Facts(w, "wiped", j, k)
<1>1. h.kind # "delete" /\ Snapper("wipe", h, k) /\ Fills("wipe", h, k, rows) /\ Remembers(h, k, accts, crossed)
  BY DEF Facts, Deleter
<1>2. d \in SUBSET Rows
  BY WriteFields DEF InMonth
<1>3. /\ j \in Jobs /\ Continues(j, h) /\ j.todo = h.todo /\ j.replace = h.replace /\ j.cash = h.cash /\ j.doomed = d
      /\ j.kind = h.kind /\ j.id = h.id /\ j.upto = h.upto /\ j.acct = h.acct /\ Latest(j) = Latest(h)
  BY <1>2, NewDoomed DEF Continues, Latest
<1>4. Plans("wiped", j, k) /\ WritesOnce("wiped", j, k)
  BY <1>1, <1>3 DEF Snapper, Plans, WritesOnce, Pending, Monthly
<1>5. Replaces("wiped", j, k)
  BY <1>1, <1>3 DEF Snapper, Replaces, InMonth
<1>6. Cleared("wiped", j, k) = MonthsOf(k.rows) /\ Cleared("wipe", h, k) = MonthsOf(k.rows)
  BY DEF Cleared
<1>7. Fills("wiped", j, k, rows)
  BY <1>1, <1>3, <1>6 DEF Fills
<1>8. ASSUME Sole(w) PROVE Clears("wiped", j, k, rows)
  <2>1. Clears("wipe", h, k, rows)
    BY <1>1, <1>8 DEF Facts
  <2>2. InMonth(rows \ k.gone, Latest(h)) \subseteq d
    BY DEF InMonth
  <2> QED
    BY <1>3, <1>6, <2>1, <2>2 DEF Clears
<1>9. Remembers(j, k, accts, crossed)
  BY <1>1, <1>3 DEF Remembers
<1>10. ASSUME w \in calm PROVE Undisturbed("wiped", j, k) /\ FillsGaps("wiped", j, k)
  <2>1. Undisturbed("wipe", h, k) /\ FillsGaps("wipe", h, k)
    BY <1>1, <1>10 DEF Facts
  <2>2. j.replace = Has(rows, Latest(j))
    BY <1>3, <2>1 DEF Undisturbed, Monthly
  <2>4. Undisturbed("wiped", j, k)
    BY <1>3, <2>1, <2>2, UndisturbedOn
  <2>3. FillsGaps("wiped", j, k)
    BY <1>3, <2>1, SameRun DEF FillsGaps, Pending
  <2> QED
    BY <2>3, <2>4
<1> QED
  BY <1>1, <1>3, <1>4, <1>5, <1>7, <1>8, <1>9, <1>10 DEF Facts, Snapper

\* The DELETE ends: of the month no rows are left but those it did not see.
LEMMA WipedFacts ==
    ASSUME NEW w, NEW h \in Jobs, NEW k \in Writes, Facts(w, "wiped", h, k), h.kind # "delete",
           rows \subseteq Rows, \A r \in rows : r.by # h.id,
           NEW G, G = k.gone \cup (h.doomed \cap rows), NEW m, m = WithGone(k, G)
    PROVE  m \in Writes /\ m.keys = k.keys /\ Facts(w, "measure", h, m)
<1>1. Snapper("wiped", h, k) /\ Fills("wiped", h, k, rows) /\ Remembers(h, k, accts, crossed)
  BY DEF Facts
<1>2. G \in SUBSET Rows
  BY WriteFields
<1>3. /\ m \in Writes /\ m.keys = k.keys /\ m.rows = k.rows /\ m.gone = G
      /\ m.hist = k.hist /\ m.unhist = k.unhist
  BY <1>2, NewWrites
<1>4. h.todo # {} /\ Latest(h) \in h.todo /\ Latest(h) \in Int /\ h.upto \in Int
  BY <1>1, LatestIsDue, JobFields DEF Snapper, Plans, Monthly, Months
<1>5. Latest(h) \in {h.upto, h.upto - 1} /\ \A r \in h.doomed : r.month = Latest(h)
  BY <1>1 DEF Snapper, Replaces
<1>6. Latest(h) >= h.upto - 1 /\ ~(Latest(h) <= h.upto - 2)
  BY <1>4, <1>5
<1>7. Plans("measure", h, m) /\ WritesOnce("measure", h, m)
  BY <1>1, <1>3 DEF Snapper, Plans, WritesOnce, Pending, Monthly
<1>8. Replaces("measure", h, m)
  <2>1. \A r \in k.gone : r.by # h.id /\ r.month >= h.upto - 1 /\ r.month \notin h.todo
    BY <1>1 DEF Snapper, Replaces
  <2>2. \A r \in h.doomed \cap rows : r.by # h.id /\ r.month >= h.upto - 1 /\ r.month = Latest(h)
    BY <1>5, <1>6
  <2> QED
    BY <1>3, <2>1, <2>2 DEF Replaces
<1>9. Fills("measure", h, m, rows)
  BY <1>1, <1>3, <1>6 DEF Fills, Cleared
<1>10. ASSUME Sole(w) PROVE Clears("measure", h, m, rows)
  <2>1. /\ \A n \in MonthsOf(k.rows) : InMonth(rows \ k.gone, n) = {}
        /\ InMonth(rows \ k.gone, Latest(h)) \subseteq h.doomed
    BY <1>10 DEF Facts, Clears, Cleared
  <2>2. \A n : InMonth(rows \ G, n) \subseteq InMonth(rows \ k.gone, n)
    BY DEF InMonth
  <2>3. InMonth(rows \ G, Latest(h)) = {}
    <3>1. ASSUME NEW r \in InMonth(rows \ G, Latest(h)) PROVE FALSE
      <4>1. r \in rows /\ r \notin G /\ r \in InMonth(rows \ k.gone, Latest(h))
        BY <2>2 DEF InMonth
      <4> QED
        BY <2>1, <4>1
    <3> QED
      BY <3>1
  <2>4. \A n \in MonthsOf(k.rows) : InMonth(rows \ G, n) = {}
    BY <2>1, <2>2
  <2> QED
    BY <1>3, <2>3, <2>4 DEF Clears, Cleared
<1>11. Remembers(h, m, accts, crossed)
  BY <1>1, <1>3 DEF Remembers
<1>12. ASSUME w \in calm PROVE Undisturbed("measure", h, m) /\ FillsGaps("measure", h, m)
  <2>1. Undisturbed("wiped", h, k) /\ FillsGaps("wiped", h, k)
    BY <1>12 DEF Facts
  <2>2. Undisturbed("measure", h, m)
    BY <1>3, <2>1 DEF Undisturbed, Monthly
  <2>3. \A n : n \notin h.todo /\ Has((rows \ k.gone) \cup k.rows, n) => Has((rows \ m.gone) \cup m.rows, n)
    BY <1>3, <1>4, <1>5 DEF Has, InMonth
  <2>4. FillsGaps("measure", h, m)
    BY <2>1, <2>3 DEF FillsGaps, Pending
  <2> QED
    BY <2>2, <2>4
<1> QED
  BY <1>3, <1>7, <1>8, <1>9, <1>10, <1>11, <1>12 DEF Facts, Snapper

\* The cash of the accounts that are there.
LEMMA MeasureFacts ==
    ASSUME NEW w, NEW h \in Jobs, NEW k \in Writes, Facts(w, "measure", h, k),
           NEW c, c = [a \in Scope |-> Cash(a, Latest(h))], NEW j, j = WithCash(h, c)
    PROVE  j \in Jobs /\ Continues(j, h) /\ Facts(w, "save", j, k)
<1>1. h.kind # "delete" /\ Snapper("measure", h, k) /\ Fills("measure", h, k, rows)
      /\ Remembers(h, k, accts, crossed)
  BY DEF Facts, Deleter
<1>2. h.todo # {} /\ Latest(h) \in Months
  BY <1>1, LatestIsDue DEF Snapper, Plans, Monthly
<1>3. Scope \in SUBSET Accounts /\ c \in [Scope -> Int]
  BY <1>2, Amounts DEF Scope
<1>4. /\ j \in Jobs /\ Continues(j, h) /\ j.todo = h.todo /\ j.replace = h.replace /\ j.cash = c
      /\ j.kind = h.kind /\ j.id = h.id /\ j.upto = h.upto /\ j.acct = h.acct /\ Latest(j) = Latest(h)
  BY <1>3, NewCash DEF Continues, Latest
<1>5. Plans("save", j, k) /\ WritesOnce("save", j, k) /\ Replaces("save", j, k)
  BY <1>1, <1>4 DEF Snapper, Plans, WritesOnce, Replaces, Pending, Monthly
<1>6. Cleared("save", j, k) = Cleared("measure", h, k)
  BY <1>4 DEF Cleared
<1>7. Fills("save", j, k, rows) /\ (Sole(w) => Clears("save", j, k, rows))
  BY <1>1, <1>4, <1>6 DEF Facts, Fills, Clears
<1>8. Remembers(j, k, accts, crossed)
  <2>1. DOMAIN j.cash = Scope /\ \A a \in Scope : accts[a] # "DELETED"
    BY <1>4 DEF Scope
  <2> QED
    BY <1>1, <2>1 DEF Remembers
<1>9. ASSUME w \in calm PROVE Undisturbed("save", j, k) /\ FillsGaps("save", j, k)
  <2>1. Undisturbed("measure", h, k) /\ FillsGaps("measure", h, k)
    BY <1>1, <1>9 DEF Facts
  <2>4. j.replace = Has(rows, Latest(j))
    BY <1>4, <2>1 DEF Undisturbed, Monthly
  <2>2. Undisturbed("save", j, k)
    BY <1>4, <2>1, <2>4, UndisturbedOn
  <2>3. FillsGaps("save", j, k)
    BY <1>4, <2>1, SameRun DEF FillsGaps, Pending
  <2> QED
    BY <2>2, <2>3
<1> QED
  BY <1>1, <1>4, <1>5, <1>7, <1>8, <1>9 DEF Facts, Snapper

\* The rows and the value history of the month at hand
Measured(j, m) ==
    {[acct |-> a, month |-> Latest(j), by |-> j.id,
      amount |-> j.cash[a] + Worth(a, Latest(j), prices \cup m.keys)] : a \in DOMAIN j.cash}
Valued(j, m) ==
    {[acct |-> a, month |-> Latest(j), by |-> j.id, amount |-> Worth(a, Latest(j), prices \cup m.keys)] :
     a \in {b \in Scope \cap Investing : Held(b, Latest(j)) > 0}}
Former(j, m) == IF j.replace THEN InMonth((hist \ m.unhist) \cup m.hist, Latest(j)) ELSE {}

\* The rows are there now, one for each account that was measured.
LEMMA SaveFacts ==
    ASSUME NEW w, NEW h \in Jobs, NEW k \in Writes, Facts(w, "save", h, k),
           NEW m, m = WithRows(k, k.rows \cup Measured(h, k))
    PROVE  m \in Writes /\ m.keys = k.keys /\ Facts(w, "history", h, m)
<1>1. h.kind # "delete" /\ Snapper("save", h, k) /\ Fills("save", h, k, rows) /\ Remembers(h, k, accts, crossed)
  BY DEF Facts, Deleter
<1>2. h.todo # {} /\ Latest(h) \in h.todo /\ Latest(h) \in Months
  BY <1>1, LatestIsDue DEF Snapper, Plans, Monthly
<1> DEFINE R == Measured(h, k)
<1>3. \A r \in R : r.acct \in DOMAIN h.cash /\ r.month = Latest(h) /\ r.by = h.id
  BY DEF Measured
<1>4. \A r, q \in R : r.acct = q.acct => r = q
  BY DEF Measured
<1>5. R \in SUBSET Rows
  <2>1. ASSUME NEW a \in DOMAIN h.cash
        PROVE  a \in Accounts /\ h.cash[a] + Worth(a, Latest(h), prices \cup k.keys) \in Int
    <3>1. a \in Accounts /\ h.cash[a] \in Int /\ Worth(a, Latest(h), prices \cup k.keys) \in Int
      BY <1>2, Amounts, JobFields
    <3> QED
      BY <3>1
  <2>2. h.id \in 1..Budget
    BY JobFields
  <2>3. ASSUME NEW r \in R PROVE r \in Rows
    <3>1. PICK a \in DOMAIN h.cash :
            r = [acct |-> a, month |-> Latest(h), by |-> h.id,
                 amount |-> h.cash[a] + Worth(a, Latest(h), prices \cup k.keys)]
      BY <2>3 DEF Measured
    <3> QED
      BY <1>2, <2>1, <2>2, <3>1 DEF Rows
  <2> QED
    BY <2>3
<1>6. /\ m \in Writes /\ m.keys = k.keys /\ m.rows = k.rows \cup R /\ m.gone = k.gone
      /\ m.hist = k.hist /\ m.unhist = k.unhist
  <2>1. k.rows \cup R \in SUBSET Rows
    BY <1>5, WriteFields
  <2> QED
    BY <2>1, NewWrites
<1> HIDE DEF R
<1>7. /\ \A r \in k.rows : r.by = h.id /\ r.month <= h.upto /\ r.month \notin h.todo
      /\ h.kind = "manual" => \A r \in k.rows : r.month = h.upto
      /\ \A r, q \in k.rows : Same(r, q) => r = q
      /\ \A g \in k.hist : g.month \notin h.todo
  BY <1>1 DEF Snapper, WritesOnce, Pending
<1>8. Plans("history", h, m)
  BY <1>1, <1>6 DEF Snapper, Plans, Monthly
<1>9. WritesOnce("history", h, m)
  <2>1. Latest(h) <= h.upto /\ (h.kind = "manual" => Latest(h) = h.upto)
    BY <1>1, <1>2 DEF Snapper, Plans
  <2>2. \A r \in m.rows : r.by = h.id /\ r.month <= h.upto /\ r.month \notin h.todo \ {Latest(h)}
    BY <1>3, <1>6, <1>7, <2>1
  <2>3. \A r, q \in m.rows : Same(r, q) => r = q
    <3>1. \A r \in k.rows : r.month # Latest(h)
      BY <1>2, <1>7
    <3>2. \A r \in k.rows, q \in R : ~Same(r, q) /\ ~Same(q, r)
      BY <1>3, <3>1 DEF Same
    <3>3. \A r, q \in R : Same(r, q) => r = q
      BY <1>4 DEF Same
    <3> QED
      BY <1>6, <1>7, <3>2, <3>3
  <2>4. h.kind = "manual" => \A r \in m.rows : r.month = h.upto
    BY <1>3, <1>6, <1>7, <2>1
  <2> QED
    BY <1>6, <1>7, <2>2, <2>3, <2>4 DEF WritesOnce, Pending
<1>10. Replaces("history", h, m)
  BY <1>1, <1>6 DEF Snapper, Replaces
<1>11. Cleared("history", h, m) \subseteq Cleared("save", h, k)
  BY <1>3, <1>6 DEF Cleared, MonthsOf
<1>12. Fills("history", h, m, rows)
  BY <1>1, <1>11 DEF Fills
<1>13. ASSUME Sole(w) PROVE Clears("history", h, m, rows)
  BY <1>1, <1>6, <1>11, <1>13 DEF Facts, Clears
<1>14. Remembers(h, m, accts, crossed)
  BY <1>1, <1>3, <1>6 DEF Remembers
<1>15. ASSUME w \in calm PROVE Undisturbed("history", h, m) /\ FillsGaps("history", h, m)
  <2>1. Undisturbed("save", h, k) /\ FillsGaps("save", h, k)
    BY <1>1, <1>15 DEF Facts
  <2>2. /\ DOMAIN h.cash = Scope /\ \A a \in Scope : h.cash[a] = Cash(a, Latest(h))
    BY <2>1 DEF Undisturbed
  <2>3. R = FreshRows(h, Latest(h), prices \cup k.keys)
    BY <2>2 DEF R, Measured, FreshRows
  <2>4. InMonth(m.rows, Latest(h)) = R
    BY <1>2, <1>3, <1>6, <1>7 DEF InMonth
  <2>5. ASSUME NEW n \in MonthsOf(m.rows), n # Latest(h)
        PROVE  n \in MonthsOf(k.rows) /\ InMonth(m.rows, n) = InMonth(k.rows, n)
    BY <1>3, <1>6, <2>5 DEF MonthsOf, InMonth
  <2>6. \A n \in MonthsOf(m.rows) : InMonth(m.rows, n) = FreshRows(h, n, prices \cup m.keys)
    BY <1>6, <2>1, <2>3, <2>4, <2>5 DEF Undisturbed
  <2>7. \A n \in MonthsOf(m.rows) \ h.todo : ~Orphaned(n) =>
          InMonth(hist \ m.unhist, n) = {} /\ InMonth(m.hist, n) = FreshHist(h, n, prices \cup m.keys)
    <3>1. \A n \in MonthsOf(m.rows) \ h.todo : n \in MonthsOf(k.rows) \ h.todo
      BY <1>2, <2>5
    <3> QED
      BY <1>6, <2>1, <3>1 DEF Undisturbed
  <2>8. Undisturbed("history", h, m)
    BY <2>1, <2>6, <2>7 DEF Undisturbed, Monthly
  <2>9. ASSUME Scope # {}, NEW n, n \in h.todo \/ Has((rows \ k.gone) \cup k.rows, n)
        PROVE  n \in h.todo \ {Latest(h)} \/ Has((rows \ m.gone) \cup m.rows, n)
    <3>1. CASE n = Latest(h)
      <4>1. R # {}
        BY <2>2, <2>9 DEF R, Measured
      <4> QED
        BY <1>3, <1>6, <3>1, <4>1 DEF Has, InMonth
    <3>2. CASE n # Latest(h)
      BY <1>6, <2>9, <3>2 DEF Has, InMonth
    <3> QED
      BY <3>1, <3>2
  <2>10. FillsGaps("history", h, m)
    BY <2>1, <2>9 DEF FillsGaps, Pending
  <2> QED
    BY <2>8, <2>10
<1> QED
  BY <1>1, <1>6, <1>8, <1>9, <1>10, <1>12, <1>13, <1>14, <1>15 DEF Facts, Snapper

\* The value history of the month is there too, and the month is finished.
LEMMA HistoryFacts ==
    ASSUME NEW w, NEW h \in Jobs, NEW k \in Writes, Facts(w, "history", h, k), hist \subseteq Rows,
           NEW m, m = WithHist(k, k.unhist \cup (Former(h, k) \cap hist), k.hist \cup Valued(h, k))
    PROVE  m \in Writes /\ m.keys = k.keys /\ Finished(w, h, m) /\ (w \in calm => FinishedCalm(h, m))
<1>1. h.kind # "delete" /\ Snapper("history", h, k) /\ Fills("history", h, k, rows)
      /\ Remembers(h, k, accts, crossed)
  BY DEF Facts, Deleter
<1>2. h.todo # {} /\ Latest(h) \in h.todo /\ Latest(h) \in Months
  BY <1>1, LatestIsDue DEF Snapper, Plans, Monthly
<1> DEFINE H == Valued(h, k)
           old == Former(h, k)
<1>3. \A g \in H : g.acct \in Scope /\ g.month = Latest(h)
  BY DEF Valued
<1>4. H \in SUBSET Rows
  <2>1. \A a \in Scope : a \in Accounts /\ Worth(a, Latest(h), prices \cup k.keys) \in Int
    BY <1>2, Amounts DEF Scope
  <2>2. h.id \in 1..Budget
    BY JobFields
  <2>3. ASSUME NEW r \in H PROVE r \in Rows
    <3>1. PICK a \in Scope : r = [acct |-> a, month |-> Latest(h), by |-> h.id,
                                 amount |-> Worth(a, Latest(h), prices \cup k.keys)]
      BY <2>3 DEF Valued
    <3> QED
      BY <1>2, <2>1, <2>2, <3>1 DEF Rows
  <2> QED
    BY <2>3
<1>5. /\ m \in Writes /\ m.keys = k.keys /\ m.rows = k.rows /\ m.gone = k.gone
      /\ m.hist = k.hist \cup H /\ m.unhist = k.unhist \cup (old \cap hist)
  <2> DEFINE U == k.unhist \cup (old \cap hist)
             G == k.hist \cup H
  <2>1. G \in SUBSET Rows /\ U \in SUBSET Rows /\ m = WithHist(k, U, G)
    BY <1>4, WriteFields
  <2> HIDE DEF U, G
  <2>2. /\ m \in Writes /\ m.keys = k.keys /\ m.rows = k.rows /\ m.gone = k.gone
        /\ m.hist = G /\ m.unhist = U
    BY <2>1, NewHist
  <2> QED
    BY <2>2 DEF U, G
<1>6. H = FreshHist(h, Latest(h), prices \cup m.keys)
  BY <1>5 DEF FreshHist, Valued
<1> HIDE DEF H, old
<1>7. Cleared("history", h, k) = MonthsOf(k.rows)
  BY DEF Cleared
<1>8. Finished(w, h, m)
  <2>1. /\ \A r \in k.rows : r.by = h.id /\ r.month <= h.upto /\ r.month \notin h.todo \ {Latest(h)}
        /\ h.kind = "manual" => \A r \in k.rows : r.month = h.upto
        /\ \A r, q \in k.rows : Same(r, q) => r = q
        /\ \A g \in k.hist : g.month \notin h.todo
    BY <1>1 DEF Snapper, WritesOnce, Pending
  <2>2. \A r \in k.gone : r.by # h.id /\ r.month >= h.upto - 1 /\ r.month \notin h.todo \ {Latest(h)}
    BY <1>1 DEF Snapper, Replaces
  <2>3. \A g \in m.hist : g.month \notin h.todo \ {Latest(h)}
    BY <1>3, <1>5, <2>1
  <2>4. /\ \A n \in MonthsOf(k.rows) : n <= h.upto - 2 => InMonth(rows, n) = {}
        /\ Sole(w) => \A n \in MonthsOf(k.rows) : InMonth(rows \ k.gone, n) = {}
    BY <1>1, <1>7 DEF Facts, Fills, Clears
  <2>5. \A r \in k.rows \cup k.hist : accts[r.acct] = "DELETED" => r.acct \in crossed
    BY <1>1 DEF Remembers
  <2>6. \A r \in m.rows \cup m.hist : accts[r.acct] = "DELETED" => r.acct \in crossed
    BY <1>3, <1>5, <2>5 DEF Scope
  <2> QED
    BY <1>5, <2>1, <2>2, <2>3, <2>4, <2>6 DEF Finished
<1>9. ASSUME w \in calm PROVE FinishedCalm(h, m)
  <2>1. Undisturbed("history", h, k) /\ FillsGaps("history", h, k)
    BY <1>1, <1>9 DEF Facts
  <2>2. ASSUME NEW n \in MonthsOf(k.rows), n \notin h.todo \ {Latest(h)}, ~Orphaned(n)
        PROVE  InMonth(hist \ m.unhist, n) = {} /\ InMonth(m.hist, n) = FreshHist(h, n, prices \cup m.keys)
    <3>1. CASE n = Latest(h)
      <4>1. InMonth(m.hist, n) = H
        <5>1. \A g \in k.hist : g.month # n
          BY <1>1, <1>2, <3>1 DEF Snapper, WritesOnce
        <5> QED
          BY <1>3, <1>5, <3>1, <5>1 DEF InMonth
      <4>2. CASE Has(rows, n)
        <5>1. h.replace = Has(rows, Latest(h))
          BY <2>1 DEF Undisturbed, Monthly
        <5>2. old = InMonth((hist \ k.unhist) \cup k.hist, n)
          BY <3>1, <4>2, <5>1 DEF old, Former
        <5>3. InMonth(hist \ m.unhist, n) = {}
          BY <1>5, <5>2 DEF InMonth
        <5> QED
          BY <1>6, <3>1, <4>1, <5>3
      <4>3. CASE ~Has(rows, n)
        <5>1. InMonth(hist, n) = {}
          BY <2>2, <4>3 DEF Orphaned, Has
        <5>2. InMonth(hist \ m.unhist, n) = {}
          BY <5>1 DEF InMonth
        <5> QED
          BY <1>6, <3>1, <4>1, <5>2
      <4> QED
        BY <4>2, <4>3
    <3>2. CASE n # Latest(h)
      <4>1. n \in MonthsOf(k.rows) \ h.todo
        BY <2>2, <3>2
      <4>2. InMonth(hist \ k.unhist, n) = {} /\ InMonth(k.hist, n) = FreshHist(h, n, prices \cup k.keys)
        BY <2>1, <2>2, <4>1 DEF Undisturbed
      <4>3. InMonth(m.hist, n) = InMonth(k.hist, n) /\ InMonth(hist \ m.unhist, n) \subseteq InMonth(hist \ k.unhist, n)
        BY <1>3, <1>5, <3>2 DEF InMonth
      <4> QED
        BY <1>5, <4>2, <4>3
    <3> QED
      BY <3>1, <3>2
  <2>3. /\ \A r \in rows : r.month <= h.upto
        /\ \A n \in MonthsOf(m.rows) : InMonth(m.rows, n) = FreshRows(h, n, prices \cup m.keys)
    BY <1>5, <2>1 DEF Undisturbed
  <2>4. h.kind = "auto" /\ Scope # {} =>
          \A n \in Wanted(h) : n \in h.todo \ {Latest(h)} \/ Has((rows \ m.gone) \cup m.rows, n)
    BY <1>5, <2>1 DEF FillsGaps, Pending
  <2> QED
    BY <1>5, <2>2, <2>3, <2>4 DEF FinishedCalm
<1> QED
  BY <1>5, <1>8, <1>9

-----------------------------------------------------------------------------
(* The steps of one transaction *)

\* A transaction at a stage of its own has a job and writes that the invariant speaks of.
LEMMA AtStage ==
    ASSUME IInv, NEW w \in Workers, pc[w] \in Stages
    PROVE  /\ pc[w] # "idle" /\ w \in Open
           /\ job[w] \in Jobs /\ mine[w] \in Writes /\ Facts(w, pc[w], job[w], mine[w])
           /\ job = [job EXCEPT ![w] = job[w]] /\ mine = [mine EXCEPT ![w] = mine[w]]
           /\ rows \subseteq Rows /\ hist \subseteq Rows
<1>1. pc[w] # "idle"
  BY DEF Stages
<1>2. job = [job EXCEPT ![w] = job[w]] /\ mine = [mine EXCEPT ![w] = mine[w]]
  BY DEF IInv, Tabled
<1> QED
  BY <1>1, <1>2, OpenFacts DEF IInv, Tabled

\* NextMonth(w) goes on with what is left of the job.
LEMMA NextMonthMoves ==
    ASSUME IInv, NEW w \in Workers, pc[w] \in Stages, NextMonth(w), NEW m, mine' = [mine EXCEPT ![w] = m]
    PROVE  Moves(w, IF job[w].todo \ {Latest(job[w])} = {} THEN "commit" ELSE "decide", Through(job[w]), m)
<1>1. job \in [Workers -> Jobs \cup {None}] /\ job[w] \in Jobs
  BY AtStage DEF IInv, Tabled
<1>2. job' = [job EXCEPT ![w] = Through(job[w])]
  BY <1>1 DEF NextMonth, Through, Current, Latest
<1>3. job'[w].todo = job[w].todo \ {Latest(job[w])}
  BY <1>1, <1>2, NewMonth
<1> QED
  BY <1>2, <1>3 DEF NextMonth, Goto, Moves

\* The job finds the months to fill.
LEMMA FloorStep == ASSUME IInv, NEW w \in Workers, Floor(w) PROVE IInv'
<1> DEFINE h == job[w]
           floor == IF rows = {} THEN h.upto ELSE OldestMonth(rows)
           t == {m \in Months : m <= h.upto /\ m > h.upto - CatchUp /\ m >= floor}
           s == IF t = {} THEN "commit" ELSE "decide"
<1>1. pc[w] = "floor" /\ pc[w] \in Stages
  BY DEF Floor, Stages
<1>2. h \in Jobs /\ mine[w] \in Writes /\ Facts(w, "floor", h, mine[w]) /\ rows \subseteq Rows
  BY <1>1, AtStage
<1>3. SeenRows(w) = rows
  <2>1. mine[w].rows = {} /\ mine[w].gone = {}
    BY <1>2 DEF Facts, Deleter, Snapper, Plans
  <2> QED
    BY <2>1 DEF SeenRows
<1>4. job' = [job EXCEPT ![w] = WithTodo(h, t)]
  BY <1>3 DEF Floor, WithTodo
<1>5. job \in [Workers -> Jobs \cup {None}] /\ t \in SUBSET Months
  BY DEF IInv, Tabled
<1> HIDE DEF t
<1>6. /\ WithTodo(h, t) \in Jobs /\ Continues(WithTodo(h, t), h) /\ WithTodo(h, t).todo = t
  BY <1>2, <1>5, NewTodo
<1>7. job'[w].todo = t
  BY <1>4, <1>5, <1>6
<1>8. Facts(w, s, WithTodo(h, t), mine[w])
  BY <1>2, FloorFacts DEF t
<1>9. mine' = [mine EXCEPT ![w] = mine[w]] /\ UNCHANGED <<Tables, crossed, unpriced, calm>>
  BY <1>1, AtStage DEF Floor, Untouched, Tables
<1>10. Moves(w, s, WithTodo(h, t), mine[w])
  BY <1>4, <1>7, <1>9 DEF Floor, Goto, Moves
<1>11. s \in Stages \ {"prices"}
  BY DEF Stages
<1> HIDE DEF s
<1> QED
  BY <1>1, <1>2, <1>6, <1>8, <1>9, <1>10, <1>11, Advance

\* The job, or the request, decides about a month.
LEMMA DecideStep == ASSUME IInv, NEW w \in Workers, Decide(w) PROVE IInv'
<1> DEFINE h == job[w]
           e == Has(SeenRows(w), Latest(h))
<1>1. pc[w] = "decide" /\ pc[w] \in Stages
  BY DEF Decide, Stages
<1>2. h \in Jobs /\ mine[w] \in Writes /\ Facts(w, "decide", h, mine[w]) /\ rows \subseteq Rows
  BY <1>1, AtStage
<1>3. mine' = [mine EXCEPT ![w] = mine[w]] /\ UNCHANGED <<Tables, crossed, unpriced, calm>>
  BY <1>1, AtStage DEF Decide, Untouched, Tables
<1>4. e \in BOOLEAN /\ e = Has((rows \ mine[w].gone) \cup mine[w].rows, Latest(h))
  BY DEF Has, SeenRows
<1>5. CASE e /\ Latest(h) \notin UpsertMonths(w)
  <2>1. NextMonth(w)
    BY <1>5 DEF Decide, Current, Latest
  <2>2. Finished(w, h, mine[w]) /\ (w \in calm => FinishedCalm(h, mine[w]))
    BY <1>2, <1>4, <1>5, NothingToDo
  <2>3. /\ h.kind # "delete" /\ h.acct = None /\ h.todo # {} /\ h.todo \subseteq 1..h.upto
        /\ h.kind = "manual" => h.todo \subseteq {h.upto}
    BY <1>2 DEF Facts, Deleter, Snapper, Plans, Monthly
  <2> DEFINE s == IF h.todo \ {Latest(h)} = {} THEN "commit" ELSE "decide"
  <2>4. Moves(w, s, Through(h), mine[w])
    BY <1>1, <1>3, <2>1, NextMonthMoves
  <2>5. /\ Through(h) \in Jobs /\ Continues(Through(h), h) /\ s \in Stages \ {"prices"}
        /\ Facts(w, s, Through(h), mine[w])
    BY <1>2, <2>2, <2>3, MonthDone
  <2> HIDE DEF s
  <2> QED
    BY <1>1, <1>2, <1>3, <2>4, <2>5, Advance
<1>6. CASE ~(e /\ Latest(h) \notin UpsertMonths(w))
  <2> DEFINE s == IF e THEN "wipe" ELSE "measure"
             j == WithReplace(h, e)
  <2>1. job' = [job EXCEPT ![w] = j] /\ Goto(w, s)
    BY <1>6 DEF Decide, Current, Latest, WithReplace
  <2>2. Facts(w, s, j, mine[w])
    <3>1. e => Latest(h) \in {h.upto, h.upto - 1}
      BY <1>6 DEF UpsertMonths
    <3> QED
      BY <1>2, <1>4, <3>1, DecideFacts
  <2>3. j \in Jobs /\ Continues(j, h)
    BY <1>2, <1>4, NewReplace
  <2>4. s \in Stages \ {"prices"} /\ Moves(w, s, j, mine[w])
    BY <1>3, <2>1 DEF Stages, Goto, Moves
  <2> HIDE DEF s, j
  <2> QED
    BY <1>1, <1>2, <1>3, <2>2, <2>3, <2>4, Advance
<1> QED
  BY <1>5, <1>6

\* The DELETE of the month's rows begins.
LEMMA WipeStep == ASSUME IInv, NEW w \in Workers, Wipe(w) PROVE IInv'
<1> DEFINE h == job[w]
           d == InMonth((rows \ mine[w].gone) \cup mine[w].rows, Latest(h))
           j == WithDoomed(h, d)
<1>1. pc[w] = "wipe" /\ pc[w] \in Stages /\ "wiped" \in Stages \ {"prices"}
  BY DEF Wipe, Stages
<1>2. h \in Jobs /\ mine[w] \in Writes /\ Facts(w, "wipe", h, mine[w]) /\ rows \subseteq Rows
  BY <1>1, AtStage
<1>3. mine' = [mine EXCEPT ![w] = mine[w]] /\ UNCHANGED <<Tables, crossed, unpriced, calm>>
  BY <1>1, AtStage DEF Wipe, Untouched, Tables
<1>4. job' = [job EXCEPT ![w] = j]
  BY DEF Wipe, WithDoomed, Current, Latest, SeenRows
<1>5. j \in Jobs /\ Continues(j, h) /\ Facts(w, "wiped", j, mine[w])
  BY <1>2, WipeFacts
<1>6. Moves(w, "wiped", j, mine[w])
  BY <1>3, <1>4 DEF Wipe, Goto, Moves
<1> HIDE DEF j
<1> QED
  BY <1>1, <1>2, <1>3, <1>5, <1>6, Advance

\* It ends, for a month or for an account.
LEMMA WipedStep == ASSUME IInv, NEW w \in Workers, Wiped(w) PROVE IInv'
<1> DEFINE h == job[w]
           G == mine[w].gone \cup (h.doomed \cap rows)
           m == WithGone(mine[w], G)
           s == IF h.kind = "delete" THEN "commit" ELSE "measure"
<1>1. pc[w] = "wiped" /\ pc[w] \in Stages /\ s \in Stages \ {"prices"}
  BY DEF Wiped, Stages
<1>2. h \in Jobs /\ mine[w] \in Writes /\ Facts(w, "wiped", h, mine[w]) /\ rows \subseteq Rows /\ w \in Open
      /\ job = [job EXCEPT ![w] = h]
  BY <1>1, AtStage
<1>3. job' = [job EXCEPT ![w] = h] /\ UNCHANGED <<Tables, crossed, unpriced, calm>>
  BY <1>2 DEF Wiped, Untouched, Tables
<1>4. mine' = [mine EXCEPT ![w] = m]
  BY DEF Wiped, WithGone
<1>5. G \in SUBSET Rows
  BY <1>2, WriteFields
<1>6. /\ m \in Writes /\ m.keys = mine[w].keys /\ m.rows = mine[w].rows /\ m.hist = mine[w].hist
      /\ m.gone = G /\ m.unhist = mine[w].unhist
  <2> HIDE DEF G
  <2> QED
    BY <1>2, <1>5, NewWrites
<1>7. Facts(w, s, h, m)
  <2>1. CASE h.kind = "delete"
    <3>1. Deleter("wiped", h, mine[w])
      BY <1>2, <2>1 DEF Facts
    <3>2. Deleter("commit", h, m)
      BY <1>6, <3>1 DEF Deleter
    <3>3. ASSUME h.acct \notin crossed PROVE Forgets("commit", h, m, rows, hist)
      <4>1. Forgets("wiped", h, mine[w], rows, hist)
        BY <1>2, <2>1, <3>3 DEF Facts
      <4> QED
        BY <1>6, <4>1 DEF Forgets
    <3> QED
      BY <2>1, <3>2, <3>3 DEF Facts
  <2>2. CASE h.kind # "delete"
    <3>1. \A r \in rows : r.by # h.id
      BY <1>2 DEF IInv, Numbered
    <3> QED
      BY <1>2, <2>2, <3>1, WipedFacts
  <2> QED
    BY <2>1, <2>2
<1>8. Moves(w, s, h, m)
  BY <1>3, <1>4 DEF Wiped, Goto, Moves
<1>9. Continues(h, h)
  BY DEF Continues
<1> HIDE DEF m, s
<1> QED
  BY <1>1, <1>2, <1>3, <1>6, <1>7, <1>8, <1>9, Advance

\* The accounts are measured.
LEMMA MeasureStep == ASSUME IInv, NEW w \in Workers, Measure(w) PROVE IInv'
<1> DEFINE h == job[w]
<1>1. pc[w] = "measure" /\ pc[w] \in Stages
  BY DEF Measure, Stages
<1>2. h \in Jobs /\ mine[w] \in Writes /\ Facts(w, "measure", h, mine[w])
  BY <1>1, AtStage
<1>3. mine' = [mine EXCEPT ![w] = mine[w]] /\ UNCHANGED <<Tables, crossed, unpriced, calm>>
  BY <1>1, AtStage DEF Measure, Untouched, Tables
<1>4. CASE Scope = {} /\ ~h.replace
  <2>1. NextMonth(w)
    BY <1>4 DEF Measure
  <2>2. Finished(w, h, mine[w]) /\ (w \in calm => FinishedCalm(h, mine[w]))
    BY <1>2, <1>4, NothingToDo
  <2>3. /\ h.kind # "delete" /\ h.acct = None /\ h.todo # {} /\ h.todo \subseteq 1..h.upto
        /\ h.kind = "manual" => h.todo \subseteq {h.upto}
    BY <1>2 DEF Facts, Deleter, Snapper, Plans, Monthly
  <2> DEFINE s == IF h.todo \ {Latest(h)} = {} THEN "commit" ELSE "decide"
  <2>4. Moves(w, s, Through(h), mine[w])
    BY <1>1, <1>3, <2>1, NextMonthMoves
  <2>5. /\ Through(h) \in Jobs /\ Continues(Through(h), h) /\ s \in Stages \ {"prices"}
        /\ Facts(w, s, Through(h), mine[w])
    BY <1>2, <2>2, <2>3, MonthDone
  <2> HIDE DEF s
  <2> QED
    BY <1>1, <1>2, <1>3, <2>4, <2>5, Advance
<1>5. CASE ~(Scope = {} /\ ~h.replace)
  <2> DEFINE c == [a \in Scope |-> Cash(a, Latest(h))]
             j == WithCash(h, c)
  <2>1. job' = [job EXCEPT ![w] = j] /\ Goto(w, "save")
    BY <1>5 DEF Measure, WithCash, Current, Latest
  <2>2. j \in Jobs /\ Continues(j, h) /\ Facts(w, "save", j, mine[w])
    BY <1>2, MeasureFacts
  <2>3. "save" \in Stages \ {"prices"} /\ Moves(w, "save", j, mine[w])
    BY <1>3, <2>1 DEF Stages, Goto, Moves
  <2> HIDE DEF j
  <2> QED
    BY <1>1, <1>2, <1>3, <2>2, <2>3, Advance
<1> QED
  BY <1>4, <1>5

\* The rows are inserted.
LEMMA SaveStep == ASSUME IInv, NEW w \in Workers, Save(w) PROVE IInv'
<1> DEFINE h == job[w]
           m == WithRows(mine[w], mine[w].rows \cup Measured(h, mine[w]))
<1>1. pc[w] = "save" /\ pc[w] \in Stages /\ "history" \in Stages \ {"prices"}
  BY DEF Save, Stages
<1>2. h \in Jobs /\ mine[w] \in Writes /\ Facts(w, "save", h, mine[w]) /\ job = [job EXCEPT ![w] = h]
  BY <1>1, AtStage
<1>3. job' = [job EXCEPT ![w] = h] /\ UNCHANGED <<Tables, crossed, unpriced, calm>>
  BY <1>2 DEF Save, Untouched, Tables
<1>4. mine' = [mine EXCEPT ![w] = m]
  BY DEF Save, WithRows, Measured, Current, Latest, SeenPrices
<1>5. m \in Writes /\ m.keys = mine[w].keys /\ Facts(w, "history", h, m)
  BY <1>2, SaveFacts
<1>6. Moves(w, "history", h, m) /\ Continues(h, h)
  BY <1>3, <1>4 DEF Save, Goto, Moves, Continues
<1> HIDE DEF m
<1> QED
  BY <1>1, <1>2, <1>3, <1>5, <1>6, Advance

\* The value history follows.
LEMMA HistoryStep == ASSUME IInv, NEW w \in Workers, History(w) PROVE IInv'
<1> DEFINE h == job[w]
           m == WithHist(mine[w], mine[w].unhist \cup (Former(h, mine[w]) \cap hist),
                         mine[w].hist \cup Valued(h, mine[w]))
           s == IF h.todo \ {Latest(h)} = {} THEN "commit" ELSE "decide"
<1>1. pc[w] = "history" /\ pc[w] \in Stages
  BY DEF History, Stages
<1>2. h \in Jobs /\ mine[w] \in Writes /\ Facts(w, "history", h, mine[w]) /\ hist \subseteq Rows
  BY <1>1, AtStage
<1>3. UNCHANGED <<Tables, crossed, unpriced, calm>>
  BY DEF History, Untouched, Tables
<1>4. mine' = [mine EXCEPT ![w] = m]
  BY DEF History, WithHist, Former, Valued, Current, Latest, SeenPrices, SeenHist
<1>5. m \in Writes /\ m.keys = mine[w].keys /\ Finished(w, h, m) /\ (w \in calm => FinishedCalm(h, m))
  BY <1>2, HistoryFacts
<1> HIDE DEF m
<1>6. /\ h.kind # "delete" /\ h.acct = None /\ h.todo # {} /\ h.todo \subseteq 1..h.upto
      /\ h.kind = "manual" => h.todo \subseteq {h.upto}
  BY <1>2 DEF Facts, Deleter, Snapper, Plans, Monthly
<1>7. Moves(w, s, Through(h), m)
  BY <1>1, <1>4, NextMonthMoves DEF History
<1>8. /\ Through(h) \in Jobs /\ Continues(Through(h), h) /\ s \in Stages \ {"prices"}
      /\ Facts(w, s, Through(h), m)
  BY <1>2, <1>5, <1>6, MonthDone
<1> HIDE DEF s
<1> QED
  BY <1>1, <1>2, <1>3, <1>5, <1>7, <1>8, Advance

-----------------------------------------------------------------------------
(* What happens beside a transaction *)

\* What is known of a transaction stays known when nothing else happened but what takes it
\* out of those that are calm or sole, or notes an account as crossed.
LEMMA FactsKept ==
    ASSUME NEW v, NEW s, NEW j \in Jobs, NEW m \in Writes, Facts(v, s, j, m),
           UNCHANGED <<rows, hist>>, crossed \subseteq crossed', unpriced \subseteq unpriced',
           \A a \in Accounts : accts'[a] = "DELETED" => accts[a] = "DELETED",
           v \in calm' => v \in calm /\ UNCHANGED <<book, accts, prices>>
    PROVE  Facts(v, s, j, m)'
<1>1. v \in calm' => /\ Undisturbed(s, j, m) => Undisturbed(s, j, m)'
                     /\ FillsGaps(s, j, m) => FillsGaps(s, j, m)'
  BY UndisturbedStays
<1>2. Sole(v)' => Sole(v)
  BY DEF Sole
<1>3. \A a \in DOMAIN j.cash \cup {r.acct : r \in m.rows \cup m.hist} : a \in Accounts
  BY JobFields, WriteFields, RowFields
<1>4. Remembers(j, m, accts, crossed) => Remembers(j, m, accts', crossed')
  BY <1>3 DEF Remembers
<1> QED
  BY <1>1, <1>2, <1>4 DEF Facts

\* Runs that have stored the price of one item are not there at a time.
LEMMA OneStores ==
    ASSUME IInv, ~(Listed \subseteq unpriced), NEW v \in Open, NEW w \in Open,
           job[v].kind # "delete", job[w].kind # "delete", pc[v] # "prices", pc[w] # "prices"
    PROVE  v = w
<1>1. PICK a \in Listed : a \notin unpriced
  OBVIOUS
<1>2. <<a, 1>> \in mine[v].keys /\ <<a, 1>> \in mine[w].keys
  BY <1>1 DEF IInv, Locked
<1>3. v \in Workers /\ w \in Workers
  BY DEF Open
<1> QED
  BY <1>2, <1>3 DEF IInv, Locked

\* A transaction begins: what it brings is known, and others go on as before.
LEMMA StartStep ==
    ASSUME IInv, NEW w \in Workers, NEW kind \in Kinds, NEW doomed \in SUBSET Rows, NEW acct \in Accounts \cup {None},
           Start(w, kind, doomed, acct),
           NEW s \in Stages, pc' = [pc EXCEPT ![w] = s], NEW m \in Writes, mine' = [mine EXCEPT ![w] = m],
           m.keys = {}, crossed' \subseteq Accounts, crossed \subseteq crossed',
           kind = "auto" => \A v \in Open : job[v].kind # "auto",
           kind # "delete" => s = "prices" /\ m = NoWrites /\ acct = None
                              /\ \A v \in Open : job[v].acct # None => job[v].acct \in crossed',
           kind = "delete" => /\ s = "wiped" /\ acct \in Accounts /\ m.rows = {} /\ m.hist = {}
                              /\ \A r \in rows : r.acct = acct => r \in doomed
                              /\ \A h \in hist : h.acct = acct => h \in m.unhist
                              /\ Open # {} => acct \in crossed'
    PROVE  IInv'
<1>0. PICK h : h = [kind |-> kind, id |-> Budget - left + 1, upto |-> target, todo |-> {target},
                    replace |-> FALSE, cash |-> << >>, doomed |-> doomed, acct |-> acct]
  OBVIOUS
<1>1. /\ pc[w] = "idle" /\ left > 0 /\ left' = left - 1 /\ job' = [job EXCEPT ![w] = h]
      /\ calm' = (IF Open = {} THEN {w} ELSE {})
      /\ UNCHANGED <<target, clash, book, accts, prices, rows, hist, edits, unpriced>>
  BY <1>0 DEF Start
<1>2. /\ left \in 0..Budget /\ Budget \in Nat /\ target \in Months /\ target \in Int
      /\ pc \in [Workers -> Stages \cup {"idle"}] /\ job \in [Workers -> Jobs \cup {None}]
      /\ mine \in [Workers -> Writes]
  BY BoundsAssumption DEF IInv, Tabled, Months
<1>3. h \in Jobs
  <2> DEFINE Cashes == UNION {[B -> Int] : B \in SUBSET Accounts}
  <2>1. << >> \in [{} -> Int] /\ {} \in SUBSET Accounts
    OBVIOUS
  <2>2. << >> \in Cashes
    BY <2>1
  <2>3. {target} \in SUBSET Months /\ Budget - left + 1 \in 1..Budget
    BY <1>1, <1>2
  <2> HIDE DEF Cashes
  <2>4. Jobs = [kind : Kinds, id : 1..Budget, upto : Months, todo : SUBSET Months,
                replace : BOOLEAN, cash : Cashes, doomed : SUBSET Rows, acct : Accounts \cup {None}]
    BY DEF Jobs, Cashes
  <2> QED
    BY <1>0, <1>2, <2>2, <2>3, <2>4
<1>4. /\ h.kind = kind /\ h.id = Budget - left + 1 /\ h.upto = target /\ h.todo = {target}
      /\ DOMAIN h.cash = {} /\ h.doomed = doomed /\ h.acct = acct
  BY <1>0
<1>5. /\ pc'[w] = s /\ job'[w] = h /\ mine'[w] = m
      /\ \A v \in Workers \ {w} : pc'[v] = pc[v] /\ job'[v] = job[v] /\ mine'[v] = mine[v]
  BY <1>1, <1>2
<1>6. "idle" \notin Stages /\ s # "idle"
  BY DEF Stages
<1>7. Open' = Open \cup {w} /\ w \notin Open /\ Open \subseteq Workers
  BY <1>1, <1>5, <1>6 DEF Open
<1>8. \A v \in Open : pc'[v] = pc[v] /\ job'[v] = job[v] /\ mine'[v] = mine[v]
  BY <1>5, <1>7
<1>9. Tabled'
  <2>1. left' \in 0..Budget /\ calm' \subseteq Workers
    BY <1>1, <1>2
  <2>2. /\ pc' \in [Workers -> Stages \cup {"idle"}] /\ job' \in [Workers -> Jobs \cup {None}]
        /\ mine' \in [Workers -> Writes]
    BY <1>1, <1>2, <1>3
  <2>3. h # None
    BY <1>3, NoneAssumption
  <2>4. /\ \A v \in Workers : pc'[v] = "idle" <=> job'[v] = None
        /\ \A v \in Workers : pc'[v] = "idle" => mine'[v] = NoWrites
    BY <1>5, <1>6, <2>3 DEF IInv, Tabled
  <2> QED
    BY <1>1, <2>1, <2>2, <2>4 DEF IInv, Tabled
<1>10. Numbered'
  <2>1. Budget - left' = Budget - left + 1 /\ Budget - left \in Int
    BY <1>1, <1>2
  <2>2. /\ \A v \in Open : job[v].id <= Budget - left /\ job[v].id \in Int
        /\ \A r \in rows : r.by <= Budget - left /\ r.by \in Int
    <3>1. \A v \in Open : job[v] \in Jobs
      BY <1>2 DEF IInv, Tabled, Open
    <3>2. \A r \in rows : r \in Rows
      BY DEF IInv, Tabled
    <3> QED
      BY <3>1, <3>2, JobFields, RowFields DEF IInv, Numbered
  <2>3. /\ \A v \in Open : job[v].id # h.id
        /\ \A r \in rows : r.by # h.id
    BY <1>4, <2>1, <2>2
  <2>4. \A v \in Open' : job'[v].id <= Budget - left'
    BY <1>2, <1>4, <1>5, <1>7, <1>8, <2>1, <2>2
  <2>5. \A v \in Open' : job'[v].upto <= target /\ target <= job'[v].upto + 1
    <3>1. target <= target + 1 /\ target <= target
      BY <1>2
    <3> QED
      BY <1>4, <1>5, <1>7, <1>8, <3>1 DEF IInv, Numbered
  <2>6. \A u, v \in Open' : u # v => job'[u].id # job'[v].id
    BY <1>5, <1>7, <1>8, <2>3 DEF IInv, Numbered
  <2>7. \A r \in rows : r.by <= Budget - left' /\ r.month <= target
    BY <2>1, <2>2 DEF IInv, Numbered
  <2>8. \A r \in rows : \A v \in Open' : r.by # job'[v].id
    BY <1>5, <1>7, <1>8, <2>3 DEF IInv, Numbered
  <2> QED
    BY <1>1, <2>4, <2>5, <2>6, <2>7, <2>8 DEF Numbered
<1>11. Locked'
  <2>1. \A u, v \in Open' : job'[u].kind = "auto" /\ job'[v].kind = "auto" => u = v
    BY <1>4, <1>5, <1>7, <1>8 DEF IInv, Locked
  <2>2. \A u, v \in Workers : u # v => mine'[u].keys \cap mine'[v].keys = {}
    BY <1>5 DEF IInv, Locked
  <2>3. \A v \in Open' : job'[v].kind # "delete" /\ pc'[v] # "prices" =>
          \A a \in Listed \ unpriced : <<a, 1>> \in mine'[v].keys
    BY <1>4, <1>5, <1>7, <1>8 DEF IInv, Locked
  <2> QED
    BY <1>1, <2>1, <2>2, <2>3 DEF Locked
<1>12. PricesSerialiseRuns'
  BY <1>1 DEF IInv, PricesSerialiseRuns, OneRowPerMonth
<1>13. NoRowsOfTheDeleted'
  BY <1>1 DEF IInv, NoRowsOfTheDeleted
<1>14. Facts(w, s, h, m)'
  <2>1. CASE kind = "delete"
    <3>1. Deleter(s, h, m)
      BY <1>4, <2>1 DEF Deleter
    <3>2. Forgets(s, h, m, rows', hist')
      BY <1>1, <1>4, <2>1 DEF Forgets
    <3> QED
      BY <1>4, <2>1, <3>1, <3>2 DEF Facts
  <2>2. CASE kind # "delete"
    <3>1. s = "prices" /\ m.rows = {} /\ m.gone = {} /\ m.hist = {} /\ m.unhist = {}
      BY <2>2 DEF NoWrites
    <3>2. Plans(s, h, m)
      <4>1. target \in 1..target
        BY <1>2 DEF Months
      <4> QED
        BY <1>4, <2>2, <3>1, <4>1 DEF Plans, Monthly
    <3>3. WritesOnce(s, h, m) /\ Replaces(s, h, m)
      BY <3>1 DEF WritesOnce, Replaces
    <3>4. Cleared(s, h, m) = {}
      BY <3>1 DEF Cleared, MonthsOf
    <3>5. Fills(s, h, m, rows') /\ Clears(s, h, m, rows')
      BY <3>1, <3>4 DEF Fills, Clears
    <3>6. Remembers(h, m, accts', crossed')
      BY <1>4, <3>1 DEF Remembers
    <3>7. Undisturbed(s, h, m)'
      <4>1. \A r \in rows' : r.month <= h.upto
        BY <1>1, <1>4 DEF IInv, Numbered
      <4>2. MonthsOf(m.rows) = {}
        BY <3>1 DEF MonthsOf
      <4> QED
        BY <3>1, <4>1, <4>2 DEF Undisturbed, Monthly
    <3>8. FillsGaps(s, h, m)'
      BY <3>1 DEF FillsGaps
    <3> QED
      BY <1>4, <2>2, <3>2, <3>3, <3>5, <3>6, <3>7, <3>8 DEF Facts, Snapper
  <2> QED
    BY <2>1, <2>2
<1>15. \A v \in Open' : Facts(v, pc[v], job[v], mine[v])'
  <2>1. ASSUME NEW v \in Open PROVE Facts(v, pc[v], job[v], mine[v])'
    <3>1. v \notin calm'
      BY <1>1, <1>7
    <3>2. v \in Workers /\ pc[v] # "idle"
      BY DEF Open
    <3>3. PICK t, j, k : t = pc[v] /\ j = job[v] /\ k = mine[v]
      OBVIOUS
    <3>4. Facts(v, t, j, k) /\ j \in Jobs /\ k \in Writes
      BY <3>2, <3>3, OpenFacts
    <3>5. Facts(v, t, j, k)'
      BY <1>1, <3>1, <3>4, FactsKept
    <3>6. pc'[v] = t /\ job'[v] = j /\ mine'[v] = k
      BY <1>8, <3>3
    <3> QED
      BY <3>5, <3>6
  <2> QED
    BY <1>5, <1>7, <1>14, <2>1
<1>16. \A u, v \in Open' : job'[v].kind = "delete" /\ job'[v].acct \notin crossed' => job'[u].kind = "delete"
  <2>1. \A v \in Open : job[v].kind = "delete" => job[v].acct # None
    <3>1. \A v \in Open : job[v].kind = "delete" => job[v].acct \in Accounts
      BY DEF IInv, Working, Deleter
    <3> QED
      BY <3>1, NoneAssumption
  <2>2. CASE kind = "delete"
    <3>1. \A u, v \in Open : job[v].kind = "delete" /\ job[v].acct \notin crossed' => job[u].kind = "delete"
      BY DEF IInv, DeletionsSee
    <3> QED
      BY <1>4, <1>5, <1>7, <1>8, <2>2, <3>1
  <2>3. CASE kind # "delete"
    BY <1>4, <1>5, <1>7, <1>8, <2>1, <2>3
  <2> QED
    BY <2>2, <2>3
<1>17. \A v \in calm' : Open' = {v}
  BY <1>1, <1>7
<1> QED
  BY <1>9, <1>10, <1>11, <1>12, <1>13, <1>15, <1>16, <1>17, Reassembled

\* A job, a manual snapshot or the deletion of an account begins.
LEMMA StartsStep ==
    ASSUME IInv, NEW w \in Workers, StartAuto(w) \/ StartManual(w) \/ \E a \in Accounts : StartDelete(w, a)
    PROVE  IInv'
<1>1. /\ mine \in [Workers -> Writes] /\ pc \in [Workers -> Stages \cup {"idle"}]
      /\ rows \subseteq Rows /\ hist \subseteq Rows /\ crossed \subseteq Accounts
      /\ \A v \in Open : job[v] \in Jobs
  BY DEF IInv, Tabled, Open
<1>2. NoWrites \in Writes /\ NoWrites.keys = {} /\ NoWrites.rows = {} /\ NoWrites.hist = {}
  BY DEF NoWrites, Writes
<1>3. pc[w] = "idle"
  BY DEF StartAuto, StartManual, StartDelete, Start
<1>4. mine[w] = NoWrites /\ mine = [mine EXCEPT ![w] = NoWrites]
  BY <1>1, <1>3 DEF IInv, Tabled
<1>5. \A v \in Open : job[v].acct \in Accounts \cup {None}
  BY <1>1, JobFields
<1>6. ASSUME Crossing
      PROVE  /\ crossed \subseteq crossed' /\ crossed' \subseteq Accounts
             /\ \A v \in Open : job[v].acct # None => job[v].acct \in crossed'
  BY <1>1, <1>5, <1>6 DEF Crossing
<1>7. /\ {} \in SUBSET Rows /\ None \in Accounts \cup {None} /\ "prices" \in Stages /\ "wiped" \in Stages
      /\ "auto" \in Kinds /\ "manual" \in Kinds /\ "delete" \in Kinds
  BY DEF Stages, Kinds
<1>8. CASE StartAuto(w)
  <2>1. /\ Start(w, "auto", {}, None) /\ pc' = [pc EXCEPT ![w] = "prices"]
        /\ mine' = [mine EXCEPT ![w] = NoWrites] /\ \A v \in Open : job[v].kind # "auto"
    BY <1>4, <1>8 DEF StartAuto, Goto
  <2>2. Crossing
    BY <1>8 DEF StartAuto
  <2>3. /\ crossed \subseteq crossed' /\ crossed' \subseteq Accounts
        /\ \A v \in Open : job[v].acct # None => job[v].acct \in crossed'
    BY <1>6, <2>2
  <2>4. "auto" # "delete"
    OBVIOUS
  <2> QED
    BY <1>2, <1>7, <2>1, <2>3, <2>4, StartStep
<1>9. CASE StartManual(w)
  <2>1. /\ Start(w, "manual", {}, None) /\ pc' = [pc EXCEPT ![w] = "prices"]
        /\ mine' = [mine EXCEPT ![w] = NoWrites]
    BY <1>4, <1>9 DEF StartManual, Goto
  <2>2. Crossing
    BY <1>9 DEF StartManual
  <2>3. /\ crossed \subseteq crossed' /\ crossed' \subseteq Accounts
        /\ \A v \in Open : job[v].acct # None => job[v].acct \in crossed'
    BY <1>6, <2>2
  <2>4. "manual" # "delete" /\ "manual" # "auto"
    OBVIOUS
  <2> QED
    BY <1>2, <1>7, <2>1, <2>3, <2>4, StartStep
<1>10. CASE \E a \in Accounts : StartDelete(w, a)
  <2>1. PICK a \in Accounts : StartDelete(w, a)
    BY <1>10
  <2>2. PICK m : m = [NoWrites EXCEPT !.unhist = HistOf(a)]
    OBVIOUS
  <2>3. HistOf(a) \in SUBSET Rows /\ RowsOf(a) \in SUBSET Rows
    BY <1>1 DEF HistOf, RowsOf
  <2>4. /\ m \in Writes /\ m.keys = {} /\ m.rows = {} /\ m.hist = {} /\ m.unhist = HistOf(a)
    BY <2>2, <2>3 DEF NoWrites, Writes
  <2>5. mine' = [mine EXCEPT ![w] = m]
    BY <1>1, <1>4, <2>1, <2>2 DEF StartDelete
  <2>6. /\ Start(w, "delete", RowsOf(a), a) /\ pc' = [pc EXCEPT ![w] = "wiped"]
        /\ crossed' = crossed \cup (IF Open = {} THEN {} ELSE {a})
    BY <2>1 DEF StartDelete, Goto
  <2>7. crossed' \subseteq Accounts /\ crossed \subseteq crossed' /\ (Open # {} => a \in crossed')
    BY <1>1, <2>6
  <2>8. PICK d : d = RowsOf(a)
    OBVIOUS
  <2>9. d \in SUBSET Rows /\ Start(w, "delete", d, a)
    BY <2>3, <2>6, <2>8
  <2>10. /\ \A r \in rows : r.acct = a => r \in d
         /\ \A h \in hist : h.acct = a => h \in m.unhist
    BY <2>4, <2>8 DEF RowsOf, HistOf
  <2>11. "delete" # "auto" /\ a \in Accounts \cup {None}
    OBVIOUS
  <2>12. pc' = [pc EXCEPT ![w] = "wiped"]
    BY <2>6
  <2> QED
    BY <1>7, <2>4, <2>5, <2>7, <2>9, <2>10, <2>11, <2>12, StartStep
<1> QED
  BY <1>8, <1>9, <1>10

\* The prices are stored, or about to be.
LEMMA UpsertStep == ASSUME IInv, NEW w \in Workers, Upsert(w) PROVE IInv'
<1>1. /\ pc \in [Workers -> Stages \cup {"idle"}] /\ job \in [Workers -> Jobs \cup {None}]
      /\ mine \in [Workers -> Writes] /\ target \in Months
  BY DEF IInv, Tabled
<1>2. pc[w] = "prices" /\ pc[w] \in Stages /\ pc[w] # "idle"
  BY DEF Upsert, Stages
<1>3. PICK h, k : h = job[w] /\ k = mine[w]
  OBVIOUS
<1>4. w \in Open /\ h \in Jobs /\ k \in Writes /\ Facts(w, "prices", h, k)
  BY <1>2, <1>3, AtStage
<1>5. PICK s : s = (IF h.kind = "auto" THEN "floor" ELSE "decide")
  OBVIOUS
<1>6. PICK fetched \in SUBSET (Items \cap Listed) :
        /\ (Backfill(fetched) \cup OtherPrices(w)) \cap HeldKeys(w) = {}
        /\ mine' = [mine EXCEPT ![w].keys = Backfill(fetched) \cup OtherPrices(w)]
        /\ unpriced' = unpriced \cup (Investing \ fetched)
  BY DEF Upsert
<1>7. PICK K : K = Backfill(fetched) \cup OtherPrices(w)
  OBVIOUS
<1>8. PICK m : m = [k EXCEPT !.keys = K]
  OBVIOUS
<1>9. K \in SUBSET (Investing \X Months)
  <2>1. h.upto \in Months /\ 1..target \subseteq Months
    BY <1>1, <1>4, JobFields, WindowAssumption DEF Months
  <2>2. fetched \subseteq Investing /\ Items \cap Unlisted \subseteq Investing
    BY DEF Investing
  <2> QED
    BY <1>3, <1>7, <2>1, <2>2 DEF Backfill, OtherPrices
<1>10. /\ m \in Writes /\ m.keys = K /\ m.rows = k.rows /\ m.gone = k.gone /\ m.hist = k.hist
       /\ m.unhist = k.unhist
  BY <1>4, <1>8, <1>9 DEF Writes
<1>11. /\ pc' = [pc EXCEPT ![w] = s] /\ job' = job /\ UNCHANGED <<Tables, crossed, calm>>
  BY <1>3, <1>5 DEF Upsert, Goto, Untouched, Tables
<1>12. mine' = [mine EXCEPT ![w] = m]
  BY <1>1, <1>3, <1>6, <1>7, <1>8
<1>13. s \in {"floor", "decide"} /\ s \in Stages /\ s # "idle" /\ "idle" \notin Stages
  BY <1>5 DEF Stages
<1>14. /\ pc'[w] = s /\ mine'[w] = m
       /\ \A v \in Workers \ {w} : pc'[v] = pc[v] /\ mine'[v] = mine[v]
  BY <1>1, <1>11, <1>12
<1>15. Open' = Open
  BY <1>2, <1>13, <1>14 DEF Open
<1>16. Tabled'
  <2>1. pc' \in [Workers -> Stages \cup {"idle"}] /\ mine' \in [Workers -> Writes]
    BY <1>1, <1>10, <1>11, <1>12, <1>13
  <2>2. unpriced' \subseteq Investing
    BY <1>6 DEF IInv, Tabled
  <2>3. /\ \A v \in Workers : pc'[v] = "idle" <=> job'[v] = None
        /\ \A v \in Workers : pc'[v] = "idle" => mine'[v] = NoWrites
    BY <1>2, <1>11, <1>13, <1>14 DEF IInv, Tabled
  <2> QED
    BY <1>11, <2>1, <2>2, <2>3 DEF IInv, Tabled, Tables
<1>17. Numbered'
  BY <1>11, <1>15 DEF IInv, Numbered, Tables
<1>18. Locked'
  <2>1. \A u, v \in Open' : job'[u].kind = "auto" /\ job'[v].kind = "auto" => u = v
    BY <1>11, <1>15 DEF IInv, Locked
  <2>2. \A v \in Workers \ {w} : K \cap mine[v].keys = {}
    BY <1>6, <1>7 DEF HeldKeys
  <2>3. \A u, v \in Workers : u # v => mine'[u].keys \cap mine'[v].keys = {}
    BY <1>10, <1>14, <2>2 DEF IInv, Locked
  <2>4. ASSUME NEW a \in Listed \ unpriced' PROVE <<a, 1>> \in K /\ a \in Listed \ unpriced
    <3>1. a \in fetched /\ a \notin unpriced
      BY <1>6, <2>4 DEF Investing
    <3>2. 1 \in 1..target
      BY <1>1 DEF Months
    <3> QED
      BY <1>7, <3>1, <3>2 DEF Backfill
  <2>5. \A v \in Open' : job'[v].kind # "delete" /\ pc'[v] # "prices" =>
          \A a \in Listed \ unpriced' : <<a, 1>> \in mine'[v].keys
    <3>1. \A v \in Open : v \in Workers
      BY DEF Open
    <3> QED
      BY <1>10, <1>11, <1>14, <1>15, <2>4, <3>1 DEF IInv, Locked
  <2> QED
    BY <2>1, <2>3, <2>5 DEF Locked
<1>19. PricesSerialiseRuns'
  BY <1>6, <1>11 DEF IInv, PricesSerialiseRuns, OneRowPerMonth, Tables
<1>20. NoRowsOfTheDeleted'
  BY <1>11 DEF IInv, NoRowsOfTheDeleted, Tables
<1>21. Facts(w, s, h, m)
  <2>1. h.kind # "delete" /\ Snapper("prices", h, k) /\ Remembers(h, k, accts, crossed)
    BY <1>4 DEF Facts, Deleter
  <2>2. m.rows = {} /\ m.gone = {} /\ m.hist = {} /\ m.unhist = {}
    BY <1>10, <2>1 DEF Snapper, Plans
  <2>3. Cleared(s, h, m) = {}
    BY <1>13, <2>2 DEF Cleared, MonthsOf
  <2>4. Fills(s, h, m, rows) /\ Clears(s, h, m, rows)
    BY <1>13, <2>3 DEF Fills, Clears
  <2>5. WritesOnce(s, h, m) /\ Replaces(s, h, m)
    BY <1>13, <2>2 DEF WritesOnce, Replaces
  <2>6. Remembers(h, m, accts, crossed)
    BY <2>1, <2>2 DEF Remembers
  <2>7. Plans(s, h, m)
    <3>1. s = "floor" => h.kind = "auto"
      BY <1>5
    <3> QED
      BY <1>13, <2>1, <2>2, <3>1 DEF Snapper, Plans, Monthly
  <2>8. ASSUME w \in calm PROVE Undisturbed(s, h, m) /\ FillsGaps(s, h, m)
    <3>1. \A r \in rows : r.month <= h.upto
      BY <1>4, <2>1, <2>8 DEF Facts, Undisturbed
    <3>2. MonthsOf(m.rows) = {}
      BY <2>2 DEF MonthsOf
    <3>3. Undisturbed(s, h, m)
      BY <1>13, <3>1, <3>2 DEF Undisturbed, Monthly
    <3>4. h.kind = "auto" => s = "floor"
      BY <1>5
    <3> QED
      BY <3>3, <3>4 DEF FillsGaps
  <2> QED
    BY <2>1, <2>4, <2>5, <2>6, <2>7, <2>8 DEF Facts, Snapper
<1>22. \A v \in Open' : Facts(v, pc[v], job[v], mine[v])'
  <2>1. \A a \in Accounts : accts'[a] = "DELETED" => accts[a] = "DELETED"
    BY <1>11 DEF Tables
  <2>2. unpriced \subseteq unpriced'
    BY <1>6
  <2>3. ASSUME NEW v \in Open PROVE Facts(v, pc[v], job[v], mine[v])'
    <3>1. PICK t, j, n : t = pc'[v] /\ j = job'[v] /\ n = mine'[v]
      OBVIOUS
    <3>2. Facts(v, t, j, n) /\ j \in Jobs /\ n \in Writes
      <4>1. v \in Workers /\ pc[v] # "idle"
        BY DEF Open
      <4>2. CASE v = w
        BY <1>3, <1>4, <1>10, <1>11, <1>14, <1>21, <3>1, <4>2
      <4>3. CASE v # w
        BY <1>11, <1>14, <3>1, <4>1, <4>3, OpenFacts
      <4> QED
        BY <4>2, <4>3
    <3>3. Facts(v, t, j, n)'
      BY <1>11, <2>1, <2>2, <3>2, FactsKept DEF Tables
    <3> QED
      BY <3>1, <3>3
  <2> QED
    BY <1>15, <2>3
<1>23. \A u, v \in Open' : job'[v].kind = "delete" /\ job'[v].acct \notin crossed' => job'[u].kind = "delete"
  BY <1>11, <1>15 DEF IInv, DeletionsSee
<1>24. \A v \in calm' : Open' = {v}
  BY <1>11, <1>15 DEF IInv, CalmRuns
<1> QED
  BY <1>16, <1>17, <1>18, <1>19, <1>20, <1>22, <1>23, <1>24, Reassembled

-----------------------------------------------------------------------------
(* The end of a transaction *)

\* Others go on, and nothing is undisturbed that others saw end.
LEMMA EndFacts ==
    ASSUME IInv, NEW w \in Workers, pc[w] # "idle", End(w)
    PROVE  /\ Open' = Open \ {w} /\ Open' \subseteq Open /\ calm' = {}
           /\ \A v \in Open' : v # w /\ pc'[v] = pc[v] /\ job'[v] = job[v] /\ mine'[v] = mine[v]
           /\ mine'[w] = NoWrites /\ \A v \in Workers \ {w} : mine'[v] = mine[v]
           /\ pc' \in [Workers -> Stages \cup {"idle"}] /\ job' \in [Workers -> Jobs \cup {None}]
           /\ mine' \in [Workers -> Writes]
           /\ \A v \in Workers : pc'[v] = "idle" <=> job'[v] = None
           /\ \A v \in Workers : pc'[v] = "idle" => mine'[v] = NoWrites
<1>1. /\ pc \in [Workers -> Stages \cup {"idle"}] /\ job \in [Workers -> Jobs \cup {None}]
      /\ mine \in [Workers -> Writes] /\ calm \subseteq Workers
  BY DEF IInv, Tabled
<1>2. /\ pc' = [pc EXCEPT ![w] = "idle"] /\ job' = [job EXCEPT ![w] = None]
      /\ mine' = [mine EXCEPT ![w] = NoWrites] /\ calm' = calm \ {w}
  BY DEF End, Goto
<1>3. NoWrites \in Writes
  BY DEF NoWrites, Writes
<1>4. /\ pc' \in [Workers -> Stages \cup {"idle"}] /\ job' \in [Workers -> Jobs \cup {None}]
      /\ mine' \in [Workers -> Writes]
  BY <1>1, <1>2, <1>3
<1>5. /\ pc'[w] = "idle" /\ job'[w] = None /\ mine'[w] = NoWrites
      /\ \A v \in Workers \ {w} : pc'[v] = pc[v] /\ job'[v] = job[v] /\ mine'[v] = mine[v]
  BY <1>1, <1>2
<1>6. Open' = Open \ {w} /\ w \in Open /\ Open \subseteq Workers
  BY <1>5 DEF Open
<1>7. calm' = {}
  BY <1>2, <1>6 DEF IInv, CalmRuns
<1>8. /\ \A v \in Workers : pc'[v] = "idle" <=> job'[v] = None
      /\ \A v \in Workers : pc'[v] = "idle" => mine'[v] = NoWrites
  BY <1>5 DEF IInv, Tabled
<1> QED
  BY <1>4, <1>5, <1>6, <1>7, <1>8

\* The locks of a transaction that ends are free.
LEMMA LocksEnd ==
    ASSUME IInv, NEW w \in Workers, pc[w] # "idle", End(w), UNCHANGED unpriced
    PROVE  Locked'
<1>1. NoWrites.keys = {}
  BY DEF NoWrites
<1>2. /\ Open' \subseteq Open
      /\ \A v \in Open' : v # w /\ pc'[v] = pc[v] /\ job'[v] = job[v] /\ mine'[v] = mine[v]
      /\ mine'[w] = NoWrites /\ \A v \in Workers \ {w} : mine'[v] = mine[v]
  BY EndFacts
<1>3. \A u, v \in Open' : job'[u].kind = "auto" /\ job'[v].kind = "auto" => u = v
  BY <1>2 DEF IInv, Locked
<1>4. \A u, v \in Workers : u # v => mine'[u].keys \cap mine'[v].keys = {}
  BY <1>1, <1>2 DEF IInv, Locked
<1>5. \A v \in Open' : job'[v].kind # "delete" /\ pc'[v] # "prices" =>
        \A a \in Listed \ unpriced' : <<a, 1>> \in mine'[v].keys
  BY <1>2 DEF IInv, Locked
<1> QED
  BY <1>3, <1>4, <1>5 DEF Locked

\* A transaction is rolled back.
LEMMA RollbackStep == ASSUME IInv, NEW w \in Workers, Abort(w) \/ Refuse(w) PROVE IInv'
<1>1. /\ pc[w] # "idle" /\ End(w)
      /\ UNCHANGED <<target, clash, book, accts, prices, rows, hist, left, edits, unpriced, crossed>>
  BY DEF Abort, Refuse, Open, Untouched
<1>2. /\ Open' \subseteq Open /\ calm' = {}
      /\ \A v \in Open' : pc'[v] = pc[v] /\ job'[v] = job[v] /\ mine'[v] = mine[v]
      /\ pc' \in [Workers -> Stages \cup {"idle"}] /\ job' \in [Workers -> Jobs \cup {None}]
      /\ mine' \in [Workers -> Writes]
      /\ \A v \in Workers : pc'[v] = "idle" <=> job'[v] = None
      /\ \A v \in Workers : pc'[v] = "idle" => mine'[v] = NoWrites
  BY <1>1, EndFacts
<1>3. Tabled'
  BY <1>1, <1>2 DEF IInv, Tabled
<1>4. Numbered'
  BY <1>1, <1>2 DEF IInv, Numbered
<1>5. Locked'
  BY <1>1, LocksEnd
<1>6. PricesSerialiseRuns' /\ NoRowsOfTheDeleted'
  BY <1>1 DEF IInv, PricesSerialiseRuns, OneRowPerMonth, NoRowsOfTheDeleted
<1>7. \A v \in Open' : Facts(v, pc[v], job[v], mine[v])'
  <2>1. ASSUME NEW v \in Open' PROVE Facts(v, pc[v], job[v], mine[v])'
    <3>1. PICK t, j, n : t = pc[v] /\ j = job[v] /\ n = mine[v]
      OBVIOUS
    <3>2. v \in Workers /\ pc[v] # "idle"
      BY <1>2 DEF Open
    <3>3. Facts(v, t, j, n) /\ j \in Jobs /\ n \in Writes
      BY <3>1, <3>2, OpenFacts
    <3>4. Facts(v, t, j, n)'
      BY <1>1, <1>2, <3>3, FactsKept
    <3> QED
      BY <1>2, <3>1, <3>4
  <2> QED
    BY <2>1
<1>8. \A u, v \in Open' : job'[v].kind = "delete" /\ job'[v].acct \notin crossed' => job'[u].kind = "delete"
  BY <1>1, <1>2 DEF IInv, DeletionsSee
<1> QED
  BY <1>2, <1>3, <1>4, <1>5, <1>6, <1>7, <1>8, Reassembled

\* What a commit makes of the data base: the deletion of an account, or a snapshot.
LEMMA CommitEffects ==
    ASSUME IInv, NEW w \in Workers, Commit(w), NEW j, j = job[w], NEW k, k = mine[w]
    PROVE  /\ w \in Open /\ pc[w] # "idle" /\ End(w) /\ j \in Jobs /\ k \in Writes /\ Facts(w, "commit", j, k)
           /\ UNCHANGED <<target, clash, book, left, edits, unpriced, crossed>>
           /\ rows' = (rows \ k.gone) \cup k.rows /\ hist' = (hist \ k.unhist) \cup k.hist
           /\ prices' = prices \cup k.keys
           /\ j.kind = "delete" =>
                /\ accts' = [accts EXCEPT ![j.acct] = "DELETED"] /\ j.acct \in Accounts
                /\ rows' = rows \ k.gone /\ hist' = hist \ k.unhist
           /\ j.kind # "delete" => accts' = accts
<1>1. pc[w] = "commit" /\ pc[w] \in Stages /\ pc[w] # "idle"
  BY DEF Commit, Stages
<1>2. w \in Open /\ j \in Jobs /\ k \in Writes /\ Facts(w, "commit", j, k)
  BY <1>1, OpenFacts
<1>3. j.kind = "delete" => k.rows = {} /\ k.hist = {} /\ j.acct \in Accounts
  BY <1>2 DEF Facts, Deleter
<1> QED
  BY <1>1, <1>2, <1>3 DEF Commit

\* What is committed is of the tables' types, and numbered.
LEMMA CommitTabled ==
    ASSUME IInv, NEW w \in Workers, Commit(w) PROVE Tabled' /\ Numbered'
<1>1. PICK j, k : j = job[w] /\ k = mine[w]
  OBVIOUS
<1>2. /\ w \in Open /\ pc[w] # "idle" /\ End(w) /\ j \in Jobs /\ k \in Writes /\ Facts(w, "commit", j, k)
      /\ UNCHANGED <<target, clash, book, left, edits, unpriced, crossed>>
      /\ rows' = (rows \ k.gone) \cup k.rows /\ hist' = (hist \ k.unhist) \cup k.hist
      /\ prices' = prices \cup k.keys
      /\ j.kind = "delete" => accts' = [accts EXCEPT ![j.acct] = "DELETED"]
      /\ j.kind # "delete" => accts' = accts
  BY <1>1, CommitEffects
<1>3. /\ Open' \subseteq Open /\ calm' = {}
      /\ \A v \in Open' : v # w /\ pc'[v] = pc[v] /\ job'[v] = job[v] /\ mine'[v] = mine[v]
      /\ pc' \in [Workers -> Stages \cup {"idle"}] /\ job' \in [Workers -> Jobs \cup {None}]
      /\ mine' \in [Workers -> Writes]
      /\ \A v \in Workers : pc'[v] = "idle" <=> job'[v] = None
      /\ \A v \in Workers : pc'[v] = "idle" => mine'[v] = NoWrites
  BY <1>2, EndFacts
<1>4. rows \subseteq Rows /\ hist \subseteq Rows /\ prices \subseteq Investing \X Months
  BY DEF IInv, Tabled
<1>5. Tabled'
  <2>1. rows' \subseteq Rows /\ hist' \subseteq Rows /\ prices' \subseteq Investing \X Months
    BY <1>2, <1>4, WriteFields
  <2>2. accts' \in [Accounts -> {"ACTIVE", "ARCHIVED", "DELETED"}]
    BY <1>2 DEF IInv, Tabled
  <2> QED
    BY <1>2, <1>3, <2>1, <2>2 DEF IInv, Tabled
<1>6. ASSUME NEW r \in k.rows
      PROVE  /\ r.by <= Budget - left /\ r.month <= target
             /\ \A v \in Open' : r.by # job'[v].id
  <2>1. j.kind # "delete" /\ r.by = j.id /\ r.month <= j.upto
    BY <1>2, <1>6 DEF Facts, Deleter, Snapper, WritesOnce
  <2>2. j.id <= Budget - left /\ j.upto <= target
    BY <1>1, <1>2 DEF IInv, Numbered
  <2>3. r.month \in Int /\ j.upto \in Int /\ target \in Int
    <3>1. r \in Rows /\ j.upto \in Months /\ target \in Months
      BY <1>2, WriteFields, JobFields DEF IInv, Tabled
    <3> QED
      BY <3>1, RowFields DEF Months
  <2>4. r.month <= target
    BY <2>1, <2>2, <2>3
  <2>5. \A v \in Open' : r.by # job'[v].id
    BY <1>1, <1>2, <1>3, <2>1 DEF IInv, Numbered
  <2> QED
    BY <2>1, <2>2, <2>4, <2>5
<1>7. \A r \in rows' : r \in rows \/ r \in k.rows
  BY <1>2
<1>8. Numbered'
  <2>1. \A r \in rows' : r.by <= Budget - left' /\ r.month <= target'
    BY <1>2, <1>6, <1>7 DEF IInv, Numbered
  <2>2. \A r \in rows' : \A v \in Open' : r.by # job'[v].id
    BY <1>3, <1>6, <1>7 DEF IInv, Numbered
  <2>3. /\ \A v \in Open' : job'[v].id <= Budget - left'
        /\ \A v \in Open' : job'[v].upto <= target' /\ target' <= job'[v].upto + 1
        /\ \A u, v \in Open' : u # v => job'[u].id # job'[v].id
    BY <1>2, <1>3 DEF IInv, Numbered
  <2> QED
    BY <2>1, <2>2, <2>3 DEF Numbered
<1> QED
  BY <1>5, <1>8

\* A commit of a run that has the price of an item of its own adds no second row to a
\* month.
LEMMA CommitSerial ==
    ASSUME IInv, NEW w \in Workers, Commit(w) PROVE PricesSerialiseRuns'
<1>1. PICK j, k : j = job[w] /\ k = mine[w]
  OBVIOUS
<1>2. /\ Facts(w, "commit", j, k) /\ rows' = (rows \ k.gone) \cup k.rows /\ unpriced' = unpriced
      /\ j.kind = "delete" => rows' = rows \ k.gone
  BY <1>1, CommitEffects
<1>3. SUFFICES ASSUME ~(Listed \subseteq unpriced), NEW r \in rows', NEW q \in rows', Same(r, q)
               PROVE  r = q
  BY <1>2 DEF PricesSerialiseRuns, OneRowPerMonth, Same
<1>4. \A x, y \in rows : Same(x, y) => x = y
  BY <1>3 DEF IInv, PricesSerialiseRuns, OneRowPerMonth
<1>5. CASE j.kind = "delete"
  BY <1>2, <1>3, <1>4, <1>5
<1>6. CASE j.kind # "delete"
  <2>1. Clears("commit", j, k, rows) /\ \A x, y \in k.rows : Same(x, y) => x = y
    BY <1>2, <1>3, <1>6 DEF Facts, Snapper, WritesOnce, Sole
  <2>2. \A x \in k.rows : \A y \in rows \ k.gone : x.month # y.month
    BY <2>1 DEF Clears, Cleared, MonthsOf, InMonth
  <2> QED
    BY <1>2, <1>3, <1>4, <2>1, <2>2 DEF Same
<1> QED
  BY <1>5, <1>6

\* A deletion nobody crossed takes every row, and a run writes none for a deleted account.
LEMMA CommitForgets ==
    ASSUME IInv, NEW w \in Workers, Commit(w) PROVE NoRowsOfTheDeleted'
<1>1. PICK j, k : j = job[w] /\ k = mine[w]
  OBVIOUS
<1>2. /\ Facts(w, "commit", j, k) /\ crossed' = crossed /\ k \in Writes
      /\ rows' = (rows \ k.gone) \cup k.rows /\ hist' = (hist \ k.unhist) \cup k.hist
      /\ j.kind = "delete" =>
           /\ accts' = [accts EXCEPT ![j.acct] = "DELETED"] /\ j.acct \in Accounts
           /\ rows' = rows \ k.gone /\ hist' = hist \ k.unhist
      /\ j.kind # "delete" => accts' = accts
  BY <1>1, CommitEffects
<1>3. SUFFICES ASSUME NEW r \in rows' \cup hist', accts'[r.acct] = "DELETED" PROVE r.acct \in crossed
  BY <1>2 DEF NoRowsOfTheDeleted
<1>4. CASE j.kind = "delete"
  <2>1. r \in rows \cup hist /\ r \in Rows
    BY <1>2, <1>4 DEF IInv, Tabled
  <2>2. r.acct \in Accounts /\ accts \in [Accounts -> {"ACTIVE", "ARCHIVED", "DELETED"}]
    BY <2>1, RowFields DEF IInv, Tabled
  <2>3. CASE r.acct # j.acct
    <3>1. accts[r.acct] = "DELETED"
      BY <1>2, <1>3, <1>4, <2>2, <2>3
    <3> QED
      BY <2>1, <3>1 DEF IInv, NoRowsOfTheDeleted
  <2>4. CASE r.acct = j.acct
    <3>1. j.acct \notin crossed => Forgets("commit", j, k, rows, hist)
      BY <1>2, <1>4 DEF Facts
    <3>2. r \in rows \ k.gone \/ r \in hist \ k.unhist
      BY <1>2, <1>4
    <3> QED
      BY <2>4, <3>1, <3>2 DEF Forgets
  <2> QED
    BY <2>3, <2>4
<1>5. CASE j.kind # "delete"
  <2>1. Remembers(j, k, accts, crossed)
    BY <1>2, <1>5 DEF Facts
  <2>2. CASE r \in k.rows \cup k.hist
    BY <1>2, <1>3, <1>5, <2>1, <2>2 DEF Remembers
  <2>3. CASE r \in rows \cup hist
    BY <1>2, <1>3, <1>5, <2>3 DEF IInv, NoRowsOfTheDeleted
  <2> QED
    BY <1>2, <2>2, <2>3
<1> QED
  BY <1>4, <1>5

\* The old months that one run fills get no rows from another: a manual snapshot writes
\* the last month only, and the job runs once at a time.
LEMMA CommitFills ==
    ASSUME IInv, NEW w \in Workers, Commit(w), NEW v \in Open, v # w,
           NEW t, t = pc[v], NEW i, i = job[v], NEW n, n = mine[v], i.kind # "delete"
    PROVE  Fills(t, i, n, rows')
<1>1. PICK j, k : j = job[w] /\ k = mine[w]
  OBVIOUS
<1>2. /\ w \in Open /\ j \in Jobs /\ k \in Writes /\ Facts(w, "commit", j, k)
      /\ rows' = (rows \ k.gone) \cup k.rows
      /\ j.kind = "delete" => rows' = rows \ k.gone
  BY <1>1, CommitEffects
<1>3. /\ i \in Jobs /\ n \in Writes /\ Snapper(t, i, n) /\ Fills(t, i, n, rows)
  <2>1. v \in Workers /\ pc[v] # "idle"
    BY DEF Open
  <2> QED
    BY <2>1, OpenFacts DEF Facts
<1>4. SUFFICES ASSUME NEW c \in Cleared(t, i, n), c <= i.upto - 2, NEW r \in rows', r.month = c PROVE FALSE
  BY DEF Fills, InMonth
<1>5. r \notin rows
  BY <1>3, <1>4 DEF Fills, InMonth
<1>6. j.kind # "delete" /\ r \in k.rows
  BY <1>2, <1>4, <1>5
<1>7. /\ r \in Rows /\ r.month \in Int /\ i.upto \in Int /\ j.upto \in Int /\ target \in Int
      /\ i.kind \in Kinds /\ j.kind \in Kinds
  <2>1. i.upto \in Months /\ j.upto \in Months /\ target \in Months /\ r \in Rows
    BY <1>2, <1>3, <1>6, JobFields, WriteFields DEF IInv, Tabled
  <2> QED
    BY <1>2, <1>3, <2>1, JobFields, RowFields DEF Months
<1>8. CASE j.kind = "manual"
  <2>1. r.month = j.upto
    BY <1>2, <1>6, <1>8 DEF Facts, Snapper, WritesOnce
  <2>2. target <= j.upto + 1 /\ i.upto <= target
    BY <1>1, <1>2 DEF IInv, Numbered
  <2> QED
    BY <1>4, <1>7, <2>1, <2>2
<1>9. CASE j.kind # "manual"
  <2>1. i.kind # "auto"
    BY <1>1, <1>2, <1>6, <1>7, <1>9 DEF IInv, Locked, Kinds
  <2>2. i.kind = "manual"
    BY <1>7, <2>1 DEF Kinds
  <2>3. c = i.upto
    <3>1. CASE c \in MonthsOf(n.rows)
      BY <1>3, <2>2, <3>1 DEF Snapper, WritesOnce, MonthsOf
    <3>2. CASE c \notin MonthsOf(n.rows)
      <4>1. t \in {"measure", "save"} /\ c = Latest(i)
        BY <1>4, <3>2 DEF Cleared
      <4>2. i.todo # {} /\ i.todo \subseteq {i.upto}
        BY <1>3, <2>2, <4>1 DEF Snapper, Plans, Monthly
      <4>3. Latest(i) \in i.todo
        BY <1>3, <4>2, LatestIsDue
      <4> QED
        BY <4>1, <4>2, <4>3
    <3> QED
      BY <3>1, <3>2
  <2> QED
    BY <1>4, <1>7, <2>3
<1> QED
  BY <1>8, <1>9

\* What is known of the others after a commit.
LEMMA CommitBeside ==
    ASSUME IInv, NEW w \in Workers, Commit(w), NEW v \in Open, v # w,
           NEW t, t = pc[v], NEW i, i = job[v], NEW n, n = mine[v]
    PROVE  Facts(v, t, i, n)'
<1>1. PICK j, k : j = job[w] /\ k = mine[w]
  OBVIOUS
<1>2. /\ w \in Open /\ pc[w] # "idle" /\ End(w) /\ j \in Jobs /\ k \in Writes /\ Facts(w, "commit", j, k)
      /\ UNCHANGED <<unpriced, crossed>>
      /\ rows' = (rows \ k.gone) \cup k.rows /\ hist' = (hist \ k.unhist) \cup k.hist
      /\ j.kind = "delete" =>
           /\ accts' = [accts EXCEPT ![j.acct] = "DELETED"] /\ j.acct \in Accounts
           /\ rows' = rows \ k.gone /\ hist' = hist \ k.unhist
      /\ j.kind # "delete" => accts' = accts
  BY <1>1, CommitEffects
<1>3. calm' = {}
  BY <1>2, EndFacts
<1>4. i \in Jobs /\ n \in Writes /\ Facts(v, t, i, n)
  <2>1. v \in Workers /\ pc[v] # "idle"
    BY DEF Open
  <2> QED
    BY <2>1, OpenFacts
<1>5. CASE i.kind = "delete"
  <2>1. Deleter(t, i, n)
    BY <1>4, <1>5 DEF Facts
  <2>2. ASSUME i.acct \notin crossed PROVE Forgets(t, i, n, rows', hist')
    <3>1. j.kind = "delete"
      BY <1>1, <1>2, <1>5, <2>2 DEF IInv, DeletionsSee
    <3>2. rows' \subseteq rows /\ hist' \subseteq hist
      BY <1>2, <3>1
    <3>3. Forgets(t, i, n, rows, hist)
      BY <1>4, <1>5, <2>2 DEF Facts
    <3> QED
      BY <3>2, <3>3 DEF Forgets
  <2> QED
    BY <1>2, <1>5, <2>1, <2>2 DEF Facts
<1>6. CASE i.kind # "delete"
  <2>1. Snapper(t, i, n) /\ Remembers(i, n, accts, crossed)
    BY <1>4, <1>6 DEF Facts
  <2>2. Fills(t, i, n, rows')
    BY <1>6, CommitFills
  <2>3. Remembers(i, n, accts', crossed)
    <3>1. CASE j.kind # "delete"
      BY <1>2, <2>1, <3>1
    <3>2. CASE j.kind = "delete"
      <4>1. j.acct \in crossed
        BY <1>1, <1>2, <1>6, <3>2 DEF IInv, DeletionsSee
      <4>2. \A a \in Accounts : accts'[a] = "DELETED" => accts[a] = "DELETED" \/ a = j.acct
        BY <1>2, <3>2 DEF IInv, Tabled
      <4>3. \A a \in DOMAIN i.cash \cup {r.acct : r \in n.rows \cup n.hist} : a \in Accounts
        BY <1>4, JobFields, WriteFields, RowFields
      <4> QED
        BY <2>1, <4>1, <4>2, <4>3 DEF Remembers
    <3> QED
      BY <3>1, <3>2
  <2>4. ASSUME ~(Listed \subseteq unpriced) PROVE Clears(t, i, n, rows')
    <3>1. CASE t = "prices"
      <4>1. n.rows = {}
        BY <2>1, <3>1 DEF Snapper, Plans
      <4>2. Cleared(t, i, n) = {}
        BY <3>1, <4>1 DEF Cleared, MonthsOf
      <4> QED
        BY <3>1, <4>2 DEF Clears
    <3>2. CASE t # "prices"
      <4>1. j.kind = "delete"
        <5>1. pc[w] = "commit" /\ pc[w] # "prices"
          BY DEF Commit
        <5> QED
          BY <1>1, <1>2, <1>6, <2>4, <3>2, <5>1, OneStores
      <4>2. rows' \subseteq rows
        BY <1>2, <4>1
      <4>3. Clears(t, i, n, rows)
        BY <1>4, <1>6, <2>4 DEF Facts, Sole
      <4> QED
        BY <4>2, <4>3 DEF Clears, InMonth
    <3> QED
      BY <3>1, <3>2
  <2>5. Sole(v)' => ~(Listed \subseteq unpriced)
    BY <1>2, <1>3 DEF Sole
  <2> QED
    BY <1>2, <1>3, <1>6, <2>1, <2>2, <2>3, <2>4, <2>5 DEF Facts
<1> QED
  BY <1>5, <1>6

\* A transaction commits.
LEMMA CommitStep == ASSUME IInv, NEW w \in Workers, Commit(w) PROVE IInv'
<1>1. pc[w] # "idle" /\ End(w) /\ UNCHANGED <<unpriced, crossed>>
  BY DEF Commit
<1>2. /\ Open' \subseteq Open /\ calm' = {}
      /\ \A v \in Open' : v # w /\ pc'[v] = pc[v] /\ job'[v] = job[v] /\ mine'[v] = mine[v]
  BY <1>1, EndFacts
<1>3. \A v \in Open' : Facts(v, pc[v], job[v], mine[v])'
  <2>1. ASSUME NEW v \in Open' PROVE Facts(v, pc[v], job[v], mine[v])'
    <3>1. PICK t, i, n : t = pc[v] /\ i = job[v] /\ n = mine[v]
      OBVIOUS
    <3>2. v \in Open /\ v # w
      BY <1>2
    <3>3. Facts(v, t, i, n)'
      BY <3>1, <3>2, CommitBeside
    <3> QED
      BY <1>2, <3>1, <3>3
  <2> QED
    BY <2>1
<1>4. \A u, v \in Open' : job'[v].kind = "delete" /\ job'[v].acct \notin crossed' => job'[u].kind = "delete"
  BY <1>1, <1>2 DEF IInv, DeletionsSee
<1>5. Tabled' /\ Numbered' /\ Locked' /\ PricesSerialiseRuns' /\ NoRowsOfTheDeleted'
  BY <1>1, CommitTabled, LocksEnd, CommitSerial, CommitForgets
<1> QED
  BY <1>2, <1>3, <1>4, <1>5, Reassembled

-----------------------------------------------------------------------------
(* The rest of the household, and the calendar *)

\* What is changed by the user disturbs every run, and takes nothing from what is known
\* of it otherwise.
LEMMA BooksStep ==
    ASSUME IInv, (\E e \in Entries : Enter(e)) \/ (\E a \in Accounts : Archive(a)) PROVE IInv'
<1>1. /\ edits' \in 0..Edits /\ calm' = {} /\ book' \subseteq Entries
      /\ UNCHANGED <<target, clash, prices, rows, hist, pc, job, mine, left, unpriced, crossed>>
  <2>1. edits \in 0..Edits /\ Edits \in Nat /\ book \subseteq Entries
    BY BoundsAssumption DEF IInv, Tabled
  <2>2. CASE \E e \in Entries : Enter(e)
    BY <2>1, <2>2 DEF Enter
  <2>3. CASE \E a \in Accounts : Archive(a)
    BY <2>1, <2>3 DEF Archive
  <2> QED
    BY <2>2, <2>3
<1>2. /\ accts' \in [Accounts -> {"ACTIVE", "ARCHIVED", "DELETED"}]
      /\ \A a \in Accounts : accts'[a] = "DELETED" <=> accts[a] = "DELETED"
  <2>1. accts \in [Accounts -> {"ACTIVE", "ARCHIVED", "DELETED"}]
    BY DEF IInv, Tabled
  <2>2. CASE \E e \in Entries : Enter(e)
    BY <2>1, <2>2 DEF Enter
  <2>3. CASE \E a \in Accounts : Archive(a)
    <3>1. PICK a \in Accounts : Archive(a)
      BY <2>3
    <3>2. /\ accts[a] # "DELETED"
          /\ accts' = [accts EXCEPT ![a] = IF accts[a] = "ACTIVE" THEN "ARCHIVED" ELSE "ACTIVE"]
      BY <3>1 DEF Archive
    <3> QED
      BY <2>1, <3>2
  <2> QED
    BY <2>2, <2>3
<1>3. Open' = Open
  BY <1>1 DEF Open
<1>4. Tabled'
  BY <1>1, <1>2 DEF IInv, Tabled
<1>5. Numbered'
  BY <1>1, <1>3 DEF IInv, Numbered
<1>6. Locked'
  BY <1>1, <1>3 DEF IInv, Locked
<1>7. PricesSerialiseRuns'
  BY <1>1 DEF IInv, PricesSerialiseRuns, OneRowPerMonth
<1>8. NoRowsOfTheDeleted'
  <2>1. \A r \in rows \cup hist : r.acct \in Accounts
    BY RowFields DEF IInv, Tabled
  <2> QED
    BY <1>1, <1>2, <2>1 DEF IInv, NoRowsOfTheDeleted
<1>9. \A v \in Open' : Facts(v, pc[v], job[v], mine[v])'
  <2>1. ASSUME NEW v \in Open PROVE Facts(v, pc[v], job[v], mine[v])'
    <3>1. PICK t, j, n : t = pc[v] /\ j = job[v] /\ n = mine[v]
      OBVIOUS
    <3>2. v \in Workers /\ pc[v] # "idle"
      BY DEF Open
    <3>3. Facts(v, t, j, n) /\ j \in Jobs /\ n \in Writes
      BY <3>1, <3>2, OpenFacts
    <3>4. Facts(v, t, j, n)'
      BY <1>1, <1>2, <3>3, FactsKept
    <3> QED
      BY <1>1, <3>1, <3>4
  <2> QED
    BY <1>3, <2>1
<1>10. \A u, v \in Open' : job'[v].kind = "delete" /\ job'[v].acct \notin crossed' => job'[u].kind = "delete"
  BY <1>1, <1>3 DEF IInv, DeletionsSee
<1> QED
  BY <1>1, <1>4, <1>5, <1>6, <1>7, <1>8, <1>9, <1>10, Reassembled

\* A month ends.
LEMMA MonthEndsStep == ASSUME IInv, MonthEnds PROVE IInv'
<1>1. /\ target < LastMonth /\ target' = target + 1 /\ \A w \in Open : job[w].upto = target
      /\ UNCHANGED <<clash, book, accts, prices, rows, hist, pc, job, mine, left, edits, calm, unpriced, crossed>>
  BY DEF MonthEnds
<1>2. target \in Int /\ target \in Months /\ target' \in Months
  BY <1>1, WindowAssumption DEF IInv, Tabled, Months
<1>3. Open' = Open
  BY <1>1 DEF Open
<1>4. Tabled'
  BY <1>1, <1>2 DEF IInv, Tabled
<1>5. Numbered'
  <2>1. \A w \in Open' : job'[w].upto <= target' /\ target' <= job'[w].upto + 1
    BY <1>1, <1>2, <1>3
  <2>2. \A r \in rows : r.month <= target /\ r.month \in Int
    BY RowFields DEF IInv, Tabled, Numbered
  <2>3. \A r \in rows : r.month <= target'
    BY <1>1, <1>2, <2>2
  <2> QED
    BY <1>1, <1>3, <2>1, <2>3 DEF IInv, Numbered
<1>6. Locked'
  BY <1>1, <1>3 DEF IInv, Locked
<1>7. PricesSerialiseRuns' /\ NoRowsOfTheDeleted'
  BY <1>1 DEF IInv, PricesSerialiseRuns, OneRowPerMonth, NoRowsOfTheDeleted
<1>8. \A v \in Open' : Facts(v, pc[v], job[v], mine[v])'
  <2>1. ASSUME NEW v \in Open PROVE Facts(v, pc[v], job[v], mine[v])'
    <3>1. PICK t, j, n : t = pc[v] /\ j = job[v] /\ n = mine[v]
      OBVIOUS
    <3>2. v \in Workers /\ pc[v] # "idle"
      BY DEF Open
    <3>3. Facts(v, t, j, n) /\ j \in Jobs /\ n \in Writes
      BY <3>1, <3>2, OpenFacts
    <3>4. Facts(v, t, j, n)'
      BY <1>1, <3>3, FactsKept
    <3> QED
      BY <1>1, <3>1, <3>4
  <2> QED
    BY <1>3, <2>1
<1>9. \A u, v \in Open' : job'[v].kind = "delete" /\ job'[v].acct \notin crossed' => job'[u].kind = "delete"
  BY <1>1, <1>3 DEF IInv, DeletionsSee
<1>10. \A v \in calm' : Open' = {v}
  BY <1>1, <1>3 DEF IInv, CalmRuns
<1> QED
  BY <1>4, <1>5, <1>6, <1>7, <1>8, <1>9, <1>10, Reassembled

\* Nothing happens.
LEMMA StutterInv == ASSUME IInv, UNCHANGED vars PROVE IInv'
<1>1. /\ UNCHANGED <<target, clash, book, accts, prices, rows, hist, left, edits>>
      /\ UNCHANGED <<pc, job, mine, calm, unpriced, crossed>>
  BY DEF vars
<1>2. Open' = Open
  BY <1>1 DEF Open
<1>3. Tabled' /\ Numbered' /\ Locked' /\ PricesSerialiseRuns' /\ NoRowsOfTheDeleted'
  BY <1>1, <1>2 DEF IInv, Tabled, Numbered, Locked, PricesSerialiseRuns, OneRowPerMonth, NoRowsOfTheDeleted
<1>4. \A v \in Open' : Facts(v, pc[v], job[v], mine[v])'
  <2>1. ASSUME NEW v \in Open PROVE Facts(v, pc[v], job[v], mine[v])'
    <3>1. PICK t, j, n : t = pc[v] /\ j = job[v] /\ n = mine[v]
      OBVIOUS
    <3>2. v \in Workers /\ pc[v] # "idle"
      BY DEF Open
    <3>3. Facts(v, t, j, n)
      BY <3>1, <3>2, OpenFacts
    <3>4. Facts(v, t, j, n)'
      BY <1>1, <3>3, FactsStay DEF Tables
    <3> QED
      BY <1>1, <3>1, <3>4
  <2> QED
    BY <1>2, <2>1
<1>5. \A u, v \in Open' : job'[v].kind = "delete" /\ job'[v].acct \notin crossed' => job'[u].kind = "delete"
  BY <1>1, <1>2 DEF IInv, DeletionsSee
<1>6. \A v \in calm' : Open' = {v}
  BY <1>1, <1>2 DEF IInv, CalmRuns
<1> QED
  BY <1>3, <1>4, <1>5, <1>6, Reassembled

\* Every step keeps the invariant.
LEMMA NextInv == IInv /\ [Next]_vars => IInv'
<1> SUFFICES ASSUME IInv, [Next]_vars PROVE IInv'
  OBVIOUS
<1>1. ASSUME NEW w \in Workers, Run(w) PROVE IInv'
  <2>1. CASE StartAuto(w) \/ StartManual(w) \/ \E a \in Accounts : StartDelete(w, a)
    BY <2>1, StartsStep
  <2>2. CASE Upsert(w)
    BY <2>2, UpsertStep
  <2>3. CASE Floor(w)
    BY <2>3, FloorStep
  <2>4. CASE Decide(w)
    BY <2>4, DecideStep
  <2>5. CASE Wipe(w)
    BY <2>5, WipeStep
  <2>6. CASE Wiped(w)
    BY <2>6, WipedStep
  <2>7. CASE Measure(w)
    BY <2>7, MeasureStep
  <2>8. CASE Save(w)
    BY <2>8, SaveStep
  <2>9. CASE History(w)
    BY <2>9, HistoryStep
  <2>10. CASE Commit(w)
    BY <2>10, CommitStep
  <2>11. CASE Abort(w) \/ Refuse(w)
    BY <2>11, RollbackStep
  <2> QED
    BY <1>1, <2>1, <2>2, <2>3, <2>4, <2>5, <2>6, <2>7, <2>8, <2>9, <2>10, <2>11 DEF Run
<1>2. CASE (\E e \in Entries : Enter(e)) \/ (\E a \in Accounts : Archive(a))
  BY <1>2, BooksStep
<1>3. CASE MonthEnds
  BY <1>3, MonthEndsStep
<1>4. CASE UNCHANGED vars
  BY <1>4, StutterInv
<1> QED
  BY <1>1, <1>2, <1>3, <1>4 DEF Next

\* The invariant holds in every state of every behaviour.
LEMMA Invariance == Spec => []IInv
<1>1. Init => IInv
  BY InitInv
<1>2. IInv /\ [Next]_vars => IInv'
  BY NextInv
<1> QED
  BY <1>1, <1>2, PTL DEF Spec

-----------------------------------------------------------------------------
(* What a user relies on *)

\* In every state the variables have their types; what a transaction deletes is never
\* what it wrote itself.
THEOREM TypeCorrect == Spec => []TypeOK
<1>1. ASSUME IInv, NEW w \in Workers PROVE mine[w].gone \cap mine[w].rows = {}
  <2>1. CASE pc[w] = "idle"
    <3>1. mine[w] = NoWrites
      BY <1>1, <2>1 DEF IInv, Tabled
    <3> QED
      BY <3>1 DEF NoWrites
  <2>2. CASE pc[w] # "idle"
    <3>1. PICK s, j, m : s = pc[w] /\ j = job[w] /\ m = mine[w]
      OBVIOUS
    <3>2. Facts(w, s, j, m)
      BY <1>1, <2>2, <3>1, OpenFacts
    <3>3. CASE j.kind = "delete"
      BY <3>1, <3>2, <3>3 DEF Facts, Deleter
    <3>4. CASE j.kind # "delete"
      BY <3>1, <3>2, <3>4 DEF Facts, Snapper, WritesOnce, Replaces
    <3> QED
      BY <3>3, <3>4
  <2> QED
    BY <2>1, <2>2
<1>2. IInv => TypeOK
  <2>1. ASSUME IInv PROVE \A w \in Workers : pc[w] \in Stages \cup {"idle"}
    BY <2>1 DEF IInv, Tabled
  <2> QED
    BY <1>1, <2>1 DEF IInv, Tabled, TypeOK, Stages
<1> QED
  BY <1>2, Invariance, PTL

\* While there is an item whose price every run has stored, an account has one row a
\* month, whatever runs, deletions and changes interleave: the row of its price is what
\* serialises the runs.
THEOREM PricesSerialise == Spec => []PricesSerialiseRuns
<1>1. IInv => PricesSerialiseRuns
  BY DEF IInv
<1> QED
  BY <1>1, Invariance, PTL

\* An account that was deleted while no snapshot was being made leaves no row behind.
THEOREM NothingOfTheDeleted == Spec => []NoRowsOfTheDeleted
<1>1. IInv => NoRowsOfTheDeleted
  BY DEF IInv
<1> QED
  BY <1>1, Invariance, PTL

\* What a snapshot commits.
LEMMA SnapCommits ==
    ASSUME IInv, NEW w \in Workers, Commit(w), NEW j, j = job[w], NEW k, k = mine[w], j.kind # "delete"
    PROVE  /\ j \in Jobs /\ k \in Writes /\ j.todo = {}
           /\ rows' = (rows \ k.gone) \cup k.rows /\ hist' = (hist \ k.unhist) \cup k.hist
           /\ prices' = prices \cup k.keys /\ book' = book /\ accts' = accts
           /\ Snapper("commit", j, k) /\ Fills("commit", j, k, rows)
           /\ Sole(w) => Clears("commit", j, k, rows)
           /\ w \in calm => Undisturbed("commit", j, k) /\ FillsGaps("commit", j, k)
<1>1. /\ j \in Jobs /\ k \in Writes /\ Facts(w, "commit", j, k)
      /\ rows' = (rows \ k.gone) \cup k.rows /\ hist' = (hist \ k.unhist) \cup k.hist
      /\ prices' = prices \cup k.keys /\ book' = book /\ accts' = accts
  BY CommitEffects
<1>2. /\ Snapper("commit", j, k) /\ Fills("commit", j, k, rows)
      /\ Sole(w) => Clears("commit", j, k, rows)
      /\ w \in calm => Undisturbed("commit", j, k) /\ FillsGaps("commit", j, k)
  BY <1>1 DEF Facts
<1>3. j.todo = {}
  BY <1>2 DEF Snapper, Plans
<1> QED
  BY <1>1, <1>2, <1>3

\* A month that has a snapshot and is older than the two recomputed ones gets no rows
\* from a run, and loses none to it.
THEOREM OldMonthsAreKept == Spec => OldMonthsStay
<1>1. IInv /\ [Next]_vars =>
        [\A w \in Workers : Commit(w) /\ job[w].kind # "delete" =>
           \A m \in 1..(job[w].upto - 2) : Has(rows, m) => InMonth(rows', m) = InMonth(rows, m)]_vars
  <2> SUFFICES ASSUME IInv, NEW w \in Workers, Commit(w), job[w].kind # "delete",
                      NEW m \in 1..(job[w].upto - 2), Has(rows, m)
               PROVE  InMonth(rows', m) = InMonth(rows, m)
    OBVIOUS
  <2>1. PICK j, k : j = job[w] /\ k = mine[w]
    OBVIOUS
  <2>2. /\ j \in Jobs /\ k \in Writes /\ rows' = (rows \ k.gone) \cup k.rows
        /\ Snapper("commit", j, k) /\ Fills("commit", j, k, rows)
    BY <2>1, SnapCommits
  <2>3. j.upto \in Int /\ m \in Int /\ m <= j.upto - 2
    <3>1. j.upto \in Int
      BY <2>2, JobFields DEF Months
    <3> QED
      BY <2>1, <3>1
  <2>4. \A r \in k.gone : r.month # m
    <3>1. \A r \in k.gone : r.month >= j.upto - 1
      BY <2>2 DEF Snapper, Replaces
    <3> QED
      BY <2>3, <3>1
  <2>5. m \notin MonthsOf(k.rows)
    BY <2>2, <2>3 DEF Fills, Cleared, Has
  <2>6. \A r \in k.rows : r.month # m
    BY <2>5 DEF MonthsOf
  <2> QED
    BY <2>2, <2>4, <2>6 DEF InMonth
<1> QED
  BY <1>1, Invariance, PTL DEF Spec, OldMonthsStay

\* After a job that nothing disturbed no month lacks a snapshot, from the household's
\* first one on and as far back as the catch-up reaches.
THEOREM CatchUpFills == Spec => CatchUpLeavesNoGap
<1>1. IInv /\ [Next]_vars =>
        [\A w \in calm : Commit(w) /\ job[w].kind = "auto" /\ Scope # {} =>
           \A m \in Months : /\ m <= job[w].upto /\ m > job[w].upto - CatchUp
                             /\ m = job[w].upto \/ \E r \in rows : r.month <= m
                             => Has(rows', m)]_vars
  <2>1. ASSUME IInv, NEW w \in calm, Commit(w), job[w].kind = "auto", Scope # {}, NEW m \in Wanted(job[w])
        PROVE  Has(rows', m)
    <3>1. PICK j, k : j = job[w] /\ k = mine[w]
      OBVIOUS
    <3>2. w \in Workers /\ j.kind # "delete"
      BY <2>1, <3>1 DEF IInv, Tabled
    <3>3. j.todo = {} /\ rows' = (rows \ k.gone) \cup k.rows /\ FillsGaps("commit", j, k)
      BY <2>1, <3>1, <3>2, SnapCommits
    <3> QED
      BY <2>1, <3>1, <3>3 DEF FillsGaps, Pending
  <2> SUFFICES ASSUME IInv, NEW w \in calm, Commit(w), job[w].kind = "auto", Scope # {}, NEW m \in Months,
                      m <= job[w].upto, m > job[w].upto - CatchUp,
                      m = job[w].upto \/ \E r \in rows : r.month <= m
               PROVE  Has(rows', m)
    OBVIOUS
  <2>2. m \in Wanted(job[w])
    BY DEF Wanted
  <2> QED
    BY <2>1, <2>2
<1> QED
  BY <1>1, Invariance, PTL DEF Spec, CatchUpLeavesNoGap

Own(S, a) == {r \in S : r.acct = a}

\* An account has exactly one of the fresh rows of a month.
LEMMA FreshOnes ==
    ASSUME NEW j, NEW n, NEW ps, NEW a \in Scope
    PROVE  /\ Cardinality(Own(FreshRows(j, n, ps), a)) = 1
           /\ a \in Investing /\ Held(a, n) > 0 => Cardinality(Own(FreshHist(j, n, ps), a)) = 1
           /\ ~(a \in Investing /\ Held(a, n) > 0) => Cardinality(Own(FreshHist(j, n, ps), a)) = 0
<1>1. Own(FreshRows(j, n, ps), a) =
        {[acct |-> a, month |-> n, by |-> j.id, amount |-> Cash(a, n) + Worth(a, n, ps)]}
  BY DEF FreshRows, Own
<1>2. ASSUME a \in Investing, Held(a, n) > 0
      PROVE  Own(FreshHist(j, n, ps), a) =
               {[acct |-> a, month |-> n, by |-> j.id, amount |-> Worth(a, n, ps)]}
  BY <1>2 DEF FreshHist, Own
<1>3. ASSUME ~(a \in Investing /\ Held(a, n) > 0) PROVE Own(FreshHist(j, n, ps), a) = {}
  BY <1>3 DEF FreshHist, Own
<1> QED
  BY <1>1, <1>2, <1>3, FS_Singleton, FS_EmptySet

\* What was never traded is not held.
LEMMA HeldInvested ==
    ASSUME IInv, NEW a, a \notin Investing, NEW n \in Months PROVE ~(Held(a, n) > 0)
<1>1. book \subseteq Entries
  BY DEF IInv, Tabled
<1>2. \A k : <<a, k, "trade">> \notin book
  BY <1>1, EntriesAssumption DEF Investing
<1>3. {k \in 1..n : <<a, k, "trade">> \in book} = {}
  BY <1>2
<1>4. Held(a, n) = Cardinality({})
  BY <1>3 DEF Held, Until
<1>5. Held(a, n) = 0
  BY <1>4, FS_EmptySet
<1> QED
  BY <1>5

\* A run that nothing disturbed leaves every month it wrote exact: one row for each
\* account that is neither archived nor deleted, with the balance and the valuation of
\* the books; and its value history likewise, unless there was one without snapshots.
THEOREM CalmRunsRepair == Spec => CalmRunRepairs
<1>1. IInv /\ [Next]_vars =>
        [\A w \in calm : Commit(w) =>
           \A m \in {r.month : r \in mine[w].rows} : RowsExact(m)' /\ (~Orphaned(m) => HistExact(m)')]_vars
  <2> SUFFICES ASSUME IInv, NEW w \in calm, Commit(w), NEW m \in {r.month : r \in mine[w].rows}
               PROVE  RowsExact(m)' /\ (~Orphaned(m) => HistExact(m)')
    OBVIOUS
  <2>1. PICK j, k : j = job[w] /\ k = mine[w]
    OBVIOUS
  <2>2. w \in Workers /\ m \in MonthsOf(k.rows)
    BY <2>1 DEF IInv, Tabled, MonthsOf
  <2>3. j.kind # "delete"
    <3>1. Facts(w, "commit", j, k)
      BY <2>1, <2>2, CommitEffects
    <3> QED
      BY <2>2, <3>1 DEF Facts, Deleter, MonthsOf
  <2>4. /\ j \in Jobs /\ k \in Writes /\ j.todo = {}
        /\ rows' = (rows \ k.gone) \cup k.rows /\ hist' = (hist \ k.unhist) \cup k.hist
        /\ prices' = prices \cup k.keys /\ book' = book /\ accts' = accts
        /\ Clears("commit", j, k, rows) /\ Undisturbed("commit", j, k)
    BY <2>1, <2>2, <2>3, SnapCommits DEF Sole
  <2>5. m \in Months
    <3>1. k.rows \subseteq Rows
      BY <2>4, WriteFields
    <3> QED
      BY <2>2, <3>1, RowFields DEF MonthsOf
  <2>6. InMonth(rows', m) = FreshRows(j, m, prices')
    <3>1. InMonth(rows \ k.gone, m) = {}
      BY <2>2, <2>4 DEF Clears, Cleared
    <3>2. InMonth(k.rows, m) = FreshRows(j, m, prices')
      BY <2>2, <2>4 DEF Undisturbed
    <3> QED
      BY <2>4, <3>1, <3>2 DEF InMonth
  <2>7. Scope' = Scope /\ (\A a : Cash(a, m)' = Cash(a, m)) /\ (\A a : Held(a, m)' = Held(a, m))
        /\ (\A a : Worth(a, m, prices)' = Worth(a, m, prices'))
    BY <2>4 DEF Scope, Cash, Held, Worth, PriceOf, Until
  <2>8. RowsExact(m)'
    <3>1. PICK S, ps : S = InMonth(rows', m) /\ ps = prices'
      OBVIOUS
    <3>2. S = FreshRows(j, m, ps)
      BY <2>6, <3>1
    <3>3. \A r \in S : r.acct \in Scope /\ r.amount = Cash(r.acct, m) + Worth(r.acct, m, ps)
      BY <3>2 DEF FreshRows
    <3>4. \A a \in Scope : Cardinality(Own(S, a)) = 1
      BY <3>2, FreshOnes
    <3>5. \A a \in Scope : accts'[a] = "ACTIVE"
      BY <2>4 DEF Scope
    <3>6. \A r \in InMonth(rows', m) :
            accts'[r.acct] = "ACTIVE" /\ r.amount = Cash(r.acct, m)' + Worth(r.acct, m, prices)'
      BY <2>7, <3>1, <3>3, <3>5
    <3>7. \A a \in Scope' : Cardinality({r \in InMonth(rows', m) : r.acct = a}) = 1
      BY <2>7, <3>1, <3>4 DEF Own
    <3> QED
      BY <3>6, <3>7 DEF RowsExact
  <2>9. ASSUME ~Orphaned(m) PROVE HistExact(m)'
    <3>1. InMonth(hist', m) = FreshHist(j, m, prices')
      <4>1. InMonth(hist \ k.unhist, m) = {} /\ InMonth(k.hist, m) = FreshHist(j, m, prices')
        BY <2>2, <2>4, <2>9 DEF Undisturbed
      <4> QED
        BY <2>4, <4>1 DEF InMonth
    <3>2. PICK S, ps : S = InMonth(hist', m) /\ ps = prices'
      OBVIOUS
    <3>3. S = FreshHist(j, m, ps)
      BY <3>1, <3>2
    <3>4. ASSUME NEW a \in Scope
          PROVE  Cardinality(Own(S, a)) = (IF Held(a, m) > 0 THEN 1 ELSE 0)
      <4>1. CASE Held(a, m) > 0
        <5>1. a \in Investing
          BY <2>5, <4>1, HeldInvested
        <5> QED
          BY <3>3, <4>1, <5>1, FreshOnes
      <4>2. CASE ~(Held(a, m) > 0)
        BY <3>3, <4>2, FreshOnes
      <4> QED
        BY <4>1, <4>2
    <3>5. \A h \in S : h.amount = Worth(h.acct, m, ps)
      BY <3>3 DEF FreshHist
    <3>6. ASSUME NEW a \in Scope'
          PROVE  /\ Cardinality({h \in InMonth(hist', m) : h.acct = a}) = (IF Held(a, m)' > 0 THEN 1 ELSE 0)
                 /\ \A h \in {h \in InMonth(hist', m) : h.acct = a} : h.amount = Worth(a, m, prices)'
      <4>1. a \in Scope /\ Held(a, m)' = Held(a, m) /\ Worth(a, m, prices)' = Worth(a, m, ps)
        BY <2>7, <3>2, <3>6
      <4>2. Cardinality(Own(S, a)) = (IF Held(a, m)' > 0 THEN 1 ELSE 0)
        BY <3>4, <4>1
      <4>3. \A h \in Own(S, a) : h.amount = Worth(a, m, prices)'
        BY <3>5, <4>1 DEF Own
      <4> QED
        BY <3>2, <4>2, <4>3 DEF Own
    <3> QED
      BY <3>6 DEF HistExact
  <2> QED
    BY <2>8, <2>9
<1> QED
  BY <1>1, Invariance, PTL DEF Spec, CalmRunRepairs
=============================================================================
