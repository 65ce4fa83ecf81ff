------------------------ MODULE ScheduledJobsProofs ------------------------
(***************************************************************************)
(* Jobs, requests and seedings, for any instances, any jobs triggered in   *)
(* them, any pairs, chunks of any size and any number of runs.             *)
(*                                                                         *)
(* What is known of one run is said of its stage s and of the record k of  *)
(* what it has read, so that it stays said while others take steps.        *)
(***************************************************************************)
EXTENDS ScheduledJobs, FiniteSetTheorems, WellFoundedInduction, TLAPS

Stages  == {"fetch", "write", "ensure", "purge", "build", "commit", "ghost"}
Records == RateRuns \cup RefreshRuns \cup SeedingRuns
Visits  == [kind : {"profile", "household"}, user : DOMAIN users] \cup [kind : {"row"}, hh : Ids]

Tabled ==
    /\ pc  \in [Runs -> Stages \cup {"idle", "alert"}]
    /\ run \in [Runs -> Records \cup {None}]
    /\ \A r \in Runs : ~Open(r) => run[r] = None
    /\ quote \in Quotes /\ rate \in Quotes \cup {None}
    /\ price \in [Pairs -> Prices] /\ \A p \in Pairs : price[p].at <= quote
    /\ users \in [DOMAIN users -> BOOLEAN] /\ DOMAIN users \subseteq Ids
    /\ households \in [DOMAIN households -> DOMAIN users] /\ DOMAIN households \subseteq Ids
    /\ content \in [DOMAIN content -> {"seeded", "touched"}] /\ DOMAIN content \subseteq Ids
    /\ visit \in Visits \cup {None}
    /\ left \in 0..Budget /\ crossed \subseteq Runs /\ twins \in BOOLEAN

\* Which record belongs to a job, and which stages
Fits(s, n, k) ==
    \/ n = "refresh_usd_krw" /\ k \in RateRuns /\ s \in {"fetch", "commit", "ghost"}
    \/ n \in Refreshs /\ k \in RefreshRuns /\ s \in {"fetch", "write", "commit", "ghost"}
    \/ /\ n \in Seedings /\ k \in SeedingRuns /\ s \in {"ensure", "purge", "build", "ghost"}
       /\ s \in {"ensure", "purge"} => k.added = {}

\* Quotes are as old as the run at most, converted at its rate, and newer than what is
\* stored unless others have stored something meanwhile
Quoted(r, k) ==
    /\ k.since <= quote
    /\ \A p \in DOMAIN k.got : k.got[p].at >= k.since /\ k.got[p].at <= quote
    /\ \A p \in DOMAIN k.got \cap USPairs : k.got[p].fx = k.fx
    /\ (k.todo \cup DOMAIN k.got) \cap USPairs # {} => k.fx # None
    /\ r \notin crossed => rate = k.fx /\ \A p \in Pairs : price[p].at <= k.since

\* What a seeding has read still holds, unless others have changed it meanwhile
Read(r, s, k) ==
    /\ k.user # None => k.user \in DOMAIN users
    /\ k.user = None /\ r \notin crossed => DOMAIN users = {}
    /\ k.pristine => k.user # None
    /\ k.pristine /\ r \notin crossed => users[k.user]
    /\ Job(r) = "bootstrap_demo" => k.user = None
    /\ s = "build" => /\ k.kill \subseteq Owned(k.user)
                      /\ k.user = None => k.kill = {}
                      /\ r \notin crossed => k.kill = Owned(k.user) /\ k.added = {}

Facts(r, s, k) ==
    /\ Fits(s, Job(r), k)
    /\ Job(r) \in Refreshs => Quoted(r, k)
    /\ Job(r) \in Seedings /\ s \in {"purge", "build"} => Read(r, s, k)

\* Every row stems from a run or a request that the budget has paid for
Reading == {"ensure", "purge", "build"}
Seeders == {r \in Runs : pc[r] \in Reading}
Used    == DOMAIN households \cup DOMAIN content
Visited == IF visit = None THEN 0 ELSE 1
Counted ==
    /\ IsFiniteSet(Seeders)
    /\ Cardinality(Used) + Cardinality(Seeders) + Visited <= Budget - left
    /\ Cardinality(DOMAIN users) + Cardinality(Seeders) <= Budget - left

\* There is one demo user, and every user has a household
Peopled ==
    /\ twins \/ \A u, v \in DOMAIN users : u = v
    /\ \A u \in DOMAIN users : Owned(u) # {}

\* The row of a user is locked by one seeding that rebuilds the demo
Builds(r) == Job(r) \in Seedings /\ pc[r] = "build" /\ run[r].user # None
Apart == \A r, s \in Runs : Builds(r) /\ Builds(s) /\ run[r].user = run[s].user => r = s

Known == \A r \in Runs : Open(r) => Facts(r, pc[r], run[r])

IInv == Tabled /\ Counted /\ Peopled /\ Apart /\ Known

-----------------------------------------------------------------------------
(* Identifiers and counts *)

\* A set of numbers has a least one.
LEMMA Least == ASSUME NEW T \in SUBSET Nat, T # {} PROVE \E m \in T : \A t \in T : m <= t
<1> DEFINE R == OpToRel(<, Nat)
<1>1. IsWellFoundedOn(R, Nat)
  BY NatLessThanWellFounded
<1>2. \A x, y \in Nat : x < y => <<x, y>> \in R
  BY DEF OpToRel
<1>3. PICK m \in T : \A y \in T : ~(<<y, m>> \in R)
  BY <1>1, WFMin
<1>4. ASSUME NEW t \in T PROVE m <= t
  <2>1. m \in Nat /\ t \in Nat /\ ~(t < m)
    BY <1>2, <1>3
  <2> QED
    BY <2>1
<1> QED
  BY <1>3, <1>4

\* While fewer identifiers are in use than runs and requests are allowed, there is a fresh
\* one.
LEMMA FreshIds ==
    ASSUME NEW S, IsFiniteSet(S), Cardinality(S) < Budget
    PROVE  Fresh(S) \in Ids /\ Fresh(S) \notin S
<1>1. Budget \in Nat /\ Cardinality(S) \in Nat
  BY BoundsAssumption, FS_CardinalityType
<1>2. IsFiniteSet(Ids) /\ Cardinality(Ids) = Budget
  <2>1. Cardinality(1..Budget) = Budget
    <3>1. Cardinality(1..Budget) = IF 1 > Budget THEN 0 ELSE Budget - 1 + 1
      BY <1>1, FS_Interval
    <3> QED
      BY <1>1, <3>1
  <2> QED
    BY <1>1, <2>1, FS_Interval DEF Ids
<1>3. ~(Ids \subseteq S)
  <2>1. Ids \subseteq S => Cardinality(Ids) <= Cardinality(S)
    BY FS_Subset
  <2> QED
    BY <1>1, <1>2, <2>1
<1>4. Ids \ S # {} /\ Ids \ S \in SUBSET Nat
  BY <1>1, <1>3 DEF Ids
<1>5. PICK i \in Ids \ S : \A j \in Ids \ S : i <= j
  BY <1>4, Least
<1>6. \E j \in Ids : j \notin S /\ \A l \in Ids \ S : j <= l
  BY <1>5
<1> QED
  BY <1>6 DEF Fresh

\* A set that has at most one element more.
LEMMA CountGrows ==
    ASSUME NEW S, IsFiniteSet(S), NEW x, NEW T, T \subseteq S \cup {x}
    PROVE  IsFiniteSet(T) /\ Cardinality(T) \in Nat /\ Cardinality(S) \in Nat /\ Cardinality(T) <= Cardinality(S) + 1
<1>1. IsFiniteSet(S \cup {x}) /\ Cardinality(S) \in Nat
      /\ Cardinality(S \cup {x}) = IF x \in S THEN Cardinality(S) ELSE Cardinality(S) + 1
  BY FS_AddElement, FS_CardinalityType
<1>2. IsFiniteSet(T) /\ Cardinality(T) <= Cardinality(S \cup {x}) /\ Cardinality(T) \in Nat
  BY <1>1, FS_Subset, FS_CardinalityType
<1> QED
  BY <1>1, <1>2

\* A set that has no element more, or one of them less.
LEMMA CountShrinks ==
    ASSUME NEW S, IsFiniteSet(S), NEW T, T \subseteq S
    PROVE  /\ IsFiniteSet(T) /\ Cardinality(T) \in Nat /\ Cardinality(S) \in Nat
           /\ Cardinality(T) <= Cardinality(S)
           /\ \A x \in S : T \subseteq S \ {x} => Cardinality(T) <= Cardinality(S) - 1
<1>1. IsFiniteSet(T) /\ Cardinality(T) <= Cardinality(S) /\ Cardinality(T) \in Nat /\ Cardinality(S) \in Nat
  BY FS_Subset, FS_CardinalityType
<1>2. ASSUME NEW x \in S, T \subseteq S \ {x} PROVE Cardinality(T) <= Cardinality(S) - 1
  <2>1. IsFiniteSet(S \ {x}) /\ Cardinality(S \ {x}) = Cardinality(S) - 1
    BY FS_RemoveElement
  <2> QED
    BY <1>2, <2>1, FS_Subset
<1> QED
  BY <1>1, <1>2

\* The rows in use are finitely many.
LEMMA UsedFinite == ASSUME IInv PROVE IsFiniteSet(Used) /\ IsFiniteSet(DOMAIN users)
<1>1. IsFiniteSet(Ids)
  BY BoundsAssumption, FS_Interval DEF Ids
<1> QED
  BY <1>1, FS_Subset DEF IInv, Tabled, Used

-----------------------------------------------------------------------------
(* Records *)

\* The prices a refresh has got, for some of the pairs.
Gots == UNION {[D -> Prices] : D \in SUBSET Pairs}

\* What a refresh has got is a price for each of some pairs, and any such function will do.
LEMMA GotPrices ==
    /\ \A g \in Gots : g = [p \in DOMAIN g |-> g[p]] /\ DOMAIN g \subseteq Pairs /\ \A p \in DOMAIN g : g[p] \in Prices
    /\ \A D \in SUBSET Pairs : \A g \in [D -> Prices] : g \in Gots
<1>1. ASSUME NEW g \in Gots
      PROVE  g = [p \in DOMAIN g |-> g[p]] /\ DOMAIN g \subseteq Pairs /\ \A p \in DOMAIN g : g[p] \in Prices
  <2>1. PICK D \in SUBSET Pairs : g \in [D -> Prices]
    BY DEF Gots
  <2> QED
    BY <2>1
<1>2. \A D \in SUBSET Pairs : \A g \in [D -> Prices] : g \in Gots
  BY DEF Gots
<1> QED
  BY <1>1, <1>2

\* A record of a refresh, field by field.
LEMMA RefreshFields ==
    RefreshRuns = [todo : SUBSET Pairs, tries : 0..1, got : Gots, fx : Quotes \cup {None}, since : Quotes]
BY DEF RefreshRuns, Gots

\* The record of a run is not None, and its fields are of their types.
LEMMA FitsTypes ==
    ASSUME NEW s, NEW n, NEW k, Fits(s, n, k)
    PROVE  /\ k # None /\ k \in Records /\ s \in Stages
           /\ n = "refresh_usd_krw" => k \in RateRuns
           /\ n \in Refreshs => k \in RefreshRuns
           /\ n \in Seedings => k \in SeedingRuns
BY NoneAssumption DEF Fits, Records, Stages, Refreshs, Seedings

-----------------------------------------------------------------------------
(* A run that moves *)

\* What is known of a run stays known while nobody changes the data, or when the market
\* moves.
LEMMA FactsKept ==
    ASSUME NEW q, NEW h, NEW k, Facts(q, h, k),
           UNCHANGED <<rate, price, users, households>>,
           quote \in Quotes, quote' \in Quotes, quote <= quote',
           q \notin crossed' => q \notin crossed
    PROVE  Facts(q, h, k)'
<1>0. Fits(h, Job(q), k)
  BY DEF Facts
<1>1. ASSUME Job(q) \in Refreshs PROVE Quoted(q, k)'
  <2>1. k \in RefreshRuns
    BY <1>0, <1>1, FitsTypes
  <2>2. k.since \in Int /\ k.got \in Gots
    BY <2>1, RefreshFields DEF Quotes
  <2>3. \A p \in DOMAIN k.got : k.got[p].at \in Int
    BY <2>2, GotPrices DEF Prices, Quotes
  <2>4. quote \in Int /\ quote' \in Int
    BY DEF Quotes
  <2>5. Quoted(q, k)
    BY <1>1 DEF Facts
  <2> QED
    BY <2>2, <2>3, <2>4, <2>5 DEF Quoted
<1>2. ASSUME Job(q) \in Seedings, h \in {"purge", "build"} PROVE Read(q, h, k)'
  <2>1. Read(q, h, k)
    BY <1>2 DEF Facts
  <2>2. Owned(k.user)' = Owned(k.user)
    BY DEF Owned
  <2> QED
    BY <2>1, <2>2 DEF Read
<1> QED
  BY <1>0, <1>1, <1>2 DEF Facts, Job, Fits

\* The budget pays for the run that starts to read.
LEMMA StartCounted ==
    ASSUME IInv, NEW r \in Runs, NEW s, pc' = [pc EXCEPT ![r] = s], UNCHANGED <<users, households, content, visit>>,
           \/ left > 0 /\ left' = left - 1
           \/ left' = left /\ (s \in Reading => pc[r] \in Reading)
    PROVE  Counted'
<1>1. pc \in [Runs -> Stages \cup {"idle", "alert"}] /\ left \in 0..Budget /\ Budget \in Nat
  BY BoundsAssumption DEF IInv, Tabled
<1>2. Seeders' \subseteq Seeders \cup {r} /\ (left' = left => Seeders' \subseteq Seeders)
  BY <1>1 DEF Seeders
<1>3. IsFiniteSet(Seeders)
  BY DEF IInv, Counted
<1>4. IsFiniteSet(Seeders') /\ Cardinality(Seeders') \in Nat /\ Cardinality(Seeders) \in Nat
      /\ Cardinality(Seeders') <= Cardinality(Seeders) + 1
      /\ (left' = left => Cardinality(Seeders') <= Cardinality(Seeders))
  <2>1. IsFiniteSet(Seeders') /\ Cardinality(Seeders') \in Nat /\ Cardinality(Seeders) \in Nat
        /\ Cardinality(Seeders') <= Cardinality(Seeders) + 1
    BY <1>2, <1>3, CountGrows
  <2>2. ASSUME left' = left PROVE Cardinality(Seeders') <= Cardinality(Seeders)
    BY <1>2, <1>3, <2>2, CountShrinks
  <2> QED
    BY <2>1, <2>2
<1>5. Cardinality(Used) \in Nat /\ Cardinality(DOMAIN users) \in Nat
  BY UsedFinite, FS_CardinalityType
<1>6. Used' = Used /\ Visited' = Visited /\ Visited \in 0..1 /\ (DOMAIN users)' = DOMAIN users
  BY DEF Used, Visited
<1>7. /\ Cardinality(Used) + Cardinality(Seeders) + Visited <= Budget - left
      /\ Cardinality(DOMAIN users) + Cardinality(Seeders) <= Budget - left
  BY DEF IInv, Counted
<1>8. Cardinality(Used') = Cardinality(Used) /\ Cardinality((DOMAIN users)') = Cardinality(DOMAIN users)
  BY <1>6
<1> QED
  BY <1>1, <1>4, <1>5, <1>6, <1>7, <1>8 DEF Counted

\* A step of one run that leaves the data alone: it begins to read, or goes on, or ends.
LEMMA RunSteps ==
    ASSUME IInv, NEW r \in Runs, NEW s \in Stages \cup {"idle", "alert"}, NEW k,
           pc' = [pc EXCEPT ![r] = s], run' = [run EXCEPT ![r] = k], UNCHANGED <<Data, Rest>>,
           \/ left > 0 /\ left' = left - 1 /\ crossed' = crossed \ {r}
           \/ left' = left /\ crossed' = crossed /\ (s \in Reading => pc[r] \in Reading),
           s \in {"idle", "alert"} => k = None,
           s \notin {"idle", "alert"} => Facts(r, s, k)',
           Job(r) \in Seedings /\ s = "build" /\ k.user # None =>
             \A q \in Runs \ {r} : ~(Builds(q) /\ run[q].user = k.user)
    PROVE  IInv'
<1>0. UNCHANGED <<rate, price, users, households, content, quote, visit, twins>>
  BY DEF Data, Demo, Rest
<1>1. pc \in [Runs -> Stages \cup {"idle", "alert"}] /\ run \in [Runs -> Records \cup {None}]
      /\ left \in 0..Budget /\ Budget \in Nat /\ crossed \subseteq Runs
  BY BoundsAssumption DEF IInv, Tabled
<1>2. k \in Records \cup {None}
  <2>1. CASE s \in {"idle", "alert"}
    BY <2>1
  <2>2. CASE s \notin {"idle", "alert"}
    <3>1. Fits(s, Job(r), k)
      BY <2>2 DEF Facts, Fits, Job
    <3> QED
      BY <3>1, FitsTypes
  <2> QED
    BY <2>1, <2>2
<1>3. Tabled'
  <2>1. pc' \in [Runs -> Stages \cup {"idle", "alert"}] /\ run' \in [Runs -> Records \cup {None}]
    BY <1>1, <1>2
  <2>2. \A q \in Runs : ~Open(q)' => run'[q] = None
    BY <1>1 DEF Open, IInv, Tabled
  <2>3. left' \in 0..Budget /\ crossed' \subseteq Runs
    BY <1>1
  <2>4. (visit \in Visits \cup {None})'
    BY <1>0 DEF Visits, IInv, Tabled
  <2> QED
    BY <1>0, <2>1, <2>2, <2>3, <2>4 DEF IInv, Tabled
<1>4. Counted'
  BY <1>0, StartCounted
<1>5. Peopled'
  BY <1>0 DEF IInv, Peopled, Owned
<1>6. Apart'
  <2> SUFFICES ASSUME NEW q \in Runs, NEW p \in Runs, Builds(q)', Builds(p)', run'[q].user = run'[p].user, p # q
               PROVE  FALSE
    BY DEF Apart
  <2>1. \A v \in Runs \ {r} : pc'[v] = pc[v] /\ run'[v] = run[v]
    BY <1>1
  <2>2. pc'[r] = s /\ run'[r] = k
    BY <1>1
  <2>3. \A v \in Runs \ {r} : Builds(v)' => Builds(v)
    BY <2>1 DEF Builds, Job
  <2>4. Builds(r)' => Job(r) \in Seedings /\ s = "build" /\ k.user # None
    BY <2>2 DEF Builds, Job
  <2>5. CASE q # r /\ p # r
    BY <2>1, <2>3, <2>5 DEF IInv, Apart
  <2>6. CASE q = r
    BY <2>1, <2>2, <2>3, <2>4, <2>6
  <2>7. CASE p = r
    BY <2>1, <2>2, <2>3, <2>4, <2>7
  <2> QED
    BY <2>5, <2>6, <2>7
<1>7. Known'
  <2> SUFFICES ASSUME NEW q \in Runs, Open(q)' PROVE Facts(q, pc[q], run[q])'
    BY DEF Known
  <2>1. CASE q = r
    <3>1. pc'[r] = s /\ run'[r] = k
      BY <1>1
    <3>2. Facts(r, s, k)'
      BY <2>1, <3>1 DEF Open
    <3> QED
      BY <2>1, <3>1, <3>2 DEF Facts, Quoted, Read, Owned
  <2>2. CASE q # r
    <3>1. PICK h, j : h = pc[q] /\ j = run[q] /\ h = pc'[q] /\ j = run'[q]
      BY <1>1, <2>2
    <3>2. Facts(q, h, j)
      BY <3>1 DEF IInv, Known, Open
    <3>3. q \notin crossed' => q \notin crossed
      BY <2>2
    <3>4. quote \in Quotes /\ quote' = quote /\ quote <= quote
      BY <1>0 DEF IInv, Tabled, Quotes
    <3>5. Facts(q, h, j)'
      BY <1>0, <3>2, <3>3, <3>4, FactsKept
    <3> QED
      BY <3>1, <3>5 DEF Facts, Quoted, Read, Owned
  <2> QED
    BY <2>1, <2>2
<1> QED
  BY <1>3, <1>4, <1>5, <1>6, <1>7 DEF IInv

\* A run that ends without writing, by an answer, a rollback or a death that is noticed.
LEMMA FinishSteps ==
    ASSUME IInv, NEW r \in Runs, NEW s \in {"idle", "alert"}, Goto(r, s, None), UNCHANGED <<Data, Rest, crossed>>
    PROVE  IInv'
<1>1. s \in Stages \cup {"idle", "alert"} /\ s \notin Reading /\ s # "build" /\ s \in {"idle", "alert"}
  BY DEF Reading
<1>2. pc' = [pc EXCEPT ![r] = s] /\ run' = [run EXCEPT ![r] = None] /\ left' = left
  BY DEF Goto
<1> QED
  BY <1>1, <1>2, RunSteps

\* A run that goes on, and what it knows then.
LEMMA GotoSteps ==
    ASSUME IInv, NEW r \in Runs, NEW s \in Stages, NEW k, Goto(r, s, k), UNCHANGED <<Data, Rest, crossed>>,
           s \in Reading => pc[r] \in Reading,
           Facts(r, s, k)',
           Job(r) \in Seedings /\ s = "build" /\ k.user # None =>
             \A q \in Runs \ {r} : ~(Builds(q) /\ run[q].user = k.user)
    PROVE  IInv'
<1>1. s \in Stages \cup {"idle", "alert"} /\ s \notin {"idle", "alert"}
  BY DEF Stages
<1>2. pc' = [pc EXCEPT ![r] = s] /\ run' = [run EXCEPT ![r] = k] /\ left' = left
  BY DEF Goto
<1> QED
  BY <1>1, <1>2, RunSteps

\* A run that begins.
LEMMA BeginSteps ==
    ASSUME IInv, NEW r \in Runs, NEW s \in Stages, s # "build", NEW k, Begin(r, s, k), Facts(r, s, k)'
    PROVE  IInv'
<1>1. s \in Stages \cup {"idle", "alert"} /\ s \notin {"idle", "alert"}
  BY DEF Stages
<1>2. pc' = [pc EXCEPT ![r] = s] /\ run' = [run EXCEPT ![r] = k] /\ left > 0 /\ left' = left - 1
      /\ crossed' = crossed \ {r} /\ UNCHANGED <<Data, Rest>>
  BY DEF Begin
<1> QED
  BY <1>1, <1>2, RunSteps

-----------------------------------------------------------------------------
(* Rates and prices *)

\* A price is a quote and a rate or none.
LEMMA PriceFields == \A p : p \in Prices => p.at \in Quotes /\ p.at \in Int /\ p.fx \in Quotes \cup {None}
BY DEF Prices, Quotes

\* What an open run knows, under names of its own.
LEMMA OpenKnows ==
    ASSUME IInv, NEW r \in Runs, Open(r)
    PROVE  /\ Facts(r, pc[r], run[r]) /\ run[r] # None /\ pc[r] \in Stages
           /\ Job(r) = "refresh_usd_krw" => run[r] \in RateRuns /\ pc[r] \in {"fetch", "commit", "ghost"}
           /\ Job(r) \in Refreshs => run[r] \in RefreshRuns /\ Quoted(r, run[r]) /\ pc[r] \in {"fetch", "write", "commit", "ghost"}
           /\ Job(r) \in Seedings => run[r] \in SeedingRuns /\ pc[r] \in {"ensure", "purge", "build", "ghost"}
           /\ Job(r) \in {"refresh_usd_krw"} \cup Refreshs \cup Seedings
<1>1. Facts(r, pc[r], run[r])
  BY DEF IInv, Known
<1>2. Fits(pc[r], Job(r), run[r])
  BY <1>1 DEF Facts
<1>3. run[r] # None /\ pc[r] \in Stages
  BY <1>2, FitsTypes
<1>4. Job(r) \in {"refresh_usd_krw"} \cup Refreshs \cup Seedings
  BY <1>2 DEF Fits
<1>5. ASSUME Job(r) = "refresh_usd_krw" PROVE run[r] \in RateRuns /\ pc[r] \in {"fetch", "commit", "ghost"}
  BY <1>2, <1>5 DEF Fits, Refreshs, Seedings
<1>6. ASSUME Job(r) \in Refreshs PROVE run[r] \in RefreshRuns /\ Quoted(r, run[r]) /\ pc[r] \in {"fetch", "write", "commit", "ghost"}
  BY <1>1, <1>2, <1>6 DEF Facts, Fits, Refreshs, Seedings
<1>7. ASSUME Job(r) \in Seedings PROVE run[r] \in SeedingRuns /\ pc[r] \in {"ensure", "purge", "build", "ghost"}
  BY <1>2, <1>7 DEF Fits, Refreshs, Seedings
<1> QED
  BY <1>1, <1>3, <1>4, <1>5, <1>6, <1>7

\* What a refresh knows when it goes on with other todos and more attempts, and with other
\* prices, if these are as current as the ones it had.
LEMMA RefreshGoesOn ==
    ASSUME NEW r \in Runs, Job(r) \in Refreshs, NEW k \in RefreshRuns, NEW m \in RefreshRuns, Quoted(r, k),
           NEW s \in {"fetch", "write", "commit"}, UNCHANGED <<rate, price, quote, crossed>>,
           m.fx = k.fx, m.since = k.since,
           m.todo \cup DOMAIN m.got \subseteq k.todo \cup DOMAIN k.got,
           \A p \in DOMAIN m.got :
             \/ p \in DOMAIN k.got /\ m.got[p] = k.got[p]
             \/ m.got[p].at = quote /\ (p \in USPairs => m.got[p].fx = k.fx)
    PROVE  Facts(r, s, m)'
<1>1. Fits(s, Job(r), m)
  BY DEF Fits
<1>2. k.since \in Int /\ k.got \in Gots
  BY RefreshFields DEF Quotes
<1>3. \A p \in DOMAIN m.got : m.got[p].at >= k.since /\ m.got[p].at <= quote
  <2>1. k.since <= quote /\ \A p \in DOMAIN k.got : k.got[p].at >= k.since /\ k.got[p].at <= quote
    BY DEF Quoted
  <2>2. m.got \in Gots
    BY RefreshFields
  <2>3. \A p \in DOMAIN m.got : m.got[p].at \in Int
    BY <2>2, GotPrices, PriceFields
  <2> QED
    BY <1>2, <2>1, <2>3
<1>4. \A p \in DOMAIN m.got \cap USPairs : m.got[p].fx = m.fx
  BY DEF Quoted
<1>5. (m.todo \cup DOMAIN m.got) \cap USPairs # {} => m.fx # None
  BY DEF Quoted
<1>6. r \notin crossed => rate = m.fx /\ \A p \in Pairs : price[p].at <= m.since
  BY DEF Quoted
<1>7. m.since <= quote
  BY DEF Quoted
<1>8. Quoted(r, m)'
  BY <1>3, <1>4, <1>5, <1>6, <1>7 DEF Quoted
<1>9. Job(r) \notin Seedings
  BY DEF Refreshs, Seedings
<1> QED
  BY <1>1, <1>8, <1>9 DEF Facts, Fits, Job

\* The trigger of the exchange rate.
LEMMA StartRateInv == ASSUME IInv, NEW r \in Runs, StartRate(r) PROVE IInv'
<1> DEFINE k == [todo |-> {"USD"}, tries |-> 0, got |-> << >>]
<1>1. Begin(r, "fetch", k) /\ Job(r) = "refresh_usd_krw"
  BY DEF StartRate
<1>2. k \in RateRuns
  BY DEF RateRuns
<1>3. Facts(r, "fetch", k)'
  BY <1>1, <1>2 DEF Facts, Fits, Refreshs, Seedings, Job
<1>4. "fetch" \in Stages /\ "fetch" # "build"
  BY DEF Stages
<1> HIDE DEF k
<1> QED
  BY <1>1, <1>3, <1>4, BeginSteps

\* The trigger of the prices, or a user's request: the rate is read with the pairs, and
\* without one the pairs in dollars are left out.
LEMMA StartRefreshInv == ASSUME IInv, NEW r \in Runs, StartRefresh(r) PROVE IInv'
<1>1. PICK wanted : /\ wanted \subseteq Pairs /\ Job(r) \in Refreshs
                    /\ Begin(r, IF Eligible(wanted) = {} THEN "commit" ELSE "fetch",
                             [todo |-> Eligible(wanted), tries |-> 0, got |-> << >>, fx |-> rate, since |-> quote])
  <2>1. \A w : w = (CASE Job(r) = "refresh_kr_prices" -> KRPairs
                      [] Job(r) = "refresh_us_prices" -> USPairs
                      [] Job(r) = "manual"            -> Pairs) /\ Job(r) \in Refreshs => w \subseteq Pairs
    BY DEF Refreshs, Pairs
  <2> QED
    BY <2>1 DEF StartRefresh
<1>2. PICK T : T = Eligible(wanted) /\ T \subseteq Pairs /\ (T \cap USPairs # {} => rate # None)
  BY <1>1 DEF Eligible
<1>3. PICK s : s = (IF T = {} THEN "commit" ELSE "fetch") /\ s \in {"commit", "fetch"} /\ s \in Stages /\ s # "build"
  BY DEF Stages
<1>4. rate \in Quotes \cup {None} /\ quote \in Quotes /\ quote \in Int /\ \A p \in Pairs : price[p].at <= quote
  BY DEF IInv, Tabled, Quotes
<1>5. PICK k : k = [todo |-> T, tries |-> 0, got |-> << >>, fx |-> rate, since |-> quote]
  OBVIOUS
<1>6. k \in RefreshRuns /\ k.todo = T /\ k.got = << >> /\ k.fx = rate /\ k.since = quote
  <2>1. << >> \in [{} -> Prices]
    OBVIOUS
  <2>2. << >> \in Gots
    BY <2>1, GotPrices
  <2> QED
    BY <1>2, <1>4, <1>5, <2>2, RefreshFields
<1>7. Begin(r, s, k)
  BY <1>1, <1>2, <1>3, <1>5
<1>8. UNCHANGED <<rate, price, quote>> /\ r \notin crossed'
  BY <1>7 DEF Begin, Data, Rest
<1>9. Facts(r, s, k)'
  <2>1. Fits(s, Job(r), k)
    BY <1>1, <1>3, <1>6 DEF Fits
  <2>2. DOMAIN k.got = {}
    BY <1>6
  <2>3. Quoted(r, k)'
    BY <1>2, <1>4, <1>6, <1>8, <2>2 DEF Quoted
  <2>4. Job(r) \notin Seedings
    BY <1>1 DEF Refreshs, Seedings
  <2> QED
    BY <2>1, <2>3, <2>4 DEF Facts, Fits, Job
<1> QED
  BY <1>3, <1>7, <1>9, BeginSteps

\* A second attempt after a temporary error.
LEMMA RetryInv == ASSUME IInv, NEW r \in Runs, Retry(r) PROVE IInv'
<1>1. PICK k : k = [run[r] EXCEPT !.tries = 1]
  OBVIOUS
<1>2. Goto(r, "fetch", k) /\ UNCHANGED <<Data, Rest, crossed>> /\ pc[r] = "fetch" /\ Open(r)
  BY <1>1 DEF Retry, Open
<1>3. Job(r) \notin Seedings /\ "fetch" \notin Reading /\ "fetch" \in Stages
  BY <1>2, OpenKnows DEF Reading, Stages
<1>4. Facts(r, "fetch", k)'
  <2>1. CASE Job(r) = "refresh_usd_krw"
    <3>1. run[r] \in RateRuns
      BY <1>2, <2>1, OpenKnows
    <3>2. k \in RateRuns
      BY <1>1, <3>1 DEF RateRuns
    <3> QED
      BY <2>1, <3>2 DEF Facts, Fits, Refreshs, Seedings, Job
  <2>2. CASE Job(r) \in Refreshs
    <3>1. PICK j : j = run[r] /\ j \in RefreshRuns /\ Quoted(r, j)
      BY <1>2, <2>2, OpenKnows
    <3>2. k = [j EXCEPT !.tries = 1]
      BY <1>1, <3>1
    <3>3. k \in RefreshRuns /\ k.todo = j.todo /\ k.got = j.got /\ k.fx = j.fx /\ k.since = j.since
      BY <3>1, <3>2, RefreshFields
    <3>4. UNCHANGED <<rate, price, quote, crossed>>
      BY <1>2 DEF Data, Rest
    <3> QED
      BY <2>2, <3>1, <3>3, <3>4, RefreshGoesOn
  <2> QED
    BY <1>2, <1>3, <2>1, <2>2, OpenKnows
<1> QED
  BY <1>2, <1>3, <1>4, GotoSteps
\* A chunk of pairs is answered, for some of them: the prices got are joined by quotes of
\* the moment.
LEMMA FetchChunkInv == ASSUME IInv, NEW r \in Runs, FetchChunk(r) PROVE IInv'
<1>1. pc[r] = "fetch" /\ Job(r) \in Refreshs /\ Open(r) /\ UNCHANGED <<Data, Rest, crossed>>
  BY DEF FetchChunk, Open
<1>2. PICK k : k = run[r] /\ k \in RefreshRuns /\ Quoted(r, k)
  BY <1>1, OpenKnows
<1>3. PICK C \in Chunks(run[r].todo) : \E ok \in Answered(C) :
         LET rest == run[r].todo \ C
             got  == [p \in DOMAIN run[r].got \cup ok |->
                        IF p \in ok THEN Converted(p, run[r].fx) ELSE run[r].got[p]]
         IN  IF rest # {} THEN Goto(r, "fetch", [run[r] EXCEPT !.todo = rest, !.tries = 0, !.got = got])
             ELSE Goto(r, "write", [run[r] EXCEPT !.todo = DOMAIN got, !.got = got])
  BY DEF FetchChunk
<1>4. PICK ok \in Answered(C) :
         LET rest == run[r].todo \ C
             got  == [p \in DOMAIN run[r].got \cup ok |->
                        IF p \in ok THEN Converted(p, run[r].fx) ELSE run[r].got[p]]
         IN  IF rest # {} THEN Goto(r, "fetch", [run[r] EXCEPT !.todo = rest, !.tries = 0, !.got = got])
             ELSE Goto(r, "write", [run[r] EXCEPT !.todo = DOMAIN got, !.got = got])
  BY <1>3
<1>5. k.todo \subseteq Pairs /\ k.got \in Gots /\ k.fx \in Quotes \cup {None} /\ k.since \in Quotes /\ quote \in Quotes
  BY <1>2, RefreshFields DEF IInv, Tabled
<1>6. C \subseteq k.todo /\ ok \subseteq C
  BY <1>2, <1>3 DEF Chunks, Answered
<1>7. PICK got : got = [p \in DOMAIN k.got \cup ok |-> IF p \in ok THEN Converted(p, k.fx) ELSE k.got[p]]
  OBVIOUS
<1>8. got \in Gots /\ DOMAIN got = DOMAIN k.got \cup ok
  <2>1. DOMAIN k.got \subseteq Pairs /\ \A p \in DOMAIN k.got : k.got[p] \in Prices
    BY <1>5, GotPrices
  <2>2. \A p \in ok : Converted(p, k.fx) \in Prices
    BY <1>5 DEF Converted, Prices
  <2>3. PICK D : D = DOMAIN k.got \cup ok /\ D \in SUBSET Pairs
    BY <1>5, <1>6, <2>1
  <2>4. got \in [D -> Prices]
    BY <1>7, <2>1, <2>2, <2>3
  <2> QED
    BY <1>7, <2>3, <2>4, GotPrices
<1>9. \A p \in DOMAIN got : \/ p \in DOMAIN k.got /\ got[p] = k.got[p]
                            \/ got[p].at = quote /\ (p \in USPairs => got[p].fx = k.fx)
  BY <1>7, <1>8 DEF Converted
<1>10. PICK s, m : /\ Goto(r, s, m) /\ s \in {"fetch", "write"} /\ m \in RefreshRuns
                  /\ m.fx = k.fx /\ m.since = k.since /\ m.got = got /\ m.todo \cup DOMAIN got \subseteq k.todo \cup DOMAIN k.got
  <2>1. CASE k.todo \ C # {}
    <3>1. PICK T, m : T = k.todo \ C /\ T \in SUBSET Pairs /\ m = [k EXCEPT !.todo = T, !.tries = 0, !.got = got]
      BY <1>5
    <3>2. Goto(r, "fetch", m)
      BY <1>2, <1>4, <1>7, <2>1, <3>1
    <3>3. m \in RefreshRuns /\ m.fx = k.fx /\ m.since = k.since /\ m.got = got /\ m.todo = T
      <4>1. k = [todo |-> k.todo, tries |-> k.tries, got |-> k.got, fx |-> k.fx, since |-> k.since]
        BY <1>2, RefreshFields
      <4>2. m = [todo |-> T, tries |-> 0, got |-> got, fx |-> k.fx, since |-> k.since]
        BY <3>1, <4>1
      <4> QED
        BY <1>5, <1>8, <3>1, <4>2, RefreshFields
    <3> QED
      BY <1>6, <1>8, <3>1, <3>2, <3>3
  <2>2. CASE ~(k.todo \ C # {})
    <3>1. PICK m : m = [k EXCEPT !.todo = DOMAIN got, !.got = got]
      OBVIOUS
    <3>2. Goto(r, "write", m)
      BY <1>2, <1>4, <1>7, <2>2, <3>1
    <3>3. DOMAIN got \subseteq Pairs
      BY <1>8, GotPrices
    <3>4. m \in RefreshRuns /\ m.fx = k.fx /\ m.since = k.since /\ m.got = got /\ m.todo = DOMAIN got
      BY <1>2, <1>5, <1>8, <3>1, <3>3, RefreshFields
    <3> QED
      BY <1>6, <1>8, <3>2, <3>4
  <2> QED
    BY <2>1, <2>2
<1>11. Facts(r, s, m)'
  <2>1. UNCHANGED <<rate, price, quote, crossed>>
    BY <1>1 DEF Data, Rest
  <2> QED
    BY <1>1, <1>2, <1>9, <1>10, <2>1, RefreshGoesOn
<1>12. s \in Stages /\ s \notin Reading /\ s # "build"
  BY <1>10 DEF Stages, Reading
<1> QED
  BY <1>1, <1>10, <1>11, <1>12, GotoSteps

\* The exchange rate is answered, or not.
LEMMA FetchRateInv == ASSUME IInv, NEW r \in Runs, FetchRate(r) PROVE IInv'
<1>1. pc[r] = "fetch" /\ Job(r) = "refresh_usd_krw" /\ Open(r) /\ UNCHANGED <<Data, Rest, crossed>>
  BY DEF FetchRate, Open
<1>2. run[r] \in RateRuns /\ quote \in Quotes
  BY <1>1, OpenKnows DEF IInv, Tabled
<1>3. PICK k : Goto(r, "commit", k) /\ k \in RateRuns
  <2>1. [run[r] EXCEPT !.todo = {}] \in RateRuns /\ [run[r] EXCEPT !.todo = {}, !.got = <<quote>>] \in RateRuns
    BY <1>2 DEF RateRuns
  <2> QED
    BY <2>1 DEF FetchRate
<1>4. Facts(r, "commit", k)' /\ "commit" \in Stages /\ "commit" \notin Reading /\ "commit" # "build"
  BY <1>1, <1>3 DEF Facts, Fits, Refreshs, Seedings, Job, Stages, Reading
<1> QED
  BY <1>1, <1>3, <1>4, GotoSteps

\* A price is written, or all of them are.
LEMMA WriteInv == ASSUME IInv, NEW r \in Runs, Write(r) PROVE IInv'
<1>1. pc[r] = "write" /\ Open(r) /\ UNCHANGED <<Data, Rest, crossed>>
  BY DEF Write, Open
<1>2. Job(r) \in Refreshs
  BY <1>1, OpenKnows
<1>3. PICK k : k = run[r] /\ k \in RefreshRuns /\ Quoted(r, k)
  BY <1>1, <1>2, OpenKnows
<1>4. k.todo \subseteq Pairs
  BY <1>3, RefreshFields
<1>5. PICK s, m : /\ Goto(r, s, m) /\ s \in {"write", "commit"} /\ m \in RefreshRuns
                  /\ m.fx = k.fx /\ m.since = k.since /\ m.got = k.got /\ m.todo \subseteq k.todo
  <2>1. CASE k.todo = {}
    BY <1>3, <2>1 DEF Write
  <2>2. CASE k.todo # {}
    <3>1. PICK p : Goto(r, "write", [k EXCEPT !.todo = @ \ {p}])
      BY <1>3, <2>2 DEF Write
    <3>2. PICK m : m = [k EXCEPT !.todo = @ \ {p}]
      OBVIOUS
    <3>3. m \in RefreshRuns /\ m.fx = k.fx /\ m.since = k.since /\ m.got = k.got /\ m.todo \subseteq k.todo
      BY <1>3, <1>4, <3>2, RefreshFields
    <3> QED
      BY <3>1, <3>2, <3>3
  <2> QED
    BY <2>1, <2>2
<1>6. Facts(r, s, m)'
  <2>1. UNCHANGED <<rate, price, quote, crossed>>
    BY <1>1 DEF Data, Rest
  <2>2. m.todo \cup DOMAIN m.got \subseteq k.todo \cup DOMAIN k.got /\ \A p \in DOMAIN m.got : p \in DOMAIN k.got /\ m.got[p] = k.got[p]
    BY <1>5
  <2> QED
    BY <1>2, <1>3, <1>5, <2>1, <2>2, RefreshGoesOn
<1>7. s \in Stages /\ s \notin Reading /\ s # "build"
  BY <1>5 DEF Stages, Reading
<1> QED
  BY <1>1, <1>5, <1>6, <1>7, GotoSteps

-----------------------------------------------------------------------------
(* Ends without a commit *)

\* A query fails, or a deadlock is broken.
LEMMA FailInv == ASSUME IInv, NEW r \in Runs, Fail(r) PROVE IInv'
<1>1. UNCHANGED <<Data, Rest, crossed>>
  BY DEF Fail, Finish, Rest
<1>2. PICK s \in {"idle", "alert"} : Goto(r, s, None)
  BY DEF Fail, Finish
<1> QED
  BY <1>1, <1>2, FinishSteps

\* The alert is sent, or the server notices that the process is dead.
LEMMA EndInv == ASSUME IInv, NEW r \in Runs, Alert(r) \/ Reap(r) PROVE IInv'
<1>1. UNCHANGED <<Data, Rest, crossed>> /\ Goto(r, "idle", None)
  BY DEF Alert, Reap, Finish, Rest
<1> QED
  BY <1>1, FinishSteps

\* A process dies: its transactions are ghosts, which read and write no more.
LEMMA CrashInv == ASSUME IInv, NEW i \in Instances, Crash(i) PROVE IInv'
<1>0. UNCHANGED <<run, rate, price, users, households, content, quote, visit, twins, crossed>> /\ left > 0 /\ left' = left - 1
  BY DEF Crash, Data, Demo, Rest
<1>1. pc' = [r \in Runs |-> IF r[1] # i THEN pc[r] ELSE IF Open(r) THEN "ghost" ELSE "idle"]
  BY DEF Crash
<1>2. \A r \in Runs : /\ pc'[r] = pc[r] \/ (Open(r) /\ pc'[r] = "ghost") \/ (~Open(r) /\ pc'[r] = "idle")
                      /\ pc[r] \in Stages \cup {"idle", "alert"}
                      /\ run'[r] = run[r]
  BY <1>0, <1>1 DEF IInv, Tabled
<1>3. left \in 0..Budget /\ Budget \in Nat /\ left' \in 0..Budget
  BY <1>0, BoundsAssumption DEF IInv, Tabled
<1>4. Tabled'
  <2>1. pc' \in [Runs -> Stages \cup {"idle", "alert"}]
    BY <1>1, <1>2 DEF Stages
  <2>2. \A r \in Runs : ~Open(r)' => run'[r] = None
    BY <1>2 DEF Open, IInv, Tabled
  <2>3. (visit \in Visits \cup {None})'
    BY <1>0 DEF Visits, IInv, Tabled
  <2> QED
    BY <1>0, <1>3, <2>1, <2>2, <2>3 DEF IInv, Tabled
<1>5. Counted'
  <2>1. Seeders' \subseteq Seeders
    BY <1>2 DEF Seeders, Reading
  <2>2. IsFiniteSet(Seeders)
    BY DEF IInv, Counted
  <2>3. IsFiniteSet(Seeders') /\ Cardinality(Seeders') \in Nat /\ Cardinality(Seeders) \in Nat /\ Cardinality(Seeders') <= Cardinality(Seeders)
    BY <2>1, <2>2, CountShrinks
  <2>4. Cardinality(Used) \in Nat /\ Cardinality(DOMAIN users) \in Nat
    BY UsedFinite, FS_CardinalityType
  <2>5. Used' = Used /\ Visited' = Visited /\ Visited \in 0..1 /\ (DOMAIN users)' = DOMAIN users
    BY <1>0 DEF Used, Visited
  <2>6. /\ Cardinality(Used) + Cardinality(Seeders) + Visited <= Budget - left
        /\ Cardinality(DOMAIN users) + Cardinality(Seeders) <= Budget - left
    BY DEF IInv, Counted
  <2>7. Cardinality(Used') = Cardinality(Used) /\ Cardinality((DOMAIN users)') = Cardinality(DOMAIN users)
    BY <2>5
  <2> QED
    BY <1>0, <1>3, <2>3, <2>4, <2>5, <2>6, <2>7 DEF Counted
<1>6. Peopled'
  BY <1>0 DEF IInv, Peopled, Owned
<1>7. Apart'
  <2>1. \A r \in Runs : Builds(r)' => Builds(r)
    BY <1>0, <1>2 DEF Builds, Job
  <2> QED
    BY <1>0, <2>1 DEF IInv, Apart
<1>8. Known'
  <2> SUFFICES ASSUME NEW r \in Runs, Open(r)' PROVE Facts(r, pc[r], run[r])'
    BY DEF Known
  <2>1. PICK h, j, s : h = pc[r] /\ j = run[r] /\ j = run'[r] /\ s = pc'[r]
    BY <1>2
  <2>2. Open(r) /\ (s = h \/ s = "ghost")
    BY <1>2, <2>1 DEF Open
  <2>3. Facts(r, h, j)
    BY <2>1, <2>2, OpenKnows
  <2>4. Facts(r, s, j)
    <3>1. CASE s = h
      BY <2>3, <3>1
    <3>2. CASE s = "ghost"
      BY <2>3, <3>2 DEF Facts, Fits
    <3> QED
      BY <2>2, <3>1, <3>2
  <2>5. quote \in Quotes /\ quote' = quote /\ quote <= quote
    BY <1>0 DEF IInv, Tabled, Quotes
  <2>6. Facts(r, s, j)'
    BY <1>0, <2>4, <2>5, FactsKept
  <2> QED
    BY <2>1, <2>6 DEF Facts, Quoted, Read, Owned
<1> QED
  BY <1>4, <1>5, <1>6, <1>7, <1>8 DEF IInv

-----------------------------------------------------------------------------
(* Seedings before they commit *)

\* The bootstrap, or the trigger of the reset.
LEMMA StartSeedingInv == ASSUME IInv, NEW r \in Runs, StartSeeding(r) PROVE IInv'
<1>1. PICK k : k = [user |-> None, pristine |-> FALSE, kill |-> {}, added |-> {}]
  OBVIOUS
<1>2. Begin(r, "ensure", k) /\ Job(r) \in Seedings
  BY <1>1 DEF StartSeeding
<1>3. k \in SeedingRuns /\ k.added = {}
  BY <1>1 DEF SeedingRuns
<1>4. Facts(r, "ensure", k)'
  BY <1>2, <1>3 DEF Facts, Fits, Refreshs, Seedings, Job
<1>5. "ensure" \in Stages /\ "ensure" # "build"
  BY DEF Stages
<1> QED
  BY <1>2, <1>4, <1>5, BeginSteps

\* The users are read: there is one and the run is a reset, or there is none, since every
\* user has a household.
LEMMA EnsureInv == ASSUME IInv, NEW r \in Runs, Ensure(r) PROVE IInv'
<1>1. pc[r] = "ensure" /\ Open(r) /\ UNCHANGED <<Data, Rest, crossed>>
  BY DEF Ensure, Open
<1>2. Job(r) \in Seedings /\ Facts(r, "ensure", run[r])
  BY <1>1, OpenKnows
<1>3. run[r] \in SeedingRuns /\ run[r].added = {}
  BY <1>2 DEF Facts, Fits, Refreshs, Seedings
<1>4. PICK u \in IF users = << >> THEN {None} ELSE DOMAIN users :
         IF AlreadySeeded(r, u) THEN Goto(r, "idle", None)
         ELSE Goto(r, "purge", [run[r] EXCEPT !.user = u, !.pristine = u # None /\ users[u]])
  BY DEF Ensure
<1>5. DOMAIN users \subseteq Ids /\ None \notin Ids /\ users \in [DOMAIN users -> BOOLEAN]
  BY NoneAssumption, BoundsAssumption DEF IInv, Tabled, Ids
<1>6. (u = None /\ DOMAIN users = {}) \/ (u # None /\ u \in DOMAIN users /\ u \in Ids)
  <2>1. CASE users = << >>
    BY <1>4, <2>1
  <2>2. CASE users # << >>
    BY <1>4, <1>5, <2>2
  <2> QED
    BY <2>1, <2>2
<1>7. CASE AlreadySeeded(r, u)
  BY <1>1, <1>4, <1>7, FinishSteps
<1>8. CASE ~AlreadySeeded(r, u)
  <2>1. PICK b \in BOOLEAN : b = (u # None /\ users[u])
    BY <1>5, <1>6
  <2>2. PICK k : k = [run[r] EXCEPT !.user = u, !.pristine = b]
    OBVIOUS
  <2>3. k \in SeedingRuns /\ k.user = u /\ k.pristine = b /\ k.added = {} /\ k.kill = run[r].kill
    <3>1. run[r] = [user |-> run[r].user, pristine |-> run[r].pristine, kill |-> run[r].kill, added |-> run[r].added]
      BY <1>3 DEF SeedingRuns
    <3>2. k = [user |-> u, pristine |-> b, kill |-> run[r].kill, added |-> run[r].added]
      BY <2>2, <3>1
    <3> QED
      BY <1>3, <1>6, <2>1, <3>2 DEF SeedingRuns
  <2>4. Goto(r, "purge", k)
    BY <1>4, <1>8, <2>1, <2>2
  <2>5. Job(r) = "bootstrap_demo" => u = None
    BY <1>6, <1>8 DEF AlreadySeeded, IInv, Peopled
  <2>6. UNCHANGED <<users, households, crossed>>
    BY <1>1 DEF Data, Demo
  <2>7. Read(r, "purge", k)'
    BY <1>6, <2>1, <2>3, <2>5, <2>6 DEF Read
  <2>8. Facts(r, "purge", k)'
    BY <1>2, <2>3, <2>7 DEF Facts, Fits, Refreshs, Seedings, Job
  <2>9. "purge" \in Stages /\ "purge" # "build" /\ pc[r] \in Reading
    BY <1>1 DEF Stages, Reading
  <2> QED
    BY <1>1, <2>4, <2>8, <2>9, GotoSteps
<1> QED
  BY <1>7, <1>8

\* The user's row is locked, and the households are read.
LEMMA PurgeInv == ASSUME IInv, NEW r \in Runs, Purge(r) PROVE IInv'
<1>1. pc[r] = "purge" /\ Open(r) /\ UNCHANGED <<Data, Rest, crossed>>
  BY DEF Purge, Open
<1>2. Job(r) \in Seedings /\ Facts(r, "purge", run[r])
  BY <1>1, OpenKnows
<1>3. PICK j : j = run[r] /\ j \in SeedingRuns /\ j.added = {} /\ Read(r, "purge", j)
  BY <1>2 DEF Facts, Fits, Refreshs, Seedings
<1>4. PICK K : K = IF j.user = None THEN {} ELSE Owned(j.user)
  OBVIOUS
<1>5. K \in SUBSET Ids /\ K \subseteq Owned(j.user)
  <2>1. DOMAIN households \subseteq Ids
    BY DEF IInv, Tabled
  <2> QED
    BY <1>4, <2>1 DEF Owned
<1>6. PICK k : k = [j EXCEPT !.kill = K]
  OBVIOUS
<1>7. k \in SeedingRuns /\ k.user = j.user /\ k.pristine = j.pristine /\ k.added = {} /\ k.kill = K
  BY <1>3, <1>5, <1>6 DEF SeedingRuns
<1>8. Goto(r, "build", k) /\ (j.user # None => {s \in Runs \ {r} : Holds(s, j.user)} = {})
  BY <1>3, <1>4, <1>6 DEF Purge, Doomed
<1>9. UNCHANGED <<users, households, crossed>>
  BY <1>1 DEF Data, Demo
<1>10. Owned(None) = {}
  <2>1. households \in [DOMAIN households -> DOMAIN users] /\ DOMAIN users \subseteq Ids
    BY DEF IInv, Tabled
  <2>2. None \notin Ids
    BY NoneAssumption, BoundsAssumption DEF Ids
  <2> QED
    BY <2>1, <2>2 DEF Owned
<1>11. Read(r, "build", k)'
  <2>1. Owned(k.user)' = Owned(k.user)
    BY <1>9 DEF Owned
  <2>2. K = Owned(k.user) /\ (k.user = None => K = {})
    BY <1>4, <1>7, <1>10
  <2> QED
    BY <1>3, <1>7, <1>9, <2>1, <2>2 DEF Read
<1>12. Facts(r, "build", k)'
  BY <1>2, <1>7, <1>11 DEF Facts, Fits, Refreshs, Seedings, Job
<1>13. "build" \in Stages /\ pc[r] \in Reading
  BY <1>1 DEF Stages, Reading
<1>14. ASSUME k.user # None, NEW q \in Runs \ {r} PROVE ~(Builds(q) /\ run[q].user = k.user)
  BY <1>7, <1>8, <1>14 DEF Builds, Holds
<1> QED
  BY <1>1, <1>8, <1>12, <1>13, <1>14, GotoSteps

-----------------------------------------------------------------------------
(* Commits *)

\* A run that has committed is over, and the others stand where they stood.
LEMMA Ends ==
    ASSUME IInv, NEW r \in Runs, Finish(r, "idle")
    PROVE  /\ pc' \in [Runs -> Stages \cup {"idle", "alert"}] /\ run' \in [Runs -> Records \cup {None}]
           /\ \A q \in Runs : ~Open(q)' => run'[q] = None
           /\ \A q \in Runs : Open(q)' => q # r /\ Open(q) /\ pc'[q] = pc[q] /\ run'[q] = run[q]
           /\ UNCHANGED <<quote, visit, left>>
           /\ Seeders' \subseteq Seeders /\ IsFiniteSet(Seeders')
           /\ Cardinality(Seeders') \in Nat /\ Cardinality(Seeders) \in Nat /\ Cardinality(Seeders') <= Cardinality(Seeders)
           /\ r \in Seeders => Cardinality(Seeders') <= Cardinality(Seeders) - 1
           /\ Apart'
<1>1. pc' = [pc EXCEPT ![r] = "idle"] /\ run' = [run EXCEPT ![r] = None] /\ UNCHANGED <<quote, visit, left>>
  BY DEF Finish, Goto
<1>2. pc \in [Runs -> Stages \cup {"idle", "alert"}] /\ run \in [Runs -> Records \cup {None}]
      /\ \A q \in Runs : ~Open(q) => run[q] = None
  BY DEF IInv, Tabled
<1>3. \A q \in Runs : Open(q)' => q # r /\ Open(q) /\ pc'[q] = pc[q] /\ run'[q] = run[q]
  BY <1>1, <1>2 DEF Open
<1>4. \A q \in Runs : ~Open(q)' => run'[q] = None
  BY <1>1, <1>2 DEF Open
<1>5. Seeders' \subseteq Seeders \ {r}
  BY <1>1, <1>2 DEF Seeders, Reading
<1>6. Seeders' \subseteq Seeders
  BY <1>5
<1>7. IsFiniteSet(Seeders)
  BY DEF IInv, Counted
<1>8. /\ IsFiniteSet(Seeders') /\ Cardinality(Seeders') \in Nat /\ Cardinality(Seeders) \in Nat
      /\ Cardinality(Seeders') <= Cardinality(Seeders)
      /\ \A x \in Seeders : Seeders' \subseteq Seeders \ {x} => Cardinality(Seeders') <= Cardinality(Seeders) - 1
  BY <1>6, <1>7, CountShrinks
<1>9. Apart'
  <2>1. \A q \in Runs : Builds(q)' => Builds(q) /\ run'[q] = run[q]
    BY <1>1, <1>2 DEF Builds, Job
  <2> QED
    BY <2>1 DEF IInv, Apart
<1>10. pc' \in [Runs -> Stages \cup {"idle", "alert"}] /\ run' \in [Runs -> Records \cup {None}]
  BY <1>1, <1>2
<1>11. r \in Seeders => Cardinality(Seeders') <= Cardinality(Seeders) - 1
  BY <1>5, <1>8
<1> QED
  BY <1>1, <1>3, <1>4, <1>6, <1>8, <1>9, <1>10, <1>11

\* A new rate, or new prices, leave what the demo is and what seedings know of it.
LEMMA MarketCommits ==
    ASSUME IInv, NEW r \in Runs, Finish(r, "idle"), UNCHANGED <<Demo, twins>>,
           rate' \in Quotes \cup {None}, price' \in [Pairs -> Prices], \A p \in Pairs : price'[p].at <= quote,
           crossed' \subseteq Runs, crossed \subseteq crossed',
           \A s \in Runs \ {r} : Job(s) \in Refreshs /\ Open(s) => s \in crossed'
    PROVE  IInv'
<1>0. UNCHANGED <<users, households, content>>
  BY DEF Demo
<1>1. Tabled'
  <2>1. (visit \in Visits \cup {None})'
    BY <1>0, Ends DEF Visits, IInv, Tabled
  <2> QED
    BY <1>0, <2>1, Ends DEF IInv, Tabled
<1>2. Counted'
  <2>1. Cardinality(Used) \in Nat /\ Cardinality(DOMAIN users) \in Nat
    BY UsedFinite, FS_CardinalityType
  <2>2. Used' = Used /\ Visited' = Visited /\ Visited \in 0..1 /\ (DOMAIN users)' = DOMAIN users
    BY <1>0, Ends DEF Used, Visited
  <2>3. /\ Cardinality(Used) + Cardinality(Seeders) + Visited <= Budget - left
        /\ Cardinality(DOMAIN users) + Cardinality(Seeders) <= Budget - left
        /\ Budget \in Nat /\ left \in 0..Budget
    BY BoundsAssumption DEF IInv, Counted, Tabled
  <2>4. Cardinality(Used') = Cardinality(Used) /\ Cardinality((DOMAIN users)') = Cardinality(DOMAIN users)
    BY <2>2
  <2> QED
    BY <2>1, <2>2, <2>3, <2>4, Ends DEF Counted
<1>3. Peopled'
  BY <1>0 DEF IInv, Peopled, Owned
<1>4. Known'
  <2> SUFFICES ASSUME NEW q \in Runs, Open(q)' PROVE Facts(q, pc[q], run[q])'
    BY DEF Known
  <2>1. q # r /\ Open(q) /\ pc'[q] = pc[q] /\ run'[q] = run[q] /\ quote' = quote
    BY Ends
  <2>2. PICK h, j : h = pc[q] /\ j = run[q] /\ h = pc'[q] /\ j = run'[q]
    BY <2>1
  <2>3. Facts(q, h, j)
    BY <2>1, <2>2, OpenKnows
  <2>4. Job(q) \in Refreshs => Quoted(q, j)'
    BY <2>1, <2>3 DEF Facts, Quoted
  <2>5. Job(q) \in Seedings /\ h \in {"purge", "build"} => Read(q, h, j)'
    <3>1. Owned(j.user)' = Owned(j.user)
      BY <1>0 DEF Owned
    <3> QED
      BY <1>0, <2>3, <3>1 DEF Facts, Read
  <2>6. Facts(q, h, j)'
    BY <2>3, <2>4, <2>5 DEF Facts, Fits, Job
  <2> QED
    BY <2>2, <2>6 DEF Facts, Quoted, Read, Owned
<1> QED
  BY <1>1, <1>2, <1>3, <1>4, Ends DEF IInv

\* Prices are committed.
LEMMA CommitPricesInv == ASSUME IInv, NEW r \in Runs, CommitPrices(r) PROVE IInv'
<1>1. Open(r) /\ Job(r) \in Refreshs /\ Finish(r, "idle") /\ UNCHANGED <<rate, Demo, twins>>
  BY DEF CommitPrices, Open
<1>2. PICK k : k = run[r] /\ k \in RefreshRuns /\ Quoted(r, k)
  BY <1>1, OpenKnows
<1>3. price' = [p \in Pairs |-> IF p \in DOMAIN k.got THEN k.got[p] ELSE price[p]]
  BY <1>2 DEF CommitPrices
<1>4. \A p \in DOMAIN k.got : k.got[p] \in Prices /\ k.got[p].at <= quote
  BY <1>2, GotPrices, RefreshFields DEF Quoted
<1>5. price \in [Pairs -> Prices] /\ (\A p \in Pairs : price[p].at <= quote) /\ rate \in Quotes \cup {None} /\ crossed \subseteq Runs
  BY DEF IInv, Tabled
<1>6. price' \in [Pairs -> Prices] /\ \A p \in Pairs : price'[p].at <= quote
  BY <1>3, <1>4, <1>5
<1>7. crossed' = crossed \cup {s \in Runs \ {r} : Job(s) \in Refreshs /\ Open(s)}
  BY DEF CommitPrices
<1>8. crossed' \subseteq Runs /\ crossed \subseteq crossed' /\ \A s \in Runs \ {r} : Job(s) \in Refreshs /\ Open(s) => s \in crossed'
  BY <1>5, <1>7
<1> QED
  BY <1>1, <1>5, <1>6, <1>8, MarketCommits

\* The rate is committed, if there was an answer.
LEMMA CommitRateInv == ASSUME IInv, NEW r \in Runs, CommitRate(r) PROVE IInv'
<1>1. Open(r) /\ Job(r) = "refresh_usd_krw" /\ Finish(r, "idle") /\ UNCHANGED <<price, Demo, twins>>
  BY DEF CommitRate, Open
<1>2. PICK k : k = run[r] /\ k \in RateRuns
  BY <1>1, OpenKnows
<1>3. rate' = IF k.got = << >> THEN rate ELSE k.got[1]
  BY <1>2 DEF CommitRate
<1>4. k.got = << >> \/ k.got[1] \in Quotes
  BY <1>2 DEF RateRuns
<1>5. price \in [Pairs -> Prices] /\ (\A p \in Pairs : price[p].at <= quote) /\ rate \in Quotes \cup {None} /\ crossed \subseteq Runs
  BY DEF IInv, Tabled
<1>6. crossed' = crossed \cup {s \in Runs : Job(s) \in Refreshs /\ Open(s)}
  BY DEF CommitRate
<1>7. crossed' \subseteq Runs /\ crossed \subseteq crossed' /\ \A s \in Runs \ {r} : Job(s) \in Refreshs /\ Open(s) => s \in crossed'
  BY <1>5, <1>6
<1>8. rate' \in Quotes \cup {None} /\ price' \in [Pairs -> Prices] /\ \A p \in Pairs : price'[p].at <= quote
  BY <1>1, <1>3, <1>4, <1>5
<1> QED
  BY <1>1, <1>7, <1>8, MarketCommits

\* What a seeding is about to commit: its user, known or fresh, and a fresh household.
LEMMA SeedingWrites ==
    ASSUME IInv, NEW r \in Runs, CommitSeeding(r)
    PROVE  \E k, u, w, b :
             /\ k = run[r] /\ k \in SeedingRuns /\ Read(r, "build", k) /\ Job(r) \in Seedings /\ r \in Seeders
             /\ w = NewHousehold /\ w \in Ids /\ w \notin Used
             /\ u \in Ids /\ (IF k.user = None THEN u \notin DOMAIN users ELSE u = k.user /\ u \in DOMAIN users)
             /\ b \in BOOLEAN /\ b = (k.pristine => users[u]) /\ users' = Put(users, u, b)
             /\ households' = Put(Restrict(households, DOMAIN households \ k.kill), w, u)
             /\ content' = Put(Restrict(content, DOMAIN content \ (k.kill \ k.added)), w, "seeded")
<1>1. pc[r] = "build" /\ Open(r)
  BY DEF CommitSeeding, Open
<1>2. Job(r) \in Seedings /\ Facts(r, "build", run[r])
  BY <1>1, OpenKnows
<1>3. PICK k : k = run[r] /\ k \in SeedingRuns /\ Read(r, "build", k)
  BY <1>2 DEF Facts, Fits, Refreshs, Seedings
<1>4. r \in Seeders
  BY <1>1 DEF Seeders, Reading
<1>5. Cardinality(Used) < Budget /\ Cardinality(DOMAIN users) < Budget
  <2>1. Cardinality(Seeders) >= 1
    <3>1. IsFiniteSet(Seeders)
      BY DEF IInv, Counted
    <3>2. Cardinality(Seeders \ {r}) = Cardinality(Seeders) - 1 /\ IsFiniteSet(Seeders \ {r})
      BY <1>4, <3>1, FS_RemoveElement
    <3>3. Cardinality(Seeders \ {r}) \in Nat /\ Cardinality(Seeders) \in Nat
      BY <3>1, <3>2, FS_CardinalityType
    <3> QED
      BY <3>2, <3>3
  <2>2. Cardinality(Used) \in Nat /\ Cardinality(DOMAIN users) \in Nat /\ Cardinality(Seeders) \in Nat
    BY UsedFinite, FS_CardinalityType DEF IInv, Counted
  <2>3. /\ Cardinality(Used) + Cardinality(Seeders) + Visited <= Budget - left
        /\ Cardinality(DOMAIN users) + Cardinality(Seeders) <= Budget - left
        /\ Budget \in Nat /\ left \in 0..Budget /\ Visited \in 0..1
    BY BoundsAssumption DEF IInv, Counted, Tabled, Visited
  <2> QED
    BY <2>1, <2>2, <2>3
<1>6. PICK w : w = NewHousehold /\ w \in Ids /\ w \notin Used
  BY <1>5, UsedFinite, FreshIds DEF NewHousehold, Used
<1>7. PICK u : u = IF k.user = None THEN Fresh(DOMAIN users) ELSE k.user
  OBVIOUS
<1>8. u \in Ids /\ (IF k.user = None THEN u \notin DOMAIN users ELSE u = k.user /\ u \in DOMAIN users)
  <2>1. CASE k.user = None
    BY <1>5, <1>7, <2>1, UsedFinite, FreshIds
  <2>2. CASE k.user # None
    <3>1. k.user \in DOMAIN users /\ DOMAIN users \subseteq Ids
      BY <1>3, <2>2 DEF Read, IInv, Tabled
    <3> QED
      BY <1>7, <2>2, <3>1
  <2> QED
    BY <2>1, <2>2
<1>9. PICK b \in BOOLEAN : b = IF k.pristine THEN users[u] ELSE TRUE
  <2>1. k.pristine \in BOOLEAN /\ (k.pristine => u \in DOMAIN users) /\ users \in [DOMAIN users -> BOOLEAN]
    BY <1>3, <1>8 DEF SeedingRuns, Read, IInv, Tabled
  <2> QED
    BY <2>1
<1>10. /\ users' = Put(users, u, b)
      /\ households' = Put(Restrict(households, DOMAIN households \ k.kill), w, u)
      /\ content' = Put(Restrict(content, DOMAIN content \ (k.kill \ k.added)), w, "seeded")
  BY <1>3, <1>6, <1>7, <1>9 DEF CommitSeeding
<1>11. b = (k.pristine => users[u])
  BY <1>9
<1> QED
  BY <1>2, <1>3, <1>4, <1>6, <1>8, <1>9, <1>10, <1>11

\* The tables after a commit that puts user u and household w and takes K and G away.
Rewritten(u, b, w, K, G) ==
    /\ DOMAIN users' = DOMAIN users \cup {u} /\ DOMAIN users' \subseteq Ids /\ users' \in [DOMAIN users' -> BOOLEAN]
    /\ \A v \in DOMAIN users \ {u} : users'[v] = users[v]
    /\ users'[u] = b
    /\ DOMAIN households' = (DOMAIN households \ K) \cup {w}
    /\ households' \in [DOMAIN households' -> DOMAIN users'] /\ DOMAIN households' \subseteq Ids
    /\ households'[w] = u /\ \A h \in DOMAIN households \ K : households'[h] = households[h]
    /\ DOMAIN content' = (DOMAIN content \ G) \cup {w}
    /\ content' \in [DOMAIN content' -> {"seeded", "touched"}] /\ DOMAIN content' \subseteq Ids
    /\ content'[w] = "seeded"
    /\ Used' \subseteq Used \cup {w}

\* The tables after the commit, row by row.
LEMMA SeedingRows ==
    ASSUME IInv, NEW b \in BOOLEAN, NEW K, NEW G, NEW u \in Ids, NEW w \in Ids, w \notin Used,
           users' = Put(users, u, b),
           households' = Put(Restrict(households, DOMAIN households \ K), w, u),
           content' = Put(Restrict(content, DOMAIN content \ G), w, "seeded")
    PROVE  Rewritten(u, b, w, K, G)
<1>1. /\ users \in [DOMAIN users -> BOOLEAN] /\ DOMAIN users \subseteq Ids
      /\ households \in [DOMAIN households -> DOMAIN users] /\ DOMAIN households \subseteq Ids
      /\ content \in [DOMAIN content -> {"seeded", "touched"}] /\ DOMAIN content \subseteq Ids
  BY DEF IInv, Tabled
<1>2. w \notin DOMAIN households /\ w \notin DOMAIN content
  BY DEF Used
<1>3. /\ DOMAIN users' = DOMAIN users \cup {u}
      /\ \A v \in DOMAIN users \ {u} : users'[v] = users[v]
      /\ users'[u] = b
      /\ users' \in [DOMAIN users' -> BOOLEAN]
  BY <1>1 DEF Put
<1>4. PICK g : g = Restrict(households, DOMAIN households \ K) /\ DOMAIN g = DOMAIN households \ K
               /\ \A h \in DOMAIN g : g[h] = households[h]
  BY DEF Restrict
<1>5. /\ DOMAIN households' = (DOMAIN households \ K) \cup {w} /\ households'[w] = u
      /\ \A h \in DOMAIN households \ K : households'[h] = households[h]
      /\ households' \in [DOMAIN households' -> DOMAIN users']
  <2>1. households' = Put(g, w, u)
    BY <1>4
  <2>2. households' = [j \in (DOMAIN households \ K) \cup {w} |-> IF j = w THEN u ELSE g[j]]
    BY <1>4, <2>1 DEF Put
  <2>3. PICK D : D = (DOMAIN households \ K) \cup {w}
    OBVIOUS
  <2>4. DOMAIN households' = D /\ households'[w] = u /\ \A h \in D \ {w} : households'[h] = g[h]
    BY <2>2, <2>3
  <2>5. \A h \in DOMAIN households \ K : h \in D \ {w} /\ households'[h] = households[h]
    BY <1>2, <1>4, <2>3, <2>4
  <2>6. \A h \in D : households'[h] \in DOMAIN users'
    BY <1>1, <1>3, <2>3, <2>4, <2>5
  <2>7. households' = [h \in D |-> households'[h]]
    BY <2>2, <2>3
  <2> QED
    BY <2>3, <2>4, <2>5, <2>6, <2>7
<1>6. PICK f : f = Restrict(content, DOMAIN content \ G) /\ DOMAIN f = DOMAIN content \ G
               /\ \A h \in DOMAIN f : f[h] = content[h]
  BY DEF Restrict
<1>7. /\ DOMAIN content' = (DOMAIN content \ G) \cup {w} /\ content'[w] = "seeded"
      /\ content' \in [DOMAIN content' -> {"seeded", "touched"}]
  <2>1. content' = Put(f, w, "seeded")
    BY <1>6
  <2>2. content' = [j \in (DOMAIN content \ G) \cup {w} |-> IF j = w THEN "seeded" ELSE f[j]]
    BY <1>6, <2>1 DEF Put
  <2> QED
    BY <1>1, <1>2, <1>6, <2>2
<1>8. Used' \subseteq Used \cup {w}
  BY <1>5, <1>7 DEF Used
<1> QED
  BY <1>1, <1>3, <1>5, <1>7, <1>8 DEF Rewritten

\* A seeding commits: the budget has paid for its rows, every user keeps a household, and
\* what other seedings know still holds, or they have been crossed.
LEMMA CommitSeedingInv == ASSUME IInv, NEW r \in Runs, CommitSeeding(r) PROVE IInv'
<1>1. PICK k, u, w, b :
             /\ k = run[r] /\ k \in SeedingRuns /\ Read(r, "build", k) /\ Job(r) \in Seedings /\ r \in Seeders
             /\ w = NewHousehold /\ w \in Ids /\ w \notin Used
             /\ u \in Ids /\ (IF k.user = None THEN u \notin DOMAIN users ELSE u = k.user /\ u \in DOMAIN users)
             /\ b \in BOOLEAN /\ b = (k.pristine => users[u]) /\ users' = Put(users, u, b)
             /\ households' = Put(Restrict(households, DOMAIN households \ k.kill), w, u)
             /\ content' = Put(Restrict(content, DOMAIN content \ (k.kill \ k.added)), w, "seeded")
  BY SeedingWrites
<1>2. b = (k.pristine => users[u])
  BY <1>1
<1>3. Rewritten(u, b, w, k.kill, k.kill \ k.added)
  BY <1>1, SeedingRows
<1>4. /\ Finish(r, "idle") /\ UNCHANGED <<rate, price>>
      /\ twins' = (twins \/ (run[r].user = None /\ users # << >>))
      /\ crossed' = crossed \cup Overtaken({"build"}, r) \cup {s \in Overtaken({"purge"}, r) : run[s].user = None}
  BY DEF CommitSeeding
<1>5. pc[r] = "build" /\ twins \in BOOLEAN /\ crossed \subseteq Runs /\ visit \in Visits \cup {None}
  BY DEF CommitSeeding, IInv, Tabled
<1>6. Tabled'
  <2>1. (visit \in Visits \cup {None})'
    BY <1>3, <1>4, <1>5, Ends DEF Visits, Rewritten
  <2>2. twins' \in BOOLEAN
    BY <1>4, <1>5
  <2>3. crossed' \subseteq Runs
    BY <1>4, <1>5 DEF Overtaken
  <2>4. (left \in 0..Budget)' /\ (quote \in Quotes)' /\ (rate \in Quotes \cup {None})' /\ (price \in [Pairs -> Prices])'
        /\ (\A p \in Pairs : price[p].at <= quote)'
    BY <1>4, Ends DEF IInv, Tabled
  <2>5. (users \in [DOMAIN users -> BOOLEAN] /\ households \in [DOMAIN households -> DOMAIN users]
         /\ content \in [DOMAIN content -> {"seeded", "touched"}])'
    BY <1>3 DEF Rewritten
  <2> QED
    BY <1>3, <1>4, <2>1, <2>2, <2>3, <2>4, <2>5, Ends DEF Tabled, Rewritten
<1>7. Counted'
  <2>1. IsFiniteSet(Used') /\ Cardinality(Used') \in Nat /\ Cardinality(Used) \in Nat /\ Cardinality(Used') <= Cardinality(Used) + 1
    BY <1>3, UsedFinite, CountGrows DEF Rewritten
  <2>2. Cardinality(DOMAIN users') \in Nat /\ Cardinality(DOMAIN users) \in Nat /\ Cardinality(DOMAIN users') <= Cardinality(DOMAIN users) + 1
    <3>1. DOMAIN users' \subseteq DOMAIN users \cup {u}
      BY <1>3 DEF Rewritten
    <3> QED
      BY <3>1, UsedFinite, CountGrows
  <2>3. /\ Cardinality(Used) + Cardinality(Seeders) + Visited <= Budget - left
        /\ Cardinality(DOMAIN users) + Cardinality(Seeders) <= Budget - left
        /\ Budget \in Nat /\ left \in 0..Budget /\ Visited \in 0..1
    BY BoundsAssumption DEF IInv, Counted, Tabled, Visited
  <2>4. /\ IsFiniteSet(Seeders') /\ Cardinality(Seeders') \in Nat /\ Cardinality(Seeders) \in Nat
        /\ Cardinality(Seeders') <= Cardinality(Seeders) - 1
        /\ left' = left /\ visit' = visit
    BY <1>1, <1>4, Ends
  <2>5. Visited' = Visited
    BY <2>4 DEF Visited
  <2> QED
    BY <2>1, <2>2, <2>3, <2>4, <2>5 DEF Counted
<1>8. k.kill \subseteq Owned(k.user) /\ (k.user = None => k.kill = {})
  BY <1>1 DEF Read
<1>9. \A v \in DOMAIN users \ {u} : \A h \in Owned(v) : h \in DOMAIN households' /\ households'[h] = v
  <2> SUFFICES ASSUME NEW v \in DOMAIN users \ {u}, NEW h \in Owned(v)
               PROVE  h \in DOMAIN households' /\ households'[h] = v
    OBVIOUS
  <2>1. h \in DOMAIN households /\ households[h] = v
    BY DEF Owned
  <2>2. h \notin k.kill
    BY <1>1, <1>8, <2>1 DEF Owned
  <2> QED
    BY <1>3, <2>1, <2>2 DEF Rewritten
<1>10. Peopled'
  <2>1. twins' \/ \A x, y \in DOMAIN users' : x = y
    <3>1. CASE k.user # None
      <4>1. DOMAIN users' = DOMAIN users
        BY <1>1, <1>3, <3>1 DEF Rewritten
      <4>2. twins' = twins
        BY <1>1, <1>4, <1>5, <3>1
      <4> QED
        BY <4>1, <4>2 DEF IInv, Peopled
    <3>2. CASE k.user = None /\ users # << >>
      BY <1>1, <1>4, <3>2
    <3>3. CASE users = << >>
      BY <1>3, <3>3 DEF Rewritten
    <3> QED
      BY <3>1, <3>2, <3>3
  <2>2. ASSUME NEW v \in DOMAIN users' PROVE Owned(v)' # {}
    <3>1. CASE v = u
      BY <1>3, <3>1 DEF Owned, Rewritten
    <3>2. CASE v # u
      <4>1. v \in DOMAIN users \ {u}
        BY <1>3, <3>2 DEF Rewritten
      <4>2. PICK h \in Owned(v) : TRUE
        BY <4>1 DEF IInv, Peopled
      <4> QED
        BY <1>9, <4>1, <4>2 DEF Owned
    <3> QED
      BY <3>1, <3>2
  <2> QED
    BY <2>1, <2>2 DEF Peopled
<1>11. Known'
  <2> SUFFICES ASSUME NEW q \in Runs, Open(q)' PROVE Facts(q, pc[q], run[q])'
    BY DEF Known
  <2>1. q # r /\ Open(q) /\ pc'[q] = pc[q] /\ run'[q] = run[q] /\ quote' = quote
    BY <1>4, Ends
  <2>2. PICK h, j : h = pc[q] /\ j = run[q] /\ h = pc'[q] /\ j = run'[q]
    BY <2>1
  <2>3. Facts(q, h, j)
    BY <2>1, <2>2, OpenKnows
  <2>4. q \notin crossed' => q \notin crossed
    BY <1>4
  <2>5. Job(q) \in Refreshs => Quoted(q, j)'
    BY <1>4, <2>1, <2>3, <2>4 DEF Facts, Quoted
  <2>6. ASSUME Job(q) \in Seedings, h \in {"purge", "build"} PROVE Read(q, h, j)'
    <3>1. Read(q, h, j)
      BY <2>3, <2>6 DEF Facts
    <3>2. h = "build" \/ j.user = None => q \in crossed'
      BY <1>4, <2>1, <2>2, <2>6 DEF Overtaken
    <3>3. j.user # None => j.user \in DOMAIN users'
      BY <1>3, <3>1 DEF Read, Rewritten
    <3>4. ASSUME j.pristine, q \notin crossed' PROVE users'[j.user]
      <4>1. users[j.user] /\ j.user # None /\ j.user \in DOMAIN users
        BY <2>4, <3>1, <3>4 DEF Read
      <4> QED
        BY <1>2, <1>3, <4>1 DEF Rewritten
    <3>5. ASSUME h = "build" PROVE j.kill \subseteq Owned(j.user)' /\ (j.user = None => j.kill = {})
      <4>1. j.kill \subseteq Owned(j.user) /\ (j.user = None => j.kill = {})
        BY <3>1, <3>5 DEF Read
      <4>2. ASSUME j.user # None PROVE j.user \in DOMAIN users \ {u}
        <5>1. j.user \in DOMAIN users
          BY <3>1, <4>2 DEF Read
        <5>2. Builds(q)
          BY <2>2, <2>6, <3>5, <4>2 DEF Builds
        <5>3. k.user # None => Builds(r)
          BY <1>1, <1>5 DEF Builds
        <5>4. k.user # None => k.user # j.user
          BY <1>1, <2>1, <2>2, <5>2, <5>3 DEF IInv, Apart
        <5> QED
          BY <1>1, <5>1, <5>4
      <4>3. j.user # None => j.kill \subseteq Owned(j.user)'
        BY <1>9, <4>1, <4>2 DEF Owned
      <4> QED
        BY <4>1, <4>3
    <3>6. (j.pristine => j.user # None) /\ (Job(q) = "bootstrap_demo" => j.user = None)
      BY <3>1 DEF Read
    <3> QED
      BY <3>2, <3>3, <3>4, <3>5, <3>6 DEF Read, Job
  <2>7. Facts(q, h, j)'
    BY <2>3, <2>5, <2>6 DEF Facts, Fits, Job
  <2> QED
    BY <2>2, <2>7 DEF Facts, Quoted, Read, Owned
<1> QED
  BY <1>4, <1>6, <1>7, <1>10, <1>11, Ends DEF IInv

-----------------------------------------------------------------------------
(* Visitors and the market *)

\* A visitor begins: the budget pays for the row the request may add.
LEMMA StartVisitInv == ASSUME IInv, StartVisit PROVE IInv'
<1>1. /\ visit = None /\ left > 0 /\ left' = left - 1
      /\ UNCHANGED <<pc, run, rate, price, users, households, content, quote, crossed, twins>>
  BY DEF StartVisit, Data, Demo
<1>2. visit' \in Visits
  <2>1. DOMAIN households \subseteq Ids
    BY DEF IInv, Tabled
  <2> QED
    BY <2>1 DEF StartVisit, Visits, Owned
<1>3. left \in 0..Budget /\ Budget \in Nat
  BY BoundsAssumption DEF IInv, Tabled
<1>4. Tabled'
  <2>1. (visit \in Visits \cup {None})'
    BY <1>1, <1>2 DEF Visits
  <2>2. \A r \in Runs : ~Open(r)' => run'[r] = None
    BY <1>1 DEF Open, IInv, Tabled
  <2> QED
    BY <1>1, <1>3, <2>1, <2>2 DEF IInv, Tabled
<1>5. Counted'
  <2>1. Cardinality(Used) \in Nat /\ Cardinality(DOMAIN users) \in Nat /\ Cardinality(Seeders) \in Nat
    BY UsedFinite, FS_CardinalityType DEF IInv, Counted
  <2>2. Used' = Used /\ Visited' \in 0..1 /\ Visited = 0 /\ (DOMAIN users)' = DOMAIN users /\ Seeders' = Seeders
    BY <1>1 DEF Used, Visited, Seeders
  <2>3. /\ Cardinality(Used) + Cardinality(Seeders) + Visited <= Budget - left
        /\ Cardinality(DOMAIN users) + Cardinality(Seeders) <= Budget - left
        /\ IsFiniteSet(Seeders)
    BY DEF IInv, Counted
  <2>4. Cardinality(Used') = Cardinality(Used) /\ Cardinality((DOMAIN users)') = Cardinality(DOMAIN users)
        /\ Cardinality(Seeders') = Cardinality(Seeders) /\ IsFiniteSet(Seeders')
    BY <2>2, <2>3
  <2> QED
    BY <1>1, <1>3, <2>1, <2>2, <2>3, <2>4 DEF Counted
<1>6. Peopled'
  BY <1>1 DEF IInv, Peopled, Owned
<1>7. Apart'
  <2>1. \A r \in Runs : Builds(r)' <=> Builds(r)
    BY <1>1 DEF Builds
  <2> QED
    BY <1>1, <2>1 DEF IInv, Apart
<1>8. Known'
  BY <1>1 DEF IInv, Known, Facts, Quoted, Read, Owned, Open
<1> QED
  BY <1>4, <1>5, <1>6, <1>7, <1>8 DEF IInv

\* The market moves: nothing that is known becomes wrong.
LEMMA MoveInv == ASSUME IInv, Move PROVE IInv'
<1>1. /\ quote \in Quotes /\ quote' \in Quotes /\ quote <= quote'
      /\ UNCHANGED <<pc, run, rate, price, users, households, content, visit, left, crossed, twins>>
  BY BoundsAssumption DEF Move, Data, Demo, Quotes, IInv, Tabled
<1>2. Tabled'
  <2>1. (visit \in Visits \cup {None})'
    BY <1>1 DEF Visits, IInv, Tabled
  <2>2. \A r \in Runs : ~Open(r)' => run'[r] = None
    BY <1>1 DEF Open, IInv, Tabled
  <2>3. \A p \in Pairs : price[p].at <= quote'
    <3>1. \A p \in Pairs : price[p].at <= quote /\ price[p].at \in Int
      BY PriceFields DEF IInv, Tabled
    <3>2. quote \in Int /\ quote' \in Int
      BY <1>1 DEF Quotes
    <3> QED
      BY <1>1, <3>1, <3>2
  <2> QED
    BY <1>1, <2>1, <2>2, <2>3 DEF IInv, Tabled
<1>3. Counted'
  BY <1>1 DEF IInv, Counted, Used, Seeders, Visited
<1>4. Peopled'
  BY <1>1 DEF IInv, Peopled, Owned
<1>5. Apart'
  <2>1. \A r \in Runs : Builds(r)' <=> Builds(r)
    BY <1>1 DEF Builds
  <2> QED
    BY <1>1, <2>1 DEF IInv, Apart
<1>6. Known'
  <2> SUFFICES ASSUME NEW q \in Runs, Open(q)' PROVE Facts(q, pc[q], run[q])'
    BY DEF Known
  <2>1. PICK h, j : h = pc[q] /\ j = run[q] /\ h = pc'[q] /\ j = run'[q]
    BY <1>1
  <2>2. Facts(q, h, j)
    BY <1>1, <2>1 DEF IInv, Known, Open
  <2>3. Facts(q, h, j)'
    BY <1>1, <2>2, FactsKept
  <2> QED
    BY <2>1, <2>3 DEF Facts, Quoted, Read, Owned
<1> QED
  BY <1>2, <1>3, <1>4, <1>5, <1>6 DEF IInv


\* A visitor's request ends: its row, if any, is one the budget has paid for.
LEMMA VisitEnds ==
    ASSUME IInv, visit # None, visit' = None, UNCHANGED <<pc, quote, rate, price, left, twins>>,
           DOMAIN users' = DOMAIN users, users' \in [DOMAIN users -> BOOLEAN],
           households' \in [DOMAIN households' -> DOMAIN users], DOMAIN households' \subseteq Ids,
           content' \in [DOMAIN content' -> {"seeded", "touched"}], DOMAIN content' \subseteq Ids,
           NEW w, Used' \subseteq Used \cup {w},
           \A u \in DOMAIN users : Owned(u) \subseteq Owned(u)',
           crossed' \subseteq Runs,
           run' \in [Runs -> Records \cup {None}],
           \A q \in Runs : ~Open(q) => run'[q] = run[q],
           \A q \in Runs : Builds(q)' => Builds(q) /\ run'[q].user = run[q].user,
           Known'
    PROVE  IInv'
<1>1. Tabled'
  <2>1. \A r \in Runs : ~Open(r)' => run'[r] = None
    BY DEF Open, IInv, Tabled
  <2>2. /\ pc' \in [Runs -> Stages \cup {"idle", "alert"}] /\ quote' \in Quotes /\ rate' \in Quotes \cup {None}
        /\ price' \in [Pairs -> Prices] /\ (\A p \in Pairs : price'[p].at <= quote')
        /\ left' \in 0..Budget /\ twins' \in BOOLEAN /\ DOMAIN users' \subseteq Ids
    BY DEF IInv, Tabled
  <2>3. users' \in [DOMAIN users' -> BOOLEAN] /\ households' \in [DOMAIN households' -> DOMAIN users']
    OBVIOUS
  <2> QED
    BY <2>1, <2>2, <2>3 DEF Tabled
<1>2. Counted'
  <2>1. IsFiniteSet(Used') /\ Cardinality(Used') \in Nat /\ Cardinality(Used) \in Nat /\ Cardinality(Used') <= Cardinality(Used) + 1
    BY UsedFinite, CountGrows
  <2>2. Visited = 1 /\ Visited' = 0
    BY DEF Visited
  <2>3. Seeders' = Seeders /\ Cardinality(Seeders) \in Nat /\ Cardinality(DOMAIN users) \in Nat /\ IsFiniteSet(Seeders)
    BY UsedFinite, FS_CardinalityType DEF IInv, Counted, Seeders
  <2>4. /\ Cardinality(Used) + Cardinality(Seeders) + Visited <= Budget - left
        /\ Cardinality(DOMAIN users) + Cardinality(Seeders) <= Budget - left
        /\ Budget \in Nat /\ left \in 0..Budget
    BY BoundsAssumption DEF IInv, Counted, Tabled
  <2>5. Cardinality(Seeders') = Cardinality(Seeders) /\ Cardinality((DOMAIN users)') = Cardinality(DOMAIN users) /\ IsFiniteSet(Seeders')
    BY <2>3
  <2> QED
    BY <2>1, <2>2, <2>3, <2>4, <2>5 DEF Counted
<1>3. Peopled'
  <2>1. twins \/ \A u, v \in DOMAIN users : u = v
    BY DEF IInv, Peopled
  <2>2. \A u \in DOMAIN users : Owned(u)' # {}
    BY DEF IInv, Peopled
  <2> QED
    BY <2>1, <2>2 DEF Peopled
<1>4. Apart'
  BY DEF IInv, Apart
<1> QED
  BY <1>1, <1>2, <1>3, <1>4 DEF IInv

\* What runs other than those that read the demo know does not depend on the demo.
LEMMA DemoChanges ==
    ASSUME NEW q, NEW h, NEW k, Facts(q, h, k), UNCHANGED <<rate, price, quote>>,
           q \notin crossed' => q \notin crossed,
           Job(q) \in Seedings /\ h \in {"purge", "build"} => Read(q, h, k)'
    PROVE  Facts(q, h, k)'
<1>1. Job(q) \in Refreshs => Quoted(q, k)'
  BY DEF Facts, Quoted
<1> QED
  BY <1>1 DEF Facts, Fits, Job

\* A visitor changes the profile: no seeding holds the user's row.
LEMMA ChangeProfileInv ==
    ASSUME IInv, visit # None, visit' = None, UNCHANGED <<pc, quote, rate, price, left, twins>>, ChangeProfile
    PROVE  IInv'
<1>1. visit \in Visits /\ visit.kind = "profile"
  BY DEF ChangeProfile, IInv, Tabled
<1>2. PICK v \in DOMAIN users : v = visit.user
  BY <1>1 DEF Visits
<1>3. /\ {s \in Runs : Holds(s, v)} = {} /\ users' = [users EXCEPT ![v] = FALSE]
      /\ crossed' = crossed \cup Overtaken({"purge"}, None) /\ UNCHANGED <<run, households, content>>
  BY <1>2 DEF ChangeProfile
<1>4. \A q \in Runs : q # None
  BY NoneAssumption
<1>5. users \in [DOMAIN users -> BOOLEAN] /\ crossed \subseteq Runs
  BY DEF IInv, Tabled
<1>6. DOMAIN users' = DOMAIN users /\ users' \in [DOMAIN users -> BOOLEAN] /\ \A u \in DOMAIN users \ {v} : users'[u] = users[u]
  BY <1>3, <1>5
<1>7. Known'
  <2> SUFFICES ASSUME NEW q \in Runs, Open(q)' PROVE Facts(q, pc[q], run[q])'
    BY DEF Known
  <2>1. PICK h, j : h = pc[q] /\ j = run[q] /\ h = pc'[q] /\ j = run'[q]
    BY <1>3
  <2>2. Facts(q, h, j)
    BY <2>1 DEF IInv, Known, Open
  <2>3. ASSUME Job(q) \in Seedings, h \in {"purge", "build"} PROVE Read(q, h, j)'
    <3>1. Read(q, h, j)
      BY <2>2, <2>3 DEF Facts
    <3>2. h = "purge" => q \in crossed'
      BY <1>3, <1>4, <2>1, <2>3 DEF Overtaken
    <3>3. ASSUME h = "build" PROVE j.user # v
      BY <1>3, <2>1, <2>3, <3>3 DEF Holds
    <3>4. Owned(j.user)' = Owned(j.user)
      BY <1>3 DEF Owned
    <3>5. ASSUME j.pristine, q \notin crossed' PROVE users'[j.user]
      <4>1. h = "build" /\ j.user \in DOMAIN users \ {v} /\ users[j.user]
        BY <1>3, <2>3, <3>1, <3>2, <3>3, <3>5 DEF Read
      <4> QED
        BY <1>6, <4>1
    <3> QED
      BY <1>3, <1>6, <3>1, <3>4, <3>5 DEF Read
  <2>4. q \notin crossed' => q \notin crossed
    BY <1>3
  <2>5. Facts(q, h, j)'
    BY <2>2, <2>3, <2>4, DemoChanges
  <2> QED
    BY <2>1, <2>5 DEF Facts, Quoted, Read, Owned
<1>8. households' \in [DOMAIN households' -> DOMAIN users] /\ DOMAIN households' \subseteq Ids
      /\ content' \in [DOMAIN content' -> {"seeded", "touched"}] /\ DOMAIN content' \subseteq Ids
      /\ run' \in [Runs -> Records \cup {None}]
  BY <1>3 DEF IInv, Tabled
<1>9. Used' \subseteq Used \cup {v} /\ \A u \in DOMAIN users : Owned(u) \subseteq Owned(u)'
  BY <1>3 DEF Used, Owned
<1>10. crossed' \subseteq Runs
  BY <1>3, <1>5 DEF Overtaken
<1>11. \A q \in Runs : Builds(q)' => Builds(q) /\ run'[q].user = run[q].user
  BY <1>3 DEF Builds
<1>12. \A q \in Runs : run'[q] = run[q]
  BY <1>3
<1> QED
  BY <1>6, <1>7, <1>8, <1>9, <1>10, <1>11, <1>12, VisitEnds
\* A visitor opens a household: seedings that have read the households have been crossed.
LEMMA OpenHouseholdInv ==
    ASSUME IInv, visit # None, visit' = None, UNCHANGED <<pc, quote, rate, price, left, twins>>, OpenHousehold
    PROVE  IInv'
<1>1. visit \in Visits /\ visit.kind = "household"
  BY DEF OpenHousehold, IInv, Tabled
<1>2. PICK v \in DOMAIN users : v = visit.user
  BY <1>1 DEF Visits
<1>3. PICK w : w = NewHousehold /\ w \in Ids /\ w \notin Used
  <2>1. Cardinality(Used) < Budget
    <3>1. Cardinality(Used) \in Nat /\ Cardinality(Seeders) \in Nat
      BY UsedFinite, FS_CardinalityType DEF IInv, Counted
    <3>2. Cardinality(Used) + Cardinality(Seeders) + 1 <= Budget - left /\ Budget \in Nat /\ left \in 0..Budget
      BY BoundsAssumption DEF IInv, Counted, Tabled, Visited
    <3> QED
      BY <3>1, <3>2
  <2> QED
    BY <2>1, UsedFinite, FreshIds DEF NewHousehold, Used
<1>4. /\ households' = Put(households, w, v) /\ content' = Put(content, w, "touched")
      /\ crossed' = crossed \cup Overtaken({"build"}, None) /\ UNCHANGED <<run, users>>
  BY <1>2, <1>3 DEF OpenHousehold
<1>5. \A q \in Runs : q # None
  BY NoneAssumption
<1>6. /\ users \in [DOMAIN users -> BOOLEAN] /\ crossed \subseteq Runs /\ run \in [Runs -> Records \cup {None}]
      /\ households \in [DOMAIN households -> DOMAIN users] /\ DOMAIN households \subseteq Ids
      /\ content \in [DOMAIN content -> {"seeded", "touched"}] /\ DOMAIN content \subseteq Ids
  BY DEF IInv, Tabled
<1>7. w \notin DOMAIN households
  BY <1>3 DEF Used
<1>8. /\ DOMAIN households' = DOMAIN households \cup {w} /\ households' \in [DOMAIN households' -> DOMAIN users]
      /\ \A h \in DOMAIN households : households'[h] = households[h]
  BY <1>4, <1>6, <1>7 DEF Put
<1>9. DOMAIN content' = DOMAIN content \cup {w} /\ content' \in [DOMAIN content' -> {"seeded", "touched"}]
  BY <1>4, <1>6 DEF Put
<1>10. \A u : Owned(u) \subseteq Owned(u)'
  BY <1>8 DEF Owned
<1>11. Known'
  <2> SUFFICES ASSUME NEW q \in Runs, Open(q)' PROVE Facts(q, pc[q], run[q])'
    BY DEF Known
  <2>1. PICK h, j : h = pc[q] /\ j = run[q] /\ h = pc'[q] /\ j = run'[q]
    BY <1>4
  <2>2. Facts(q, h, j)
    BY <2>1 DEF IInv, Known, Open
  <2>3. ASSUME Job(q) \in Seedings, h \in {"purge", "build"} PROVE Read(q, h, j)'
    <3>1. Read(q, h, j)
      BY <2>2, <2>3 DEF Facts
    <3>2. h = "build" => q \in crossed'
      BY <1>4, <1>5, <2>1, <2>3 DEF Overtaken
    <3>3. j.kill \subseteq Owned(j.user) => j.kill \subseteq Owned(j.user)'
      BY <1>10
    <3> QED
      BY <1>4, <3>1, <3>2, <3>3 DEF Read
  <2>4. q \notin crossed' => q \notin crossed
    BY <1>4
  <2>5. Facts(q, h, j)'
    BY <2>2, <2>3, <2>4, DemoChanges
  <2> QED
    BY <2>1, <2>5 DEF Facts, Quoted, Read, Owned
<1>12. DOMAIN households' \subseteq Ids /\ DOMAIN content' \subseteq Ids /\ Used' \subseteq Used \cup {w}
  BY <1>3, <1>6, <1>8, <1>9 DEF Used
<1>13. crossed' \subseteq Runs
  BY <1>4, <1>6 DEF Overtaken
<1>14. \A q \in Runs : Builds(q)' => Builds(q) /\ run'[q].user = run[q].user
  BY <1>4 DEF Builds
<1>15. (\A q \in Runs : run'[q] = run[q]) /\ run' \in [Runs -> Records \cup {None}]
       /\ DOMAIN users' = DOMAIN users /\ users' \in [DOMAIN users -> BOOLEAN]
  BY <1>4, <1>6
<1> QED
  BY <1>8, <1>9, <1>10, <1>11, <1>12, <1>13, <1>14, <1>15, VisitEnds

\* A visitor adds a row, below a household that may be gone.
LEMMA AddRowInv ==
    ASSUME IInv, visit # None, visit' = None, UNCHANGED <<pc, quote, rate, price, left, twins>>, AddRow
    PROVE  IInv'
<1>1. PICK w : w = visit.hh /\ w \in Ids
  BY DEF AddRow, IInv, Tabled, Visits
<1>2. /\ content' = Put(content, w, "touched") /\ crossed' = crossed \cup Overtaken({"build"}, None)
      /\ UNCHANGED <<users, households>>
      /\ run' = [s \in Runs |-> IF s \in Overtaken({"build"}, None)
                                THEN [run[s] EXCEPT !.added = @ \cup {w}] ELSE run[s]]
  BY <1>1 DEF AddRow
<1>3. \A q \in Runs : q # None
  BY NoneAssumption
<1>4. /\ users \in [DOMAIN users -> BOOLEAN] /\ crossed \subseteq Runs /\ run \in [Runs -> Records \cup {None}]
      /\ households \in [DOMAIN households -> DOMAIN users] /\ DOMAIN households \subseteq Ids
      /\ content \in [DOMAIN content -> {"seeded", "touched"}] /\ DOMAIN content \subseteq Ids
  BY DEF IInv, Tabled
<1>5. DOMAIN content' = DOMAIN content \cup {w} /\ content' \in [DOMAIN content' -> {"seeded", "touched"}]
  BY <1>2, <1>4 DEF Put
<1>6. \A q \in Runs : q \in Overtaken({"build"}, None) <=> Job(q) \in Seedings /\ pc[q] = "build"
  BY <1>3 DEF Overtaken
<1>7. ASSUME NEW q \in Runs, Job(q) \in Seedings, pc[q] = "build"
      PROVE  /\ Open(q) /\ run[q] \in SeedingRuns /\ run'[q] \in SeedingRuns
             /\ run'[q].user = run[q].user /\ run'[q].kill = run[q].kill /\ run'[q].pristine = run[q].pristine
  <2>1. Open(q)
    BY <1>7 DEF Open
  <2>2. PICK j : j = run[q] /\ j \in SeedingRuns
    BY <1>7, <2>1, OpenKnows
  <2>3. run'[q] = [j EXCEPT !.added = @ \cup {w}]
    BY <1>2, <1>6, <1>7, <2>2
  <2>4. PICK A \in SUBSET Ids : A = j.added \cup {w}
    BY <1>1, <2>2 DEF SeedingRuns
  <2>5. run'[q] = [j EXCEPT !.added = A]
    BY <2>3, <2>4
  <2> QED
    BY <2>1, <2>2, <2>4, <2>5 DEF SeedingRuns
<1>8. \A q \in Runs : ~(Job(q) \in Seedings /\ pc[q] = "build") => run'[q] = run[q]
  BY <1>2, <1>6
<1>9. run' \in [Runs -> Records \cup {None}]
  <2>1. \A q \in Runs : run'[q] \in Records \cup {None}
    BY <1>4, <1>7, <1>8 DEF Records
  <2> QED
    BY <1>2, <2>1
<1>10. Known'
  <2> SUFFICES ASSUME NEW q \in Runs, Open(q)' PROVE Facts(q, pc[q], run[q])'
    BY DEF Known
  <2>1. Facts(q, pc[q], run[q])
    BY DEF IInv, Known, Open
  <2>2. q \notin crossed' => q \notin crossed
    BY <1>2
  <2>3. CASE ~(Job(q) \in Seedings /\ pc[q] = "build")
    <3>1. PICK h, j : h = pc[q] /\ j = run[q] /\ h = pc'[q] /\ j = run'[q] /\ (Job(q) \in Seedings => h # "build")
      BY <1>8, <2>3
    <3>2. Facts(q, h, j)
      BY <2>1, <3>1
    <3>3. Job(q) \in Seedings /\ h \in {"purge", "build"} => Read(q, h, j)'
      BY <1>2, <2>2, <3>1, <3>2 DEF Facts, Read
    <3>4. Facts(q, h, j)'
      BY <2>2, <3>2, <3>3, DemoChanges
    <3> QED
      BY <3>1, <3>4 DEF Facts, Quoted, Read, Owned
  <2>4. CASE Job(q) \in Seedings /\ pc[q] = "build"
    <3>1. PICK j, m : j = run[q] /\ m = run'[q]
      OBVIOUS
    <3>2. Read(q, "build", j)
      BY <2>1, <2>4, <3>1 DEF Facts
    <3>3. q \in crossed'
      BY <1>2, <1>6, <2>4
    <3>4. Owned(j.user)' = Owned(j.user)
      BY <1>2 DEF Owned
    <3>5. m \in SeedingRuns /\ m.user = j.user /\ m.kill = j.kill /\ m.pristine = j.pristine
      BY <1>7, <2>4, <3>1
    <3>6. Read(q, "build", m)'
      BY <1>2, <3>2, <3>3, <3>4, <3>5 DEF Read
    <3>7. Facts(q, "build", m)'
      BY <2>4, <3>5, <3>6 DEF Facts, Fits, Refreshs, Seedings, Job
    <3> QED
      BY <2>4, <3>1, <3>7 DEF Facts, Quoted, Read, Owned
  <2> QED
    BY <2>3, <2>4
<1>11. DOMAIN content' \subseteq Ids /\ Used' \subseteq Used \cup {w}
  BY <1>1, <1>2, <1>4, <1>5 DEF Used
<1>12. crossed' \subseteq Runs
  BY <1>2, <1>4 DEF Overtaken
<1>13. \A q \in Runs : Builds(q)' => Builds(q) /\ run'[q].user = run[q].user
  BY <1>7, <1>8 DEF Builds
<1>14. \A q \in Runs : ~Open(q) => run'[q] = run[q]
  BY <1>7, <1>8
<1>15. \A u \in DOMAIN users : Owned(u) \subseteq Owned(u)'
  BY <1>2 DEF Owned
<1>16. DOMAIN users' = DOMAIN users /\ users' \in [DOMAIN users -> BOOLEAN]
       /\ households' \in [DOMAIN households' -> DOMAIN users] /\ DOMAIN households' \subseteq Ids
  BY <1>2, <1>4
<1> QED
  BY <1>5, <1>9, <1>10, <1>11, <1>12, <1>13, <1>14, <1>15, <1>16, VisitEnds

\* A visitor's request ends, one way or another.
LEMMA EndVisitInv == ASSUME IInv, EndVisit PROVE IInv'
<1>1. visit # None /\ visit' = None /\ UNCHANGED <<pc, quote, rate, price, left, twins>>
  BY DEF EndVisit
<1>2. CASE ChangeProfile
  BY <1>1, <1>2, ChangeProfileInv
<1>3. CASE OpenHousehold
  BY <1>1, <1>3, OpenHouseholdInv
<1>4. CASE AddRow
  BY <1>1, <1>4, AddRowInv
<1>5. CASE UNCHANGED <<run, Demo, crossed>>
  <2>1. UNCHANGED <<run, users, households, content, crossed>>
    BY <1>5 DEF Demo
  <2>2. DOMAIN users' = DOMAIN users /\ users' \in [DOMAIN users -> BOOLEAN]
        /\ households' \in [DOMAIN households' -> DOMAIN users] /\ DOMAIN households' \subseteq Ids
        /\ content' \in [DOMAIN content' -> {"seeded", "touched"}] /\ DOMAIN content' \subseteq Ids
        /\ crossed' \subseteq Runs /\ run' \in [Runs -> Records \cup {None}]
    BY <2>1 DEF IInv, Tabled
  <2>3. Used' \subseteq Used \cup {None} /\ \A u \in DOMAIN users : Owned(u) \subseteq Owned(u)'
    BY <2>1 DEF Used, Owned
  <2>4. \A q \in Runs : Builds(q)' => Builds(q) /\ run'[q].user = run[q].user
    BY <1>1, <2>1 DEF Builds
  <2>5. Known'
    BY <1>1, <2>1 DEF IInv, Known, Facts, Quoted, Read, Owned, Open
  <2>6. \A q \in Runs : ~Open(q) => run'[q] = run[q]
    BY <2>1
  <2> QED
    BY <1>1, <2>2, <2>3, <2>4, <2>5, <2>6, VisitEnds
<1> QED
  BY <1>2, <1>3, <1>4, <1>5 DEF EndVisit
-----------------------------------------------------------------------------
(* The invariant *)

\* A new data base knows of no run, no user and no household.
LEMMA InitInv == Init => IInv
<1> SUFFICES ASSUME Init PROVE IInv
  OBVIOUS
<1>1. Budget \in Nat /\ 0 \in Quotes /\ left = Budget /\ left \in 0..Budget
  BY BoundsAssumption DEF Init, Quotes
<1>2. DOMAIN users = {} /\ DOMAIN households = {} /\ DOMAIN content = {}
  BY DEF Init
<1>3. \A r \in Runs : pc[r] = "idle" /\ run[r] = None /\ ~Open(r)
  BY DEF Init, Open
<1>4. price \in [Pairs -> Prices] /\ \A p \in Pairs : price[p].at <= quote
  BY <1>1 DEF Init, Prices
<1>5. users \in [DOMAIN users -> BOOLEAN] /\ households \in [DOMAIN households -> DOMAIN users]
      /\ content \in [DOMAIN content -> {"seeded", "touched"}]
  BY <1>2 DEF Init
<1>6. Tabled
  BY <1>1, <1>2, <1>3, <1>4, <1>5 DEF Tabled, Init
<1>7. Counted
  <2>1. Seeders = {} /\ Used = {} /\ Visited = 0
    BY <1>2, <1>3 DEF Seeders, Reading, Used, Visited, Init
  <2> QED
    BY <1>1, <1>2, <2>1, FS_EmptySet DEF Counted
<1>8. Peopled /\ Apart /\ Known
  BY <1>2, <1>3 DEF Peopled, Apart, Builds, Known
<1> QED
  BY <1>6, <1>7, <1>8 DEF IInv

\* Nothing happens.
LEMMA StutterInv == ASSUME IInv, UNCHANGED vars PROVE IInv'
<1>1. UNCHANGED <<pc, run, quote, rate, price, users, households, content, visit, left, crossed, twins>>
  BY DEF vars
<1>2. Tabled'
  <2>1. (visit \in Visits \cup {None})'
    BY <1>1 DEF Visits, IInv, Tabled
  <2>2. \A r \in Runs : ~Open(r)' => run'[r] = None
    BY <1>1 DEF Open, IInv, Tabled
  <2> QED
    BY <1>1, <2>1, <2>2 DEF IInv, Tabled
<1>3. Counted' /\ Peopled'
  BY <1>1 DEF IInv, Counted, Used, Seeders, Visited, Peopled, Owned
<1>4. Apart'
  <2>1. \A r \in Runs : Builds(r)' <=> Builds(r)
    BY <1>1 DEF Builds
  <2> QED
    BY <1>1, <2>1 DEF IInv, Apart
<1>5. Known'
  BY <1>1 DEF IInv, Known, Facts, Quoted, Read, Owned, Open
<1> QED
  BY <1>2, <1>3, <1>4, <1>5 DEF IInv

\* Every step keeps the invariant.
LEMMA NextInv == ASSUME IInv, [Next]_vars PROVE IInv'
<1>1. ASSUME NEW r \in Runs, Start(r) PROVE IInv'
  BY <1>1, StartRateInv, StartRefreshInv, StartSeedingInv DEF Start
<1>2. ASSUME NEW r \in Runs, Proceed(r) PROVE IInv'
  <2>1. CASE FetchChunk(r) \/ FetchRate(r) \/ Write(r)
    BY <2>1, FetchChunkInv, FetchRateInv, WriteInv
  <2>2. CASE BreakDeadlock(r)
    BY <2>2, FailInv DEF BreakDeadlock
  <2>3. CASE CommitPrices(r) \/ CommitRate(r) \/ CommitSeeding(r)
    BY <2>3, CommitPricesInv, CommitRateInv, CommitSeedingInv
  <2>4. CASE Ensure(r) \/ Purge(r)
    BY <2>4, EnsureInv, PurgeInv
  <2>5. CASE Alert(r) \/ Reap(r)
    BY <2>5, EndInv
  <2> QED
    BY <1>2, <2>1, <2>2, <2>3, <2>4, <2>5 DEF Proceed
<1>3. ASSUME NEW r \in Runs, Retry(r) \/ Fail(r) PROVE IInv'
  BY <1>3, RetryInv, FailInv
<1>4. ASSUME NEW i \in Instances, Crash(i) PROVE IInv'
  BY <1>4, CrashInv
<1>5. CASE StartVisit \/ EndVisit \/ Move
  BY <1>5, StartVisitInv, EndVisitInv, MoveInv
<1>6. CASE UNCHANGED vars
  BY <1>6, StutterInv
<1> QED
  BY <1>1, <1>2, <1>3, <1>4, <1>5, <1>6 DEF Next

\* The inductive invariant holds of every behaviour.
LEMMA Invariance == Spec => []IInv
<1>1. IInv /\ [Next]_vars => IInv'
  BY NextInv
<1> QED
  BY InitInv, <1>1, PTL DEF Spec

-----------------------------------------------------------------------------
(* What operators and visitors rely on *)

\* The variables keep their types: a run has a record while its transaction is open, every
\* household of the demo has an owner that is there, and no price comes from the future.
THEOREM TypeCorrect == Spec => []TypeOK
<1>1. IInv => TypeOK
  <2> SUFFICES ASSUME IInv PROVE TypeOK
    OBVIOUS
  <2>1. pc \in [Runs -> {"idle", "fetch", "write", "ensure", "purge", "build", "commit", "alert", "ghost"}]
    BY DEF IInv, Tabled, Stages
  <2>2. \A r \in Runs : pc[r] \in {"idle", "alert"} <=> run[r] = None
    BY OpenKnows DEF IInv, Tabled, Open
  <2>3. quote \in Quotes /\ rate \in Quotes \cup {None} /\ price \in [Pairs -> Prices]
        /\ left \in 0..Budget /\ crossed \subseteq Runs /\ twins \in BOOLEAN
    BY DEF IInv, Tabled
  <2>4. \E U \in SUBSET Ids : users \in [U -> BOOLEAN]
    BY DEF IInv, Tabled
  <2>5. \E H \in SUBSET Ids : households \in [H -> DOMAIN users]
    BY DEF IInv, Tabled
  <2>6. \E C \in SUBSET Ids : content \in [C -> {"seeded", "touched"}]
    BY DEF IInv, Tabled
  <2> QED
    BY <2>1, <2>2, <2>3, <2>4, <2>5, <2>6 DEF TypeOK
<1> QED
  BY <1>1, Invariance, PTL

\* Prices that a refresh commits were quoted since it began, in won at the stored rate,
\* and no older quote comes back, unless the rate or other prices were committed meanwhile.
THEOREM RefreshesAreCurrent == Spec => RefreshedPricesAreCurrent
<1>1. ASSUME IInv, NEW r \in Runs, CommitPrices(r), NEW p \in DOMAIN run[r].got
      PROVE  /\ price'[p].at >= run[r].since
             /\ p \in USPairs => price'[p].fx # None
             /\ r \notin crossed => price'[p].at >= price[p].at /\ (p \in USPairs => price'[p].fx = rate)
  <2>1. Open(r) /\ Job(r) \in Refreshs
    BY <1>1 DEF CommitPrices, Open
  <2>2. PICK k : k = run[r] /\ k \in RefreshRuns /\ Quoted(r, k)
    BY <1>1, <2>1, OpenKnows
  <2>3. p \in DOMAIN k.got /\ p \in Pairs /\ k.got[p] \in Prices /\ k.since \in Int
    BY <1>1, <2>2, GotPrices, RefreshFields DEF Quotes
  <2>4. price' = [i \in Pairs |-> IF i \in DOMAIN k.got THEN k.got[i] ELSE price[i]]
    BY <1>1, <2>2 DEF CommitPrices
  <2>5. price'[p] = k.got[p] /\ k.got[p].at \in Int
    BY <2>3, <2>4, PriceFields
  <2>6. price[p] \in Prices /\ price[p].at \in Int
    BY <1>1, <2>3, PriceFields DEF IInv, Tabled
  <2>7. k.got[p].at >= k.since /\ (p \in USPairs => k.got[p].fx = k.fx /\ k.fx # None)
        /\ (r \notin crossed => rate = k.fx /\ price[p].at <= k.since)
    BY <2>2, <2>3 DEF Quoted
  <2> QED
    BY <2>2, <2>3, <2>5, <2>6, <2>7
<1>2. IInv /\ [Next]_vars =>
        [\A r \in Runs : CommitPrices(r) => \A p \in DOMAIN run[r].got :
           /\ price'[p].at >= run[r].since
           /\ p \in USPairs => price'[p].fx # None
           /\ r \notin crossed => price'[p].at >= price[p].at /\ (p \in USPairs => price'[p].fx = rate)]_vars
  BY <1>1
<1> QED
  BY <1>2, Invariance, PTL DEF Spec, RefreshedPricesAreCurrent

\* A seeding under whose eyes nothing changed brings the demo back: one user with the
\* profile of the curriculum vitae, one household, nothing left of the purged ones; and the
\* bootstrap seeds only where no household is.
THEOREM SeedingsRestore == Spec => SeedingRestores
<1>1. ASSUME IInv, NEW r \in Runs, CommitSeeding(r), r \notin crossed, ~twins
      PROVE  /\ Cardinality(DOMAIN users') = 1 /\ \A u \in DOMAIN users' : users'[u]
             /\ Cardinality(DOMAIN households') = 1
             /\ \A h \in DOMAIN households' : content'[h] = "seeded"
             /\ DOMAIN content' \ DOMAIN households' \subseteq DOMAIN content \ DOMAIN households
             /\ Job(r) = "bootstrap_demo" => households = << >>
  <2>1. PICK k, u, w, b :
             /\ k = run[r] /\ k \in SeedingRuns /\ Read(r, "build", k) /\ Job(r) \in Seedings /\ r \in Seeders
             /\ w = NewHousehold /\ w \in Ids /\ w \notin Used
             /\ u \in Ids /\ (IF k.user = None THEN u \notin DOMAIN users ELSE u = k.user /\ u \in DOMAIN users)
             /\ b \in BOOLEAN /\ b = (k.pristine => users[u]) /\ users' = Put(users, u, b)
             /\ households' = Put(Restrict(households, DOMAIN households \ k.kill), w, u)
             /\ content' = Put(Restrict(content, DOMAIN content \ (k.kill \ k.added)), w, "seeded")
    BY <1>1, SeedingWrites
  <2>2. Rewritten(u, b, w, k.kill, k.kill \ k.added)
    BY <1>1, <2>1, SeedingRows
  <2>3. /\ households \in [DOMAIN households -> DOMAIN users] /\ \A x, y \in DOMAIN users : x = y
    BY <1>1 DEF IInv, Tabled, Peopled
  <2>4. /\ k.kill = Owned(k.user) /\ k.added = {} /\ (k.user = None => DOMAIN users = {})
        /\ (k.pristine => k.user # None /\ users[k.user])
        /\ (Job(r) = "bootstrap_demo" => k.user = None)
    BY <1>1, <2>1 DEF Read
  <2>5. DOMAIN users' = {u}
    <3>1. DOMAIN users' = DOMAIN users \cup {u}
      BY <2>2 DEF Rewritten
    <3>2. \A v \in DOMAIN users : v = u
      BY <2>1, <2>3, <2>4
    <3> QED
      BY <3>1, <3>2
  <2>6. users'[u] = TRUE
    BY <2>1, <2>2, <2>4 DEF Rewritten
  <2>7. k.kill = DOMAIN households
    BY <2>1, <2>3, <2>4 DEF Owned
  <2>8. DOMAIN households' = {w}
    BY <2>2, <2>7 DEF Rewritten
  <2>9. content'[w] = "seeded" /\ DOMAIN content' \ {w} \subseteq DOMAIN content \ DOMAIN households
    BY <2>2, <2>4, <2>7 DEF Rewritten
  <2>10. ASSUME Job(r) = "bootstrap_demo" PROVE households = << >>
    <3>1. DOMAIN users = {}
      BY <2>4, <2>10
    <3>2. DOMAIN households = {}
      BY <2>3, <3>1
    <3> QED
      BY <2>3, <3>2
  <2>11. Cardinality({u}) = 1 /\ Cardinality({w}) = 1
    BY FS_Singleton
  <2> QED
    BY <2>5, <2>6, <2>8, <2>9, <2>10, <2>11
<1>2. IInv /\ [Next]_vars =>
        [\A r \in Runs : CommitSeeding(r) /\ r \notin crossed /\ ~twins =>
           /\ Cardinality(DOMAIN users') = 1 /\ \A u \in DOMAIN users' : users'[u]
           /\ Cardinality(DOMAIN households') = 1
           /\ \A h \in DOMAIN households' : content'[h] = "seeded"
           /\ DOMAIN content' \ DOMAIN households' \subseteq DOMAIN content \ DOMAIN households
           /\ Job(r) = "bootstrap_demo" => households = << >>]_vars
  BY <1>1
<1> QED
  BY <1>2, Invariance, PTL DEF Spec, SeedingRestores
=============================================================================
