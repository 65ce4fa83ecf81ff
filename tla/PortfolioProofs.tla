-------------------------- MODULE PortfolioProofs --------------------------
(***************************************************************************)
(* The replay of trades, for any finite number of rows of any quantities,  *)
(* prices, fees and dates, and one stock item and its trades, for any      *)
(* number of requests at a time.                                           *)
(*                                                                         *)
(* A function that is defined by recursion over sets of rows is one that   *)
(* satisfies its equation, if there is such a function: that there is one  *)
(* is shown here for as many rows at a time as a counterexample would      *)
(* need, the least of which there is not.                                  *)
(*                                                                         *)
(* What is known of a request is said of its stage s, of the job j with    *)
(* the rows it has loaded, and of its plan p.                              *)
(***************************************************************************)
EXTENDS Portfolio, Totals

\* Rows of trades, of which the replay reads these fields
TradeBook(rows) ==
    /\ IsFiniteSet(DOMAIN rows) /\ DOMAIN rows \subseteq Nat
    /\ \A t \in DOMAIN rows :
          /\ rows[t].type \in {"BUY", "SELL"} /\ rows[t].qty \in Nat \ {0}
          /\ rows[t].price \in Nat /\ rows[t].fee \in Nat /\ rows[t].date \in Nat

\* The steps of the replay: the next trade is taken, and what all of them come to
Taken(rows, prior, t) ==
    IF prior.short THEN prior
    ELSE IF rows[t].type = "BUY" THEN AfterBuy(prior, rows[t]) ELSE AfterSell(prior, t, rows[t])
Body(rows, run, S) ==
    IF S = {} THEN Nothing(rows) ELSE Taken(rows, run[S \ {LastOf(rows, S)}], LastOf(rows, S))
Replays(rows, run) == run = [S \in SUBSET DOMAIN rows |-> Body(rows, run, S)]

Runs(D) == [qty : Nat, num : Nat, den : Nat \ {0}, short : BOOLEAN, pnl : [D -> Int]]

-----------------------------------------------------------------------------
(* Numbers *)

\* Rounding gives a whole number, and no negative one from none.
LEMMA RoundedType ==
    ASSUME NEW a \in Int, NEW b \in Nat \ {0}
    PROVE  RoundHalfUp(a, b) \in Int /\ (a >= 0 => RoundHalfUp(a, b) \in Nat)
<1>1. Abs(a) \in Nat
  BY DEF Abs
<1>2. 2 * Abs(a) + b \in Nat /\ 2 * b \in Nat \ {0}
  BY <1>1
<1>3. \A x \in Nat : \A y \in Nat \ {0} : x \div y \in Nat
  OBVIOUS
<1>4. (2 * Abs(a) + b) \div (2 * b) \in Nat
  BY <1>2, <1>3
<1> QED
  BY <1>4 DEF RoundHalfUp

\* A whole number is not rounded.
LEMMA RoundedExact == ASSUME NEW a \in Nat, NEW b \in Nat \ {0} PROVE RoundHalfUp(a * b, b) = a
<1>1. a * b \in Nat /\ Abs(a * b) = a * b /\ ~(a * b < 0)
  BY DEF Abs
<1>2. PICK m \in Nat \ {0}, x \in Nat : m = 2 * b /\ x = 2 * (a * b) + b
  BY <1>1
<1>3. x = a * m + b /\ 0 <= b /\ b < m
  BY <1>2
<1>4. x \div m = a
  BY <1>3
<1> QED
  BY <1>1, <1>2, <1>4 DEF RoundHalfUp

\* Steps of the replay keep the quantity and the cost from falling below nothing.
LEMMA TakenType ==
    ASSUME NEW rows, TradeBook(rows), NEW prior \in Runs(DOMAIN rows), NEW t \in DOMAIN rows
    PROVE  Taken(rows, prior, t) \in Runs(DOMAIN rows)
<1>0. /\ prior.qty \in Nat /\ prior.num \in Nat /\ prior.den \in Nat \ {0}
      /\ prior.short \in BOOLEAN /\ prior.pnl \in [DOMAIN rows -> Int]
  BY DEF Runs
<1>1. PICK type, qty, price, fee :
        /\ type = rows[t].type /\ qty = rows[t].qty /\ price = rows[t].price /\ fee = rows[t].fee
        /\ qty \in Nat \ {0} /\ price \in Nat /\ fee \in Nat
  BY DEF TradeBook
<1>2. CASE prior.short
  BY <1>2 DEF Taken
<1>3. CASE ~prior.short /\ type = "BUY"
  <2>1. prior.qty + qty \in Nat /\ prior.num + (qty * price + fee) * prior.den \in Nat
    <3>1. PICK all \in Nat : all = qty * price + fee
      BY <1>1
    <3>2. all * prior.den \in Nat
      BY <1>0
    <3>3. prior.qty + qty \in Nat /\ prior.num + all * prior.den \in Nat
      BY <1>0, <1>1, <3>2
    <3> QED
      BY <3>1, <3>3
  <2>2. Taken(rows, prior, t) = [prior EXCEPT !.qty = prior.qty + qty,
                                              !.num = prior.num + (qty * price + fee) * prior.den]
    BY <1>1, <1>3 DEF Taken, AfterBuy
  <2> QED
    BY <2>1, <2>2 DEF Runs
<1>4. CASE ~prior.short /\ type # "BUY" /\ qty > prior.qty
  <2>1. Taken(rows, prior, t) = [prior EXCEPT !.short = TRUE]
    BY <1>1, <1>4 DEF Taken, AfterSell
  <2> QED
    BY <2>1 DEF Runs
<1>5. CASE ~prior.short /\ type # "BUY" /\ ~(qty > prior.qty)
  <2>1. PICK rest, d, n, p :
          /\ rest = prior.qty - qty
          /\ n = IF rest = 0 THEN 0 ELSE prior.num * rest
          /\ d = IF rest = 0 THEN 1 ELSE prior.den * prior.qty
          /\ p = RoundHalfUp((qty * price - fee) * prior.den * prior.qty - prior.num * qty, prior.den * prior.qty)
    OBVIOUS
  <2>2. rest \in Nat /\ prior.qty \in Nat \ {0}
    BY <1>0, <1>1, <1>5, <2>1
  <2>3. prior.den * prior.qty \in Nat \ {0} /\ prior.num * rest \in Nat
    BY <1>0, <2>2
  <2>4. n \in Nat /\ d \in Nat \ {0}
    BY <2>1, <2>3
  <2>5. (qty * price - fee) * prior.den * prior.qty - prior.num * qty \in Int
    BY <1>0, <1>1
  <2>6. p \in Int
    BY <2>1, <2>3, <2>5, RoundedType
  <2>7. [prior.pnl EXCEPT ![t] = p] \in [DOMAIN rows -> Int]
    BY <1>0, <2>6
  <2>8. Taken(rows, prior, t) = [prior EXCEPT !.qty = rest, !.num = n, !.den = d, !.pnl = [prior.pnl EXCEPT ![t] = p]]
    BY <1>1, <1>5, <2>1 DEF Taken, AfterSell, Proceeds
  <2> QED
    BY <2>2, <2>4, <2>7, <2>8 DEF Runs
<1> QED
  BY <1>2, <1>3, <1>4, <1>5

-----------------------------------------------------------------------------
(* The order of the trades, and the function that replays them *)

\* Of some rows there is a last one, by date and insertion: one that the fewest follow.
LEMMA LastFollows ==
    ASSUME NEW rows, TradeBook(rows), NEW S \in SUBSET DOMAIN rows, S # {}
    PROVE  \E x \in S : \A s \in S \ {x} : Before(rows, s, x)
<1> DEFINE After(t) == {s \in S : Before(rows, t, s)}
           Counts == {Cardinality(After(t)) : t \in S}
<1>1. IsFiniteSet(S) /\ S \subseteq Nat /\ \A t \in S : rows[t].date \in Nat
  BY FS_Subset DEF TradeBook
<1>2. \A t \in S : IsFiniteSet(After(t)) /\ Cardinality(After(t)) \in Nat
  BY <1>1, FS_Subset, FS_CardinalityType
<1>3. Counts \in SUBSET Nat /\ Counts # {}
  BY <1>2
<1> HIDE DEF Counts
<1>4. PICK m \in Counts : \A n \in Counts : m <= n
  BY <1>3, LeastNumber
<1>5. PICK t \in S : m = Cardinality(After(t))
  BY <1>4 DEF Counts
<1>6. \A s \in S : Cardinality(After(t)) <= Cardinality(After(s))
  BY <1>4, <1>5 DEF Counts
<1>7. ASSUME NEW s \in S \ {t} PROVE Before(rows, s, t)
  <2> SUFFICES ASSUME ~Before(rows, s, t) PROVE FALSE
    OBVIOUS
  <2>1. s \in Nat /\ t \in Nat /\ s # t /\ rows[s].date \in Nat /\ rows[t].date \in Nat
    BY <1>1
  <2>2. Before(rows, t, s)
    BY <2>1 DEF Before
  <2>3. \A x \in S : Before(rows, s, x) => Before(rows, t, x) /\ x # s
    <3> SUFFICES ASSUME NEW x \in S, Before(rows, s, x) PROVE Before(rows, t, x) /\ x # s
      OBVIOUS
    <3>1. x \in Nat /\ rows[x].date \in Nat
      BY <1>1
    <3> QED
      BY <2>1, <2>2, <3>1 DEF Before
  <2>4. After(s) \subseteq After(t) \ {s} /\ s \in After(t)
    BY <2>2, <2>3
  <2>5. IsFiniteSet(After(t) \ {s}) /\ Cardinality(After(t) \ {s}) = Cardinality(After(t)) - 1
    BY <1>2, <2>4, FS_RemoveElement
  <2>6. Cardinality(After(s)) <= Cardinality(After(t)) - 1
    BY <2>4, <2>5, FS_Subset
  <2> HIDE DEF After
  <2> QED
    BY <1>2, <1>6, <2>6
<1> QED
  BY <1>7

\* It is the one the replay takes last.
LEMMA LastIsThere ==
    ASSUME NEW rows, TradeBook(rows), NEW S \in SUBSET DOMAIN rows, S # {}
    PROVE  LastOf(rows, S) \in S
BY LastFollows DEF LastOf

\* A set of rows without its last one has one row less.
LEMMA OneLess ==
    ASSUME NEW rows, TradeBook(rows), NEW S \in SUBSET DOMAIN rows, S # {}
    PROVE  /\ LastOf(rows, S) \in DOMAIN rows /\ S \ {LastOf(rows, S)} \in SUBSET DOMAIN rows
           /\ IsFiniteSet(S) /\ Cardinality(S) \in Nat
           /\ Cardinality(S \ {LastOf(rows, S)}) = Cardinality(S) - 1
<1>1. LastOf(rows, S) \in S
  BY LastIsThere
<1>2. IsFiniteSet(S)
  BY FS_Subset DEF TradeBook
<1> QED
  BY <1>1, <1>2, FS_RemoveElement, FS_CardinalityType

\* The rows of a set determine its last one, and what the replay makes of it depends on
\* what it made of the rows before that one only.
LEMMA BodyReads ==
    ASSUME NEW rows, NEW f, NEW g, NEW S, S # {} => f[S \ {LastOf(rows, S)}] = g[S \ {LastOf(rows, S)}]
    PROVE  Body(rows, f, S) = Body(rows, g, S)
BY DEF Body

\* There is a function that replays every set of rows.
LEMMA ReplayExists == ASSUME NEW rows, TradeBook(rows) PROVE \E run : Replays(rows, run)
<1> DEFINE Small(n) == {S \in SUBSET DOMAIN rows : Cardinality(S) <= n}
           P(n)    == \E f : f = [S \in Small(n) |-> Body(rows, f, S)]
           Bad     == {n \in Nat : ~P(n)}
<1>1. \A S \in SUBSET DOMAIN rows : IsFiniteSet(S) /\ Cardinality(S) \in Nat
  BY FS_Subset, FS_CardinalityType DEF TradeBook
<1>2. P(0)
  <2>1. PICK f : f = [S \in Small(0) |-> Nothing(rows)]
    OBVIOUS
  <2>2. \A S \in Small(0) : S = {}
    BY <1>1, FS_EmptySet
  <2>3. \A S \in Small(0) : Body(rows, f, S) = Nothing(rows)
    BY <2>2 DEF Body
  <2> HIDE DEF Small
  <2>4. f = [S \in Small(0) |-> Body(rows, f, S)]
    BY <2>1, <2>3
  <2> QED
    BY <2>4
<1>3. ASSUME NEW n \in Nat, P(n) PROVE P(n + 1)
  <2>1. PICK f : f = [S \in Small(n) |-> Body(rows, f, S)]
    BY <1>3
  <2>2. PICK g : g = [S \in Small(n + 1) |-> Body(rows, f, S)]
    OBVIOUS
  <2>3. \A S \in Small(n) : S \in Small(n + 1) /\ g[S] = f[S]
    <3>1. \A S \in Small(n) : S \in Small(n + 1)
      BY <1>1
    <3> HIDE DEF Small
    <3> QED
      BY <2>1, <2>2, <3>1
  <2>4. ASSUME NEW S \in Small(n + 1) PROVE Body(rows, f, S) = Body(rows, g, S)
    <3>1. ASSUME S # {} PROVE f[S \ {LastOf(rows, S)}] = g[S \ {LastOf(rows, S)}]
      <4>1. S \ {LastOf(rows, S)} \in Small(n)
        <5>1. S \in SUBSET DOMAIN rows /\ Cardinality(S) <= n + 1
          OBVIOUS
        <5>2. PICK R : R = S \ {LastOf(rows, S)} /\ R \in SUBSET DOMAIN rows /\ Cardinality(R) = Cardinality(S) - 1
                       /\ Cardinality(S) \in Nat
          BY <3>1, <5>1, OneLess
        <5> QED
          BY <5>1, <5>2
      <4> QED
        BY <2>3, <4>1
    <3> QED
      BY <3>1, BodyReads
  <2> HIDE DEF Small
  <2>5. g = [S \in Small(n + 1) |-> Body(rows, g, S)]
    BY <2>2, <2>4
  <2> QED
    BY <2>5
<1>4. Bad = {}
  <2> SUFFICES ASSUME Bad # {} PROVE FALSE
    OBVIOUS
  <2> HIDE DEF P
  <2>1. Bad \in SUBSET Nat
    OBVIOUS
  <2>2. PICK m \in Bad : \A n \in Bad : m <= n
    BY <2>1, LeastNumber
  <2>3. m \in Nat /\ ~P(m) /\ m # 0
    BY <1>2, <2>2
  <2>4. m - 1 \in Nat /\ P(m - 1)
    BY <2>2, <2>3
  <2>5. P(m - 1 + 1)
    BY <1>3, <2>4
  <2> QED
    BY <2>3, <2>4, <2>5
<1>5. PICK N \in Nat : N = Cardinality(DOMAIN rows)
  BY <1>1
<1>6. Small(N) = SUBSET DOMAIN rows
  <2>1. \A S \in SUBSET DOMAIN rows : Cardinality(S) <= N
    BY <1>5, FS_Subset DEF TradeBook
  <2> QED
    BY <2>1
<1>7. P(N)
  BY <1>4
<1> HIDE DEF Small, Bad
<1>8. PICK f : f = [S \in Small(N) |-> Body(rows, f, S)]
  BY <1>7
<1> QED
  BY <1>6, <1>8 DEF Replays

\* The replay is what such a function makes of all rows.
RunOf(rows) == CHOOSE run : Replays(rows, run)

LEMMA ReplayIsThat == ASSUME NEW rows PROVE Replay(rows) = RunOf(rows)[DOMAIN rows]
BY DEF Replay, RunOf, Replays, Body, Taken

\* The replay of some rows continues the one of all of them but the last.
LEMMA ReplaySteps ==
    ASSUME NEW rows, TradeBook(rows)
    PROVE  /\ RunOf(rows)[{}] = Nothing(rows)
           /\ \A S \in SUBSET DOMAIN rows : S # {} =>
                 RunOf(rows)[S] = Taken(rows, RunOf(rows)[S \ {LastOf(rows, S)}], LastOf(rows, S))
<1>1. PICK run : run = RunOf(rows)
  OBVIOUS
<1>2. run = [S \in SUBSET DOMAIN rows |-> Body(rows, run, S)]
  BY <1>1, ReplayExists DEF Replays, RunOf
<1>3. \A S \in SUBSET DOMAIN rows : run[S] = Body(rows, run, S)
  BY <1>2
<1> QED
  BY <1>1, <1>3 DEF Body

\* Whatever rows it replays, the result is of its type: no negative quantity or cost.
LEMMA RunType == ASSUME NEW rows, TradeBook(rows) PROVE \A S \in SUBSET DOMAIN rows : RunOf(rows)[S] \in Runs(DOMAIN rows)
<1> DEFINE W == {S \in SUBSET DOMAIN rows : RunOf(rows)[S] \notin Runs(DOMAIN rows)}
<1>1. W = {}
  <2> SUFFICES ASSUME W # {} PROVE FALSE
    OBVIOUS
  <2>1. W \in SUBSET (SUBSET DOMAIN rows) /\ IsFiniteSet(DOMAIN rows)
    BY DEF TradeBook
  <2> HIDE DEF W
  <2>2. PICK S \in W : \A T \in W : T \subseteq S => T = S
    BY <2>1, SmallestSet
  <2> USE DEF W
  <2>3. Nothing(rows) \in Runs(DOMAIN rows)
    BY DEF Nothing, Runs
  <2>4. S # {}
    BY <2>3, ReplaySteps
  <2>5. PICK t : t = LastOf(rows, S) /\ t \in S
    BY <2>4, LastIsThere
  <2>6. S \ {t} \notin W
    BY <2>2, <2>5
  <2>7. RunOf(rows)[S \ {t}] \in Runs(DOMAIN rows) /\ t \in DOMAIN rows
    BY <2>5, <2>6
  <2> QED
    BY <2>4, <2>5, <2>7, TakenType, ReplaySteps
<1> QED
  BY <1>1

\* What the replay computes is of its type.
LEMMA ReplayType == ASSUME NEW rows, TradeBook(rows) PROVE Replay(rows) \in Runs(DOMAIN rows)
BY RunType, ReplayIsThat

\* The replay of no trades.
LEMMA ReplayOfNone == ASSUME NEW rows, DOMAIN rows = {} PROVE Replay(rows) = Nothing(rows)
<1>1. TradeBook(rows)
  BY FS_EmptySet DEF TradeBook
<1> QED
  BY <1>1, ReplaySteps, ReplayIsThat

-----------------------------------------------------------------------------
(* What the replay does not read *)

\* Rows of the same types, quantities, prices, fees and dates.
Alike(a, b) ==
    /\ DOMAIN a = DOMAIN b
    /\ \A t \in DOMAIN a : /\ a[t].type = b[t].type /\ a[t].qty = b[t].qty /\ a[t].price = b[t].price
                           /\ a[t].fee = b[t].fee /\ a[t].date = b[t].date

\* The replay reads these fields and no others: the stored profits, above all, do not
\* enter into the ones it computes.
LEMMA ReplayReads == ASSUME NEW a, NEW b, TradeBook(a), TradeBook(b), Alike(a, b) PROVE Replay(a) = Replay(b)
<1>1. DOMAIN a = DOMAIN b /\ Nothing(a) = Nothing(b)
  BY DEF Alike, Nothing
<1>2. \A S \in SUBSET DOMAIN a : LastOf(a, S) = LastOf(b, S)
  <2> SUFFICES ASSUME NEW S \in SUBSET DOMAIN a PROVE LastOf(a, S) = LastOf(b, S)
    OBVIOUS
  <2>1. \A s, t \in S : Before(a, s, t) <=> Before(b, s, t)
    BY DEF Alike, Before
  <2>2. \A t \in S : (\A s \in S \ {t} : Before(a, s, t)) <=> (\A s \in S \ {t} : Before(b, s, t))
    BY <2>1
  <2> QED
    BY <2>2 DEF LastOf
<1>3. \A t \in DOMAIN a : \A prior : Taken(a, prior, t) = Taken(b, prior, t)
  <2> SUFFICES ASSUME NEW t \in DOMAIN a, NEW prior PROVE Taken(a, prior, t) = Taken(b, prior, t)
    OBVIOUS
  <2>1. a[t].type = b[t].type /\ a[t].qty = b[t].qty /\ a[t].price = b[t].price /\ a[t].fee = b[t].fee
    BY DEF Alike
  <2>2. AfterBuy(prior, a[t]) = AfterBuy(prior, b[t])
    BY <2>1 DEF AfterBuy
  <2>3. AfterSell(prior, t, a[t]) = AfterSell(prior, t, b[t])
    BY <2>1 DEF AfterSell, Proceeds
  <2> QED
    BY <2>1, <2>2, <2>3 DEF Taken
<1>4. \A f : \A S \in SUBSET DOMAIN a : Body(a, f, S) = Body(b, f, S)
  <2> SUFFICES ASSUME NEW f, NEW S \in SUBSET DOMAIN a PROVE Body(a, f, S) = Body(b, f, S)
    OBVIOUS
  <2>1. CASE S = {}
    BY <1>1, <2>1 DEF Body
  <2>2. CASE S # {}
    <3>1. LastOf(a, S) \in DOMAIN a
      BY <2>2, OneLess
    <3> QED
      BY <1>2, <1>3, <2>2, <3>1 DEF Body
  <2> QED
    BY <2>1, <2>2
<1>5. \A f : Replays(a, f) <=> Replays(b, f)
  <2> SUFFICES ASSUME NEW f PROVE Replays(a, f) <=> Replays(b, f)
    OBVIOUS
  <2>1. [S \in SUBSET DOMAIN a |-> Body(a, f, S)] = [S \in SUBSET DOMAIN b |-> Body(b, f, S)]
    BY <1>1, <1>4
  <2> QED
    BY <2>1 DEF Replays
<1>6. RunOf(a) = RunOf(b)
  BY <1>5 DEF RunOf
<1> QED
  BY <1>1, <1>6, ReplayIsThat

-----------------------------------------------------------------------------
(* What a step does to the numbers *)

\* Division leaves a remainder that is smaller than the divisor.
LEMMA Division ==
    ASSUME NEW x \in Nat, NEW y \in Nat \ {0}
    PROVE  \E q, r \in Nat : q = x \div y /\ r = x % y /\ x = q * y + r /\ r < y
<1>1. x \div y \in Nat /\ x % y \in Nat /\ x = y * (x \div y) + (x % y) /\ x % y < y
  OBVIOUS
<1> QED
  BY <1>1

\* A rounded number is at most half a unit off.
LEMMA RoundedNear ==
    ASSUME NEW a \in Int, NEW b \in Nat \ {0}
    PROVE  2 * (RoundHalfUp(a, b) * b - a) <= b /\ -b <= 2 * (RoundHalfUp(a, b) * b - a)
<1>1. Abs(a) \in Nat /\ (a < 0 => Abs(a) = -a) /\ (~(a < 0) => Abs(a) = a)
  BY DEF Abs
<1>2. PICK x, y : x = 2 * Abs(a) + b /\ y = 2 * b
  OBVIOUS
<1>3. x \in Nat /\ y \in Nat \ {0}
  BY <1>1, <1>2
<1>4. PICK q, r \in Nat : q = x \div y /\ x = q * y + r /\ r < y
  BY <1>3, Division
<1>5. PICK m \in Nat : m = q * b
  OBVIOUS
<1>6. q * y = 2 * m
  BY <1>2, <1>5
<1>7. 2 * (m - Abs(a)) <= b /\ -b <= 2 * (m - Abs(a))
  BY <1>1, <1>2, <1>4, <1>6
<1>8. RoundHalfUp(a, b) = IF a < 0 THEN -q ELSE q
  BY <1>2, <1>4 DEF RoundHalfUp
<1>9. (-q) * b = -m
  BY <1>5
<1> QED
  BY <1>1, <1>5, <1>7, <1>8, <1>9

\* A purchase adds its quantity and, over the running denominator, what it cost.
LEMMA Bought ==
    ASSUME NEW rows, TradeBook(rows), NEW prior \in Runs(DOMAIN rows), NEW t \in DOMAIN rows,
           ~prior.short, rows[t].type = "BUY", NEW run, run = Taken(rows, prior, t)
    PROVE  /\ run.qty = prior.qty + rows[t].qty /\ run.den = prior.den /\ run.pnl = prior.pnl /\ ~run.short
           /\ run.num = prior.num + Settlement(rows[t]) * prior.den
           /\ Settlement(rows[t]) \in Nat
<1>1. Settlement(rows[t]) = rows[t].qty * rows[t].price + rows[t].fee
  BY DEF Settlement
<1>2. PICK qty, price, fee \in Nat : qty = rows[t].qty /\ price = rows[t].price /\ fee = rows[t].fee
  BY DEF TradeBook
<1>3. qty * price + fee \in Nat
  OBVIOUS
<1>4. run = [prior EXCEPT !.qty = prior.qty + rows[t].qty,
                          !.num = prior.num + Settlement(rows[t]) * prior.den]
  BY <1>1 DEF Taken, AfterBuy
<1> QED
  BY <1>1, <1>2, <1>3, <1>4 DEF Runs

\* A sale leaves its share of the cost and books the difference of the two as its profit;
\* it does so with no less than it sells.
LEMMA Sold ==
    ASSUME NEW rows, TradeBook(rows), NEW prior \in Runs(DOMAIN rows), NEW t \in DOMAIN rows,
           ~prior.short, rows[t].type # "BUY", NEW run, run = Taken(rows, prior, t), ~run.short
    PROVE  /\ rows[t].qty <= prior.qty /\ prior.qty \in Nat \ {0} /\ Settlement(rows[t]) \in Int
           /\ run.qty = prior.qty - rows[t].qty
           /\ run.num = IF run.qty = 0 THEN 0 ELSE prior.num * run.qty
           /\ run.den = IF run.qty = 0 THEN 1 ELSE prior.den * prior.qty
           /\ run.pnl = [prior.pnl EXCEPT ![t] =
                           RoundHalfUp(Settlement(rows[t]) * prior.den * prior.qty - prior.num * rows[t].qty,
                                       prior.den * prior.qty)]
<1>1. Settlement(rows[t]) = rows[t].qty * rows[t].price - rows[t].fee
  BY DEF Settlement
<1>2. PICK qty, price, fee \in Nat : qty = rows[t].qty /\ price = rows[t].price /\ fee = rows[t].fee /\ qty # 0
  BY DEF TradeBook
<1>3. qty * price - fee \in Int
  OBVIOUS
<1>4. prior.qty \in Nat
  BY DEF Runs
<1>5. ~(rows[t].qty > prior.qty)
  <2> SUFFICES ASSUME rows[t].qty > prior.qty PROVE FALSE
    OBVIOUS
  <2>1. run = [prior EXCEPT !.short = TRUE]
    BY DEF Taken, AfterSell
  <2> QED
    BY <2>1 DEF Runs
<1>6. PICK rest, n, d, p :
        /\ rest = prior.qty - rows[t].qty
        /\ n = IF rest = 0 THEN 0 ELSE prior.num * rest
        /\ d = IF rest = 0 THEN 1 ELSE prior.den * prior.qty
        /\ p = RoundHalfUp(Settlement(rows[t]) * prior.den * prior.qty - prior.num * rows[t].qty,
                           prior.den * prior.qty)
  OBVIOUS
<1>7. run = [prior EXCEPT !.qty = rest, !.num = n, !.den = d, !.pnl = [prior.pnl EXCEPT ![t] = p]]
  BY <1>1, <1>5, <1>6 DEF Taken, AfterSell, Proceeds
<1>8. run.qty = rest /\ run.num = n /\ run.den = d /\ run.pnl = [prior.pnl EXCEPT ![t] = p]
  BY <1>7 DEF Runs
<1> QED
  BY <1>1, <1>2, <1>3, <1>4, <1>5, <1>6, <1>8

\* What could not be sold once stays so.
LEMMA ShortStays ==
    ASSUME NEW rows, NEW prior, NEW t, ~Taken(rows, prior, t).short
    PROVE  ~prior.short
BY DEF Taken

-----------------------------------------------------------------------------
(* Quantities and money over a replay *)

Buys(rows, S)  == {t \in S : rows[t].type = "BUY"}
Sells(rows, S) == {t \in S : rows[t].type = "SELL"}

Qtys(rows)        == [t \in DOMAIN rows |-> rows[t].qty]
Settlements(rows) == [t \in DOMAIN rows |-> Settlement(rows[t])]

\* Inequalities may be multiplied, and divided by what is positive.
LEMMA Scaled ==
    ASSUME NEW a \in Int, NEW b \in Int, NEW n \in Nat
    PROVE  (a <= b => n * a <= n * b) /\ (n * a <= n * b /\ n # 0 => a <= b)
<1>1. \A x, y \in Nat : x * y \in Nat
  OBVIOUS
<1>2. CASE a <= b
  <2>1. PICK d \in Nat : b = a + d
    BY <1>2
  <2>2. n * b = n * a + n * d /\ n * d \in Nat
    BY <1>1, <2>1
  <2> QED
    BY <1>2, <2>2
<1>3. CASE ~(a <= b)
  <2>1. PICK d \in Nat : a = b + 1 + d
    BY <1>3
  <2>2. n * a = n * b + n + n * d /\ n * d \in Nat
    BY <1>1, <2>1
  <2> QED
    BY <1>3, <2>2
<1> QED
  BY <1>2, <1>3

\* Net cost and profits deviate from the running cost by half a unit per sale at most.
Near(den, money, num, k) ==
    2 * (den * money - num) <= den * k /\ -(den * k) <= 2 * (den * money - num)

\* A sale adds half a unit to what the cost may deviate, whether it leaves something ...
LEMMA SaleOfSome ==
    ASSUME NEW den \in Nat, NEW qty \in Nat, NEW num \in Nat, NEW money \in Int, NEW k \in Int,
           NEW q \in Int, NEW s \in Int, NEW p \in Int,
           Near(den, money, num, k),
           2 * (p * (den * qty) - (s * den * qty - num * q)) <= den * qty,
           -(den * qty) <= 2 * (p * (den * qty) - (s * den * qty - num * q))
    PROVE  Near(den * qty, money - s + p, num * (qty - q), k + 1)
<1>1. PICK X \in Int : X = den * money - num
  OBVIOUS
<1>2. PICK E \in Int : E = p * (den * qty) - (s * den * qty - num * q)
  OBVIOUS
<1>3. (den * qty) * (money - s + p) - num * (qty - q) = qty * X + E
  <2>1. qty * X = qty * den * money - qty * num
    BY <1>1
  <2>2. (den * qty) * (money - s + p) = qty * den * money - s * den * qty + p * (den * qty)
    OBVIOUS
  <2>3. num * (qty - q) = qty * num - num * q
    OBVIOUS
  <2> QED
    BY <1>2, <2>1, <2>2, <2>3
<1>4. PICK D \in Int : D = den * k
  OBVIOUS
<1>5. 2 * X <= D /\ -D <= 2 * X
  BY <1>1, <1>4 DEF Near
<1>6. qty * (2 * X) <= qty * D /\ qty * (-D) <= qty * (2 * X)
  BY <1>5, Scaled
<1>7. qty * D = (den * qty) * k /\ qty * (-D) = -((den * qty) * k) /\ qty * (2 * X) = 2 * (qty * X)
  BY <1>4
<1>8. PICK F, G, H \in Int : F = den * qty /\ G = (den * qty) * k /\ H = qty * X
  OBVIOUS
<1>9. (den * qty) * (k + 1) = G + F
  BY <1>8
<1>10. 2 * H <= G /\ -G <= 2 * H /\ 2 * E <= F /\ -F <= 2 * E
  BY <1>2, <1>6, <1>7, <1>8
<1>11. 2 * (H + E) <= G + F /\ -(G + F) <= 2 * (H + E)
  BY <1>10
<1> QED
  BY <1>3, <1>8, <1>9, <1>11 DEF Near

\* ... or nothing, with which the running cost ends.
LEMMA SaleOfAll ==
    ASSUME NEW den \in Nat \ {0}, NEW money \in Int, NEW k \in Int, Near(den, money, 0, k)
    PROVE  Near(1, money, 0, k)
<1>1. den * (2 * money) = 2 * (den * money - 0) /\ den * (-k) = -(den * k) /\ 1 * money - 0 = money
  OBVIOUS
<1>2. den * (2 * money) <= den * k /\ den * (-k) <= den * (2 * money)
  BY <1>1 DEF Near
<1>3. 2 * money <= k /\ -k <= 2 * money
  BY <1>2, Scaled
<1> QED
  BY <1>1, <1>3 DEF Near

\* The last of some rows is a purchase or a sale more.
LEMMA OneMore ==
    ASSUME NEW rows, TradeBook(rows), NEW S \in SUBSET DOMAIN rows, NEW t \in S
    PROVE  /\ IsFiniteSet(Buys(rows, S)) /\ IsFiniteSet(Sells(rows, S))
           /\ rows[t].type = "BUY" =>
                 /\ t \in Buys(rows, S) /\ Buys(rows, S) \ {t} = Buys(rows, S \ {t})
                 /\ Sells(rows, S) = Sells(rows, S \ {t})
           /\ rows[t].type # "BUY" =>
                 /\ t \in Sells(rows, S) /\ Sells(rows, S) \ {t} = Sells(rows, S \ {t})
                 /\ Buys(rows, S) = Buys(rows, S \ {t})
<1>1. IsFiniteSet(S) /\ Buys(rows, S) \in SUBSET S /\ Sells(rows, S) \in SUBSET S
  BY FS_Subset DEF TradeBook, Buys, Sells
<1>2. rows[t].type \in {"BUY", "SELL"}
  BY DEF TradeBook
<1> QED
  BY <1>1, <1>2, FS_Subset DEF Buys, Sells

\* What was bought less what was sold, and what it cost less what it brought in.
NetQty(rows, S) == Total(Qtys(rows), Buys(rows, S)) - Total(Qtys(rows), Sells(rows, S))
NetCost(rows, S) == Total(Settlements(rows), Buys(rows, S)) - Total(Settlements(rows), Sells(rows, S))

\* The quantities and settlements of trades are whole numbers, and so are their totals.
LEMMA TradeNumbers ==
    ASSUME NEW rows, TradeBook(rows)
    PROVE  /\ \A t \in DOMAIN rows : Qtys(rows)[t] \in Nat /\ Settlements(rows)[t] \in Int
           /\ \A S \in SUBSET DOMAIN rows :
                 /\ NetQty(rows, S) \in Int /\ NetCost(rows, S) \in Int
                 /\ Total(Qtys(rows), S) \in Int /\ Total(Settlements(rows), S) \in Int
<1>1. ASSUME NEW t \in DOMAIN rows PROVE Qtys(rows)[t] \in Nat /\ Settlements(rows)[t] \in Int
  <2>1. PICK qty, price, fee \in Nat : qty = rows[t].qty /\ price = rows[t].price /\ fee = rows[t].fee
    BY DEF TradeBook
  <2>2. qty * price + fee \in Int /\ qty * price - fee \in Int
    OBVIOUS
  <2> QED
    BY <2>1, <2>2 DEF Qtys, Settlements, Settlement
<1>2. \A S \in SUBSET DOMAIN rows : Total(Qtys(rows), S) \in Int /\ Total(Settlements(rows), S) \in Int
  <2> SUFFICES ASSUME NEW S \in SUBSET DOMAIN rows
               PROVE  Total(Qtys(rows), S) \in Int /\ Total(Settlements(rows), S) \in Int
    OBVIOUS
  <2>1. IsFiniteSet(S) /\ (\A t \in S : Qtys(rows)[t] \in Int) /\ \A t \in S : Settlements(rows)[t] \in Int
    BY <1>1, FS_Subset DEF TradeBook
  <2> QED
    BY <2>1, TotalType
<1>3. \A S \in SUBSET DOMAIN rows : Buys(rows, S) \in SUBSET DOMAIN rows /\ Sells(rows, S) \in SUBSET DOMAIN rows
  BY DEF Buys, Sells
<1> QED
  BY <1>1, <1>2, <1>3 DEF NetQty, NetCost

\* One trade more moves its quantity and its money.
LEMMA NetMore ==
    ASSUME NEW rows, TradeBook(rows), NEW S \in SUBSET DOMAIN rows, NEW t \in S
    PROVE  /\ rows[t].type = "BUY" =>
                 /\ NetQty(rows, S) = NetQty(rows, S \ {t}) + rows[t].qty
                 /\ NetCost(rows, S) = NetCost(rows, S \ {t}) + Settlement(rows[t])
           /\ rows[t].type # "BUY" =>
                 /\ NetQty(rows, S) = NetQty(rows, S \ {t}) - rows[t].qty
                 /\ NetCost(rows, S) = NetCost(rows, S \ {t}) - Settlement(rows[t])
<1>1. PICK B, L, C, M : B = Buys(rows, S) /\ L = Sells(rows, S) /\ C = Buys(rows, S \ {t}) /\ M = Sells(rows, S \ {t})
  OBVIOUS
<1>2. /\ B \in SUBSET DOMAIN rows /\ L \in SUBSET DOMAIN rows /\ C \in SUBSET DOMAIN rows /\ M \in SUBSET DOMAIN rows
      /\ IsFiniteSet(B) /\ IsFiniteSet(L)
  BY <1>1, OneMore DEF Buys, Sells
<1>3. /\ \A x \in DOMAIN rows : Qtys(rows)[x] \in Int /\ Settlements(rows)[x] \in Int
      /\ Total(Qtys(rows), C) \in Int /\ Total(Qtys(rows), M) \in Int
      /\ Total(Settlements(rows), C) \in Int /\ Total(Settlements(rows), M) \in Int
  BY <1>2, TradeNumbers
<1>4. Qtys(rows)[t] = rows[t].qty /\ Settlements(rows)[t] = Settlement(rows[t])
  BY DEF Qtys, Settlements
<1>5. CASE rows[t].type = "BUY"
  <2>1. t \in B /\ B \ {t} = C /\ L = M
    BY <1>1, <1>5, OneMore
  <2>2. Total(Qtys(rows), B) = Qtys(rows)[t] + Total(Qtys(rows), C)
    BY <1>2, <1>3, <2>1, TotalOfMore
  <2>3. Total(Settlements(rows), B) = Settlements(rows)[t] + Total(Settlements(rows), C)
    BY <1>2, <1>3, <2>1, TotalOfMore
  <2> QED
    BY <1>1, <1>3, <1>4, <1>5, <2>1, <2>2, <2>3 DEF NetQty, NetCost
<1>6. CASE rows[t].type # "BUY"
  <2>1. t \in L /\ L \ {t} = M /\ B = C
    BY <1>1, <1>6, OneMore
  <2>2. Total(Qtys(rows), L) = Qtys(rows)[t] + Total(Qtys(rows), M)
    BY <1>2, <1>3, <2>1, TotalOfMore
  <2>3. Total(Settlements(rows), L) = Settlements(rows)[t] + Total(Settlements(rows), M)
    BY <1>2, <1>3, <2>1, TotalOfMore
  <2> QED
    BY <1>1, <1>3, <1>4, <1>6, <2>1, <2>2, <2>3 DEF NetQty, NetCost
<1> QED
  BY <1>5, <1>6

\* Where a replay that is never short stands after some of the rows: it holds what was
\* bought and not sold, and money is conserved up to rounding.
Stays(rows, S, run) ==
    /\ run.qty = NetQty(rows, S)
    /\ Near(run.den, NetCost(rows, S) + Total(run.pnl, Sells(rows, S)), run.num, Cardinality(Sells(rows, S)))
    /\ run.qty = 0 => run.num = 0

\* A purchase keeps it so ...
LEMMA BuyStays ==
    ASSUME NEW rows, TradeBook(rows), NEW S \in SUBSET DOMAIN rows, NEW t \in S, NEW prior \in Runs(DOMAIN rows),
           ~prior.short, rows[t].type = "BUY", Stays(rows, S \ {t}, prior), NEW run, run = Taken(rows, prior, t)
    PROVE  Stays(rows, S, run)
<1>1. PICK s \in Nat : s = Settlement(rows[t])
  BY Bought
<1>2. /\ run.qty = prior.qty + rows[t].qty /\ run.den = prior.den /\ run.pnl = prior.pnl
      /\ run.num = prior.num + s * prior.den
  BY <1>1, Bought
<1>3. Sells(rows, S) = Sells(rows, S \ {t}) /\ NetQty(rows, S) = NetQty(rows, S \ {t}) + rows[t].qty
      /\ NetCost(rows, S) = NetCost(rows, S \ {t}) + s
  <2>1. Sells(rows, S) = Sells(rows, S \ {t})
    BY OneMore
  <2>2. NetQty(rows, S) = NetQty(rows, S \ {t}) + rows[t].qty /\ NetCost(rows, S) = NetCost(rows, S \ {t}) + Settlement(rows[t])
    BY NetMore
  <2> QED
    BY <1>1, <2>1, <2>2
<1>4. PICK C, P : C = NetCost(rows, S \ {t}) /\ P = Total(prior.pnl, Sells(rows, S))
  OBVIOUS
<1>5. C \in Int /\ P \in Int /\ prior.num \in Int /\ prior.den \in Int /\ prior.qty \in Nat /\ rows[t].qty \in Nat \ {0}
  <2>1. IsFiniteSet(Sells(rows, S)) /\ prior.pnl \in [DOMAIN rows -> Int] /\ Sells(rows, S) \in SUBSET DOMAIN rows
    BY OneMore DEF Runs, Sells
  <2> QED
    BY <1>4, <2>1, TotalType, TradeNumbers DEF Runs, TradeBook
<1>6. run.den * (C + s + P) - run.num = prior.den * (C + P) - prior.num
  <2>1. PICK d \in Int, n \in Int : d = prior.den /\ n = prior.num
    BY <1>5
  <2>2. d * (C + s + P) - (n + s * d) = d * (C + P) - n
    BY <1>5
  <2> QED
    BY <1>2, <2>1, <2>2
<1> QED
  BY <1>2, <1>3, <1>4, <1>5, <1>6 DEF Stays, Near

\* ... and so does a sale.
LEMMA SaleStays ==
    ASSUME NEW rows, TradeBook(rows), NEW S \in SUBSET DOMAIN rows, NEW t \in S, NEW prior \in Runs(DOMAIN rows),
           ~prior.short, rows[t].type # "BUY", Stays(rows, S \ {t}, prior), NEW run, run = Taken(rows, prior, t),
           ~run.short
    PROVE  Stays(rows, S, run)
<1>1. PICK s \in Int : s = Settlement(rows[t])
  BY Sold
<1>2. PICK q, qty, den, num, pnl, p :
        /\ q = rows[t].qty /\ qty = prior.qty /\ den = prior.den /\ num = prior.num /\ pnl = prior.pnl
        /\ p = RoundHalfUp(s * den * qty - num * q, den * qty)
  OBVIOUS
<1>3. /\ q <= qty /\ qty \in Nat \ {0}
      /\ run.qty = qty - q
      /\ run.num = IF run.qty = 0 THEN 0 ELSE num * run.qty
      /\ run.den = IF run.qty = 0 THEN 1 ELSE den * qty
      /\ run.pnl = [pnl EXCEPT ![t] = p]
  BY <1>1, <1>2, Sold
<1>4. q \in Nat \ {0} /\ den \in Nat \ {0} /\ num \in Nat /\ pnl \in [DOMAIN rows -> Int]
  BY <1>2 DEF Runs, TradeBook
<1>5. den * qty \in Nat \ {0} /\ s * den * qty - num * q \in Int
  BY <1>3, <1>4
<1>6. p \in Int /\ 2 * (p * (den * qty) - (s * den * qty - num * q)) <= den * qty
      /\ -(den * qty) <= 2 * (p * (den * qty) - (s * den * qty - num * q))
  BY <1>2, <1>5, RoundedType, RoundedNear
<1>7. PICK L, M, k : L = Sells(rows, S) /\ M = Sells(rows, S \ {t}) /\ k = Cardinality(M)
  OBVIOUS
<1>8. t \in L /\ M = L \ {t} /\ IsFiniteSet(L) /\ L \in SUBSET DOMAIN rows
  BY <1>7, OneMore DEF Sells
<1>9. k \in Nat /\ Cardinality(L) = k + 1
  <2>1. Cardinality(L) \in Nat /\ IsFiniteSet(M) /\ Cardinality(M) \in Nat
    BY <1>8, FS_Subset, FS_CardinalityType
  <2>2. Cardinality(L \ {t}) = Cardinality(L) - 1
    BY <1>8, FS_RemoveElement
  <2>3. k = Cardinality(L) - 1 /\ k \in Nat
    BY <1>7, <1>8, <2>1, <2>2, Zenon
  <2> QED
    BY <2>1, <2>3
<1>10. PICK C, P : C = NetCost(rows, S \ {t}) /\ P = Total(pnl, M)
  OBVIOUS
<1>11. C \in Int /\ P \in Int
  <2>1. IsFiniteSet(M) /\ \A x \in M : pnl[x] \in Int
    BY <1>4, <1>8, FS_Subset
  <2> QED
    BY <1>10, <2>1, TotalType, TradeNumbers
<1>12. Total(run.pnl, L) = P + p
  <2>1. \A x \in L : run.pnl[x] \in Int
    BY <1>3, <1>4, <1>6, <1>8
  <2>2. Total(run.pnl, L) = run.pnl[t] + Total(run.pnl, M)
    BY <1>8, <2>1, TotalOfMore
  <2>3. \A x \in M : run.pnl[x] = pnl[x]
    BY <1>3, <1>4, <1>8
  <2>4. Total(run.pnl, M) = P
    BY <1>10, <2>3, TotalSame
  <2>5. run.pnl[t] = p
    BY <1>3, <1>4, <1>8
  <2> QED
    BY <1>6, <1>11, <2>2, <2>4, <2>5
<1>13. NetCost(rows, S) = C - s /\ NetQty(rows, S) = NetQty(rows, S \ {t}) - q
  BY <1>1, <1>2, <1>10, NetMore
<1>14. Near(den, C + P, num, k) /\ qty = NetQty(rows, S \ {t})
  BY <1>2, <1>7, <1>10 DEF Stays
<1>15. Near(den * qty, C + P - s + p, num * (qty - q), k + 1)
  <2>1. den \in Nat /\ qty \in Nat /\ q \in Int /\ C + P \in Int /\ k \in Int
    BY <1>3, <1>4, <1>9, <1>11
  <2>2. PICK money \in Int : money = C + P
    BY <2>1
  <2>3. Near(den * qty, money - s + p, num * (qty - q), k + 1)
    BY <1>4, <1>6, <1>14, <2>1, <2>2, SaleOfSome
  <2> QED
    BY <1>6, <1>9, <1>11, <2>1, <2>2, <2>3 DEF Near
<1>16. Near(run.den, C - s + (P + p), run.num, k + 1)
  <2>1. C + P - s + p = C - s + (P + p) /\ k + 1 \in Int /\ C + P - s + p \in Int
    BY <1>6, <1>9, <1>11
  <2>2. CASE run.qty = 0
    <3>1. num * (qty - q) = 0
      BY <1>3, <1>4, <2>2
    <3>2. Near(1, C + P - s + p, 0, k + 1)
      BY <1>5, <1>15, <2>1, <3>1, SaleOfAll
    <3> QED
      BY <1>3, <2>1, <2>2, <3>2
  <2>3. CASE run.qty # 0
    BY <1>3, <1>15, <2>1, <2>3
  <2> QED
    BY <2>2, <2>3
<1> QED
  BY <1>3, <1>7, <1>9, <1>12, <1>13, <1>14, <1>16 DEF Stays

\* So it is after any rows whose replay is not short.
LEMMA RunStays ==
    ASSUME NEW rows, TradeBook(rows)
    PROVE  \A S \in SUBSET DOMAIN rows : ~RunOf(rows)[S].short => Stays(rows, S, RunOf(rows)[S])
<1> DEFINE run == RunOf(rows)
           W == {S \in SUBSET DOMAIN rows : ~(~run[S].short => Stays(rows, S, run[S]))}
<1>1. W = {}
  <2> SUFFICES ASSUME W # {} PROVE FALSE
    OBVIOUS
  <2>1. W \in SUBSET (SUBSET DOMAIN rows) /\ IsFiniteSet(DOMAIN rows)
    BY DEF TradeBook
  <2> HIDE DEF W
  <2>2. PICK S \in W : \A T \in W : T \subseteq S => T = S
    BY <2>1, SmallestSet
  <2> USE DEF W
  <2> HIDE DEF run
  <2>3. Stays(rows, {}, Nothing(rows))
    <3>1. Buys(rows, {}) = {} /\ Sells(rows, {}) = {} /\ Cardinality({}) = 0
      BY FS_EmptySet DEF Buys, Sells
    <3>2. NetQty(rows, {}) = 0 /\ NetCost(rows, {}) = 0 /\ Total(Nothing(rows).pnl, {}) = 0
      BY <3>1, TotalOfNone DEF NetQty, NetCost
    <3> QED
      BY <3>1, <3>2 DEF Stays, Near, Nothing
  <2>4. S # {}
    BY <2>3, ReplaySteps DEF run
  <2>5. PICK t : t = LastOf(rows, S) /\ t \in S
    BY <2>4, LastIsThere
  <2>6. S \ {t} \notin W /\ S \in SUBSET DOMAIN rows /\ t \in DOMAIN rows
    BY <2>2, <2>5
  <2>7. PICK prior : prior = run[S \ {t}]
    OBVIOUS
  <2>8. prior \in Runs(DOMAIN rows) /\ run[S] = Taken(rows, prior, t)
    BY <2>4, <2>5, <2>6, <2>7, RunType, ReplaySteps DEF run
  <2>9. ~run[S].short /\ ~Stays(rows, S, run[S])
    OBVIOUS
  <2>10. ~prior.short
    BY <2>8, <2>9, ShortStays
  <2>11. Stays(rows, S \ {t}, prior)
    BY <2>6, <2>7, <2>10
  <2> HIDE DEF W
  <2>12. CASE rows[t].type = "BUY"
    BY <2>5, <2>6, <2>8, <2>9, <2>10, <2>11, <2>12, BuyStays
  <2>13. CASE rows[t].type # "BUY"
    BY <2>5, <2>6, <2>8, <2>9, <2>10, <2>11, <2>13, SaleStays
  <2> QED
    BY <2>12, <2>13
<1> QED
  BY <1>1

-----------------------------------------------------------------------------
(* What the replay and the SQL aggregate promise *)

\* The sums of the model are totals.
LEMMA QtyTotals ==
    ASSUME NEW rows, NEW S \in SUBSET DOMAIN rows
    PROVE  MapThenSumSet(LAMBDA t : rows[t].qty, S) = Total(Qtys(rows), S)
<1> DEFINE Sum(sum) == sum = [T \in SUBSET S |-> IF T = {} THEN 0 ELSE rows[Pick(T)].qty + sum[T \ {Pick(T)}]]
<1>1. MapThenSumSet(LAMBDA t : rows[t].qty, S) = (CHOOSE sum : Sum(sum))[S]
  BY DEF MapThenSumSet, MapThenFoldSet, Pick
<1>2. \A sum : Sum(sum) <=> Sums(Qtys(rows), S, sum)
  <2> SUFFICES ASSUME NEW sum PROVE Sum(sum) <=> Sums(Qtys(rows), S, sum)
    OBVIOUS
  <2>1. \A T \in SUBSET S : T # {} => Pick(T) \in DOMAIN rows
    BY DEF Pick
  <2>2. \A T \in SUBSET S : SumBody(Qtys(rows), sum, T) = IF T = {} THEN 0 ELSE rows[Pick(T)].qty + sum[T \ {Pick(T)}]
    BY <2>1 DEF SumBody, Qtys
  <2> QED
    BY <2>2 DEF Sums
<1> HIDE DEF Sum
<1>3. (CHOOSE sum : Sum(sum)) = (CHOOSE sum : Sums(Qtys(rows), S, sum))
  BY <1>2
<1> QED
  BY <1>1, <1>3, TotalIs

\* The same of the settlements.
LEMMA SettlementTotals ==
    ASSUME NEW rows, NEW S \in SUBSET DOMAIN rows
    PROVE  MapThenSumSet(LAMBDA t : Settlement(rows[t]), S) = Total(Settlements(rows), S)
<1> DEFINE Sum(sum) == sum = [T \in SUBSET S |-> IF T = {} THEN 0 ELSE Settlement(rows[Pick(T)]) + sum[T \ {Pick(T)}]]
<1>1. MapThenSumSet(LAMBDA t : Settlement(rows[t]), S) = (CHOOSE sum : Sum(sum))[S]
  BY DEF MapThenSumSet, MapThenFoldSet, Pick
<1>2. \A sum : Sum(sum) <=> Sums(Settlements(rows), S, sum)
  <2> SUFFICES ASSUME NEW sum PROVE Sum(sum) <=> Sums(Settlements(rows), S, sum)
    OBVIOUS
  <2>1. \A T \in SUBSET S : T # {} => Pick(T) \in DOMAIN rows
    BY DEF Pick
  <2>2. \A T \in SUBSET S : SumBody(Settlements(rows), sum, T)
                               = IF T = {} THEN 0 ELSE Settlement(rows[Pick(T)]) + sum[T \ {Pick(T)}]
    BY <2>1 DEF SumBody, Settlements
  <2> QED
    BY <2>2 DEF Sums
<1> HIDE DEF Sum
<1>3. (CHOOSE sum : Sum(sum)) = (CHOOSE sum : Sums(Settlements(rows), S, sum))
  BY <1>2
<1> QED
  BY <1>1, <1>3, TotalIs

\* Money is conserved by a replay that is not short: the profits of the sales are what they
\* brought in beyond what everything cost, but for what the rest is worth at the stored average.
LEMMA ReplayConserves ==
    ASSUME NEW rows, TradeBook(rows), NEW run, run = Replay(rows), ~run.short, NEW k, NEW gain,
           k = Cardinality(Sells(rows, DOMAIN rows)), gain = Total(run.pnl, Sells(rows, DOMAIN rows))
    PROVE  /\ gain \in Int /\ k \in Nat /\ NetCost(rows, DOMAIN rows) \in Int /\ AvgPrice(run) \in Nat
           /\ 2 * Abs(-NetCost(rows, DOMAIN rows) + run.qty * AvgPrice(run) - gain) <= run.qty + k
<1>1. run \in Runs(DOMAIN rows) /\ run = RunOf(rows)[DOMAIN rows]
  BY ReplayType, ReplayIsThat
<1>2. Stays(rows, DOMAIN rows, run)
  BY <1>1, RunStays
<1>3. PICK qty, num, den, cost, avg :
        /\ qty = run.qty /\ num = run.num /\ den = run.den /\ cost = NetCost(rows, DOMAIN rows) /\ avg = AvgPrice(run)
  OBVIOUS
<1>4. qty \in Nat /\ num \in Nat /\ den \in Nat \ {0} /\ cost \in Int
  BY <1>1, <1>3, TradeNumbers DEF Runs
<1>5. gain \in Int /\ k \in Nat
  <2>1. IsFiniteSet(DOMAIN rows) /\ Sells(rows, DOMAIN rows) \in SUBSET DOMAIN rows /\ run.pnl \in [DOMAIN rows -> Int]
    BY <1>1 DEF TradeBook, Sells, Runs
  <2>2. IsFiniteSet(Sells(rows, DOMAIN rows)) /\ \A t \in Sells(rows, DOMAIN rows) : run.pnl[t] \in Int
    BY <2>1, FS_Subset
  <2> QED
    BY <2>2, TotalType, FS_CardinalityType
<1>6. Near(den, cost + gain, num, k) /\ (qty = 0 => num = 0)
  BY <1>2, <1>3 DEF Stays
<1>7. den * qty \in Nat /\ (qty # 0 => den * qty \in Nat \ {0})
  BY <1>4
<1>8. avg \in Nat /\ 2 * (avg * (den * qty) - num) <= den * qty /\ -(den * qty) <= 2 * (avg * (den * qty) - num)
  <2>1. CASE qty = 0
    <3>1. avg = 0
      BY <1>3, <2>1 DEF AvgPrice
    <3>2. den * qty = 0 /\ avg * (den * qty) = 0
      BY <1>4, <2>1, <3>1
    <3> QED
      BY <1>6, <2>1, <3>1, <3>2
  <2>2. CASE qty # 0
    <3>1. avg = RoundHalfUp(num, den * qty)
      BY <1>3, <1>4, <2>2 DEF AvgPrice
    <3> QED
      BY <1>4, <1>7, <2>2, <3>1, RoundedType, RoundedNear
  <2> QED
    BY <2>1, <2>2
<1>9. PICK F, K, A, M \in Int : F = den * qty /\ K = den * k /\ A = avg * (den * qty) /\ M = den * (cost + gain)
  BY <1>4, <1>5, <1>8
<1>10. 2 * (M - num) <= K /\ -K <= 2 * (M - num) /\ 2 * (A - num) <= F /\ -F <= 2 * (A - num)
  BY <1>6, <1>8, <1>9 DEF Near
<1>11. 2 * (A - M) <= F + K /\ -(F + K) <= 2 * (A - M)
  BY <1>4, <1>9, <1>10
<1>12. PICK X \in Int : X = -cost + qty * avg - gain
  BY <1>4, <1>5, <1>8
<1>13. den * (2 * X) = 2 * (A - M) /\ den * (qty + k) = F + K /\ den * (-(qty + k)) = -(F + K)
  <2>1. den * (qty * avg) = A
    BY <1>4, <1>8, <1>9
  <2>2. den * X = A - M
    BY <1>4, <1>5, <1>8, <1>9, <1>12, <2>1
  <2>3. den * (2 * X) = 2 * (den * X)
    BY <1>4
  <2> QED
    BY <1>4, <1>5, <1>9, <2>2, <2>3
<1>14. 2 * X <= qty + k /\ -(qty + k) <= 2 * X
  <2>1. 2 * X \in Int /\ qty + k \in Int /\ -(qty + k) \in Int
    BY <1>4, <1>5
  <2>2. den * (2 * X) <= den * (qty + k) /\ den * (-(qty + k)) <= den * (2 * X)
    BY <1>11, <1>13
  <2> QED
    BY <1>4, <2>1, <2>2, Scaled
<1>15. 2 * Abs(X) <= qty + k
  BY <1>4, <1>5, <1>12, <1>14 DEF Abs
<1> QED
  BY <1>3, <1>4, <1>5, <1>8, <1>12, <1>15

\* The rows that come before a sale decide whether it is covered: rows up to some point of
\* time are not short when all of them are not.
LEMMA EarlierCovered ==
    ASSUME NEW rows, TradeBook(rows), ~Replay(rows).short, NEW d \in Nat, NEW D,
           D = {t \in DOMAIN rows : rows[t].date <= d}
    PROVE  ~RunOf(rows)[D].short
<1> DEFINE W == {S \in SUBSET DOMAIN rows : D \subseteq S /\ ~RunOf(rows)[S].short}
<1>1. W \in SUBSET (SUBSET DOMAIN rows) /\ IsFiniteSet(DOMAIN rows)
  BY DEF TradeBook
<1>2. DOMAIN rows \in W
  BY ReplayIsThat
<1> HIDE DEF W
<1>3. PICK S \in W : \A T \in W : T \subseteq S => T = S
  BY <1>1, <1>2, SmallestSet
<1> USE DEF W
<1>4. S = D
  <2> SUFFICES ASSUME S # D PROVE FALSE
    OBVIOUS
  <2>1. S \in SUBSET DOMAIN rows /\ D \subseteq S /\ S # {} /\ ~RunOf(rows)[S].short
    OBVIOUS
  <2>2. PICK t : t = LastOf(rows, S) /\ t \in S
    BY <2>1, LastIsThere
  <2>3. \A s \in S \ {t} : Before(rows, s, t)
    <3>1. \E x \in S : \A s \in S \ {x} : Before(rows, s, x)
      BY <2>1, LastFollows
    <3> QED
      BY <2>2, <3>1 DEF LastOf
  <2>4. t \notin D
    <3> SUFFICES ASSUME t \in D PROVE FALSE
      OBVIOUS
    <3>1. \A s \in S : rows[s].date \in Nat
      BY <2>1 DEF TradeBook
    <3>2. \A s \in S : rows[s].date <= rows[t].date
      BY <2>2, <2>3, <3>1 DEF Before
    <3>3. \A s \in S : rows[s].date <= d
      BY <2>2, <3>1, <3>2
    <3> QED
      BY <2>1, <3>3
  <2>5. RunOf(rows)[S] = Taken(rows, RunOf(rows)[S \ {t}], t)
    BY <2>1, <2>2, ReplaySteps
  <2>6. ~RunOf(rows)[S \ {t}].short
    BY <2>1, <2>5, ShortStays
  <2>7. S \ {t} \in W
    BY <2>1, <2>4, <2>6
  <2> QED
    BY <1>3, <2>2, <2>7
<1> QED
  BY <1>4

\* The quantity that the SQL aggregate finds at a date is what the replay of the rows up to
\* that date holds: not negative, and in the end the quantity of the position.
LEMMA AsOfIsHeld ==
    ASSUME NEW rows, TradeBook(rows), ~Replay(rows).short, NEW d \in Nat
    PROVE  /\ AsOfQty(rows, d) \in Nat
           /\ (\A t \in DOMAIN rows : rows[t].date <= d) => AsOfQty(rows, d) = Replay(rows).qty
<1> DEFINE D == {t \in DOMAIN rows : rows[t].date <= d}
<1>1. UpTo(rows, d, "BUY") = Buys(rows, D) /\ UpTo(rows, d, "SELL") = Sells(rows, D)
  BY DEF UpTo, Buys, Sells
<1>2. Buys(rows, D) \in SUBSET DOMAIN rows /\ Sells(rows, D) \in SUBSET DOMAIN rows /\ D \in SUBSET DOMAIN rows
  BY DEF Buys, Sells
<1>3. AsOfQty(rows, d) = NetQty(rows, D)
  BY <1>1, <1>2, QtyTotals DEF AsOfQty, NetQty
<1>4. ~RunOf(rows)[D].short
  BY EarlierCovered
<1>5. RunOf(rows)[D].qty = NetQty(rows, D) /\ RunOf(rows)[D].qty \in Nat
  BY <1>2, <1>4, RunStays, RunType DEF Stays, Runs
<1>6. (\A t \in DOMAIN rows : rows[t].date <= d) => D = DOMAIN rows
  OBVIOUS
<1> HIDE DEF D
<1> QED
  BY <1>3, <1>5, <1>6, ReplayIsThat

\* While nothing is sold, the cost is what the purchases came to.
LEMMA OnlyBuys ==
    ASSUME NEW rows, TradeBook(rows), \A t \in DOMAIN rows : rows[t].type = "BUY"
    PROVE  \A S \in SUBSET DOMAIN rows :
              /\ ~RunOf(rows)[S].short /\ RunOf(rows)[S].den = 1
              /\ RunOf(rows)[S].num = NetCost(rows, S) /\ NetCost(rows, S) = Total(Settlements(rows), S)
<1> DEFINE run == RunOf(rows)
           Plain(S) == ~run[S].short /\ run[S].den = 1 /\ run[S].num = NetCost(rows, S)
           W == {S \in SUBSET DOMAIN rows : ~Plain(S)}
<1>1. W = {}
  <2> SUFFICES ASSUME W # {} PROVE FALSE
    OBVIOUS
  <2>1. W \in SUBSET (SUBSET DOMAIN rows) /\ IsFiniteSet(DOMAIN rows)
    BY DEF TradeBook
  <2> HIDE DEF W
  <2>2. PICK S \in W : \A T \in W : T \subseteq S => T = S
    BY <2>1, SmallestSet
  <2> USE DEF W
  <2> HIDE DEF run
  <2>3. Plain({})
    <3>1. Buys(rows, {}) = {} /\ Sells(rows, {}) = {}
      BY DEF Buys, Sells
    <3>2. Total(Settlements(rows), {}) = 0 /\ NetCost(rows, {}) = Total(Settlements(rows), {}) - Total(Settlements(rows), {})
      BY <3>1, TotalOfNone DEF NetCost
    <3>3. run[{}] = Nothing(rows)
      BY ReplaySteps DEF run
    <3> QED
      BY <3>2, <3>3 DEF Nothing
  <2>4. S # {}
    BY <2>3
  <2>5. PICK t : t = LastOf(rows, S) /\ t \in S
    BY <2>4, LastIsThere
  <2>6. S \ {t} \notin W /\ S \in SUBSET DOMAIN rows /\ t \in DOMAIN rows
    BY <2>2, <2>5
  <2>7. PICK prior : prior = run[S \ {t}]
    OBVIOUS
  <2>8. prior \in Runs(DOMAIN rows) /\ run[S] = Taken(rows, prior, t)
    BY <2>4, <2>5, <2>6, <2>7, RunType, ReplaySteps DEF run
  <2>9. Plain(S \ {t}) /\ ~Plain(S)
    BY <2>6
  <2> HIDE DEF W
  <2>10. ~prior.short /\ prior.den = 1 /\ prior.num = NetCost(rows, S \ {t}) /\ prior.num \in Int
    BY <2>7, <2>8, <2>9 DEF Runs
  <2>11. ~run[S].short /\ run[S].den = prior.den /\ run[S].num = prior.num + Settlement(rows[t]) * prior.den
         /\ Settlement(rows[t]) \in Nat
    BY <2>6, <2>8, <2>10, Bought
  <2>12. NetCost(rows, S) = NetCost(rows, S \ {t}) + Settlement(rows[t])
    BY <2>5, <2>6, NetMore
  <2> QED
    BY <2>9, <2>10, <2>11, <2>12
<1>2. ASSUME NEW S \in SUBSET DOMAIN rows PROVE NetCost(rows, S) = Total(Settlements(rows), S)
  <2>1. Buys(rows, S) = S /\ Sells(rows, S) = {}
    BY DEF Buys, Sells
  <2>2. Total(Settlements(rows), S) \in Int
    BY TradeNumbers
  <2> QED
    BY <2>1, <2>2, TotalOfNone DEF NetCost
<1> QED
  BY <1>1, <1>2

\* The two ways of rounding are at most one unit apart.
LEMMA RoundingsApart ==
    ASSUME NEW a \in Nat, NEW b \in Nat \ {0}
    PROVE  Abs(RoundHalfEven(a, b) - RoundHalfUp(a, b)) <= 1
<1>1. PICK q, r \in Nat : q = a \div b /\ r = a % b /\ a = q * b + r /\ r < b
  BY Division
<1>2. RoundHalfEven(a, b) \in {q, q + 1}
  BY <1>1 DEF RoundHalfEven
<1>3. PICK x, y : x = 2 * a + b /\ y = 2 * b
  OBVIOUS
<1>4. x \in Nat /\ y \in Nat \ {0}
  BY <1>3
<1>5. PICK p, s \in Nat : p = x \div y /\ x = p * y + s /\ s < y
  BY <1>4, Division
<1>6. RoundHalfUp(a, b) = p
  BY <1>3, <1>5 DEF RoundHalfUp, Abs
<1>7. x = q * y + (2 * r + b) /\ 2 * r + b < y + y
  <2>1. PICK m \in Nat : m = q * b
    OBVIOUS
  <2>2. q * y = 2 * m
    BY <1>1, <1>3, <2>1
  <2> QED
    BY <1>1, <1>3, <2>1, <2>2
<1>8. p \in {q, q + 1}
  <2>1. CASE 2 * r + b < y
    <3>1. x \div y = q
      BY <1>1, <1>4, <1>7, <2>1
    <3> QED
      BY <1>5, <3>1
  <2>2. CASE ~(2 * r + b < y)
    <3>1. PICK z \in Nat : z = 2 * r + b - y /\ z < y
      BY <1>1, <1>3, <1>4, <1>7, <2>2
    <3>2. x = (q + 1) * y + z
      BY <1>1, <1>4, <1>7, <3>1
    <3>3. x \div y = q + 1
      BY <1>1, <1>4, <3>1, <3>2
    <3> QED
      BY <1>5, <3>3
  <2> QED
    BY <2>1, <2>2
<1> QED
  BY <1>1, <1>2, <1>6, <1>8 DEF Abs

\* While nothing is sold, the average of the SQL aggregate is the stored one up to rounding.
LEMMA AveragesAgree ==
    ASSUME NEW rows, TradeBook(rows), NEW d \in Nat,
           \A t \in DOMAIN rows : rows[t].date <= d /\ rows[t].type = "BUY", Replay(rows).qty > 0
    PROVE  Abs(AsOfAvg(rows, d) - AvgPrice(Replay(rows))) <= 1
<1>1. PICK D : D = DOMAIN rows /\ D \in SUBSET DOMAIN rows
  OBVIOUS
<1>2. PICK run : run = Replay(rows) /\ run = RunOf(rows)[D] /\ run \in Runs(DOMAIN rows)
  BY <1>1, ReplayIsThat, ReplayType
<1>3. UpTo(rows, d, "BUY") = D /\ Buys(rows, D) = D /\ Sells(rows, D) = {}
  BY <1>1 DEF UpTo, Buys, Sells
<1>4. run.den = 1 /\ run.num = Total(Settlements(rows), D) /\ ~run.short
  BY <1>1, <1>2, OnlyBuys
<1>5. run.qty = Total(Qtys(rows), D)
  <2>1. Total(Qtys(rows), D) \in Int
    BY <1>1, TradeNumbers
  <2>2. run.qty = NetQty(rows, D)
    BY <1>1, <1>2, <1>4, RunStays DEF Stays
  <2> QED
    BY <1>3, <2>1, <2>2, TotalOfNone DEF NetQty
<1>6. run.qty \in Nat \ {0} /\ run.num \in Nat
  BY <1>2 DEF Runs
<1>7. AvgPrice(run) = RoundHalfUp(run.num, run.qty)
  BY <1>4, <1>6 DEF AvgPrice
<1>8. AsOfAvg(rows, d) = RoundHalfEven(run.num, run.qty)
  <2>1. MapThenSumSet(LAMBDA t : rows[t].qty, D) = run.qty /\ MapThenSumSet(LAMBDA t : Settlement(rows[t]), D) = run.num
    BY <1>1, <1>4, <1>5, QtyTotals, SettlementTotals
  <2>2. AsOfAvg(rows, d) = IF MapThenSumSet(LAMBDA t : rows[t].qty, D) = 0 THEN 0
                           ELSE RoundHalfEven(MapThenSumSet(LAMBDA t : Settlement(rows[t]), D),
                                              MapThenSumSet(LAMBDA t : rows[t].qty, D))
    BY <1>3 DEF AsOfAvg
  <2> QED
    BY <1>6, <2>1, <2>2
<1>9. Abs(RoundHalfEven(run.num, run.qty) - RoundHalfUp(run.num, run.qty)) <= 1
  BY <1>6, RoundingsApart
<1> QED
  BY <1>2, <1>7, <1>8, <1>9

-----------------------------------------------------------------------------
(* Requests for trades of the item *)

Columns == {"qty", "avg", "status", "archived"}
Pnls    == UNION {[D -> Int] : D \in SUBSET TxIds}
Plans   == [item : Items \cup {None}, cols : SUBSET Columns, pnl : Pnls]

Typed ==
    /\ item \in Items \cup {None} /\ txs \in [TxIds -> Trades \cup {None}]
    /\ pc \in [Workers -> PC] /\ job \in [Workers -> Jobs \cup {None}] /\ plan \in [Workers -> Plans]
    /\ \A w \in Workers : (job[w] = None <=> pc[w] = "idle") /\ (pc[w] = "idle" => plan[w] = NoPlan)
    /\ lock \in [Rows -> Workers \cup {None}]
    /\ left \in Nat \cup {None} /\ late \subseteq Workers

\* The trades as a request sees them, and what it plans when its replay comes to run
ViewOf(j) ==
    LET ids == {t \in TxIds : IsActive(txs[t]) /\ (t = j.id => j.op # "erase")}
                  \cup (IF j.op = "enter" THEN {j.id} ELSE {})
    IN  [t \in ids |-> IF t = j.id THEN j.mine ELSE txs[t]]
PlanOf(j, run) ==
    [item |-> Position(run, j.seen), cols |-> ChangedCols(run, j.seen),
     pnl  |-> [t \in ChangedPnl(run, ViewOf(j)) |-> run.pnl[t]]]
Trader(j) == j.op \in {"enter", "edit", "erase"}

\* What a request holds, whatever others do: the rows it works on do not go away
Held(s, j, p) ==
    /\ \A t \in DOMAIN p.pnl : txs[t] # None \/ (j.op = "enter" /\ t = j.id)
    /\ j.op \in {"archive", "remove"} => s = "flush" /\ j.id = ItemRow /\ DOMAIN p.pnl = {}
    /\ Trader(j) => j.id \in TxIds /\ j.mine # None
    /\ j.op = "enter" => s \in {"replay", "flush"} /\ j.mine.status = "ACTIVE"
    /\ j.op \in {"edit", "erase"} => s \in {"write", "replay", "flush"} /\ j.base # None /\ txs[j.id] # None
    /\ s # "write" => j.seen # None
    /\ s = "flush" => p.item # None

\* What it knows while no other commit has overtaken it: what it has loaded is what is
\* stored, and its plan is what a replay of that says
Fresh(s, j, p) ==
    /\ s # "write" => j.seen = item
    /\ j.op = "enter" => txs[j.id] = None
    /\ j.op \in {"edit", "erase"} =>
         /\ j.base = txs[j.id] /\ j.base.status = "ACTIVE"
         /\ j.mine.status = IF j.op = "erase" THEN "DELETED" ELSE "ACTIVE"
    /\ s = "flush" /\ Trader(j) => ~Rejected(Replay(ViewOf(j))) /\ p = PlanOf(j, Replay(ViewOf(j)))
    /\ j.op = "archive" => p.cols \subseteq {"archived"}
    /\ j.op = "remove" => p.cols = {"status"} /\ p.item.status = "DELETED" /\ item.qty = 0

Known ==
    \A w \in Workers : pc[w] # "idle" =>
       Held(pc[w], job[w], plan[w]) /\ (w \notin late => Fresh(pc[w], job[w], plan[w]))

\* There are no trades and no requests before there is an item
Stands == (\E t \in TxIds : txs[t] # None) \/ (\E w \in Workers : pc[w] # "idle") => item # None

IInv == Typed /\ Stands /\ Known

-----------------------------------------------------------------------------
(* Rows, views and plans *)

\* A plan is made of such parts, and the empty one is a plan.
LEMMA PlanParts ==
    /\ \A p \in Plans : p.item \in Items \cup {None} /\ p.cols \subseteq Columns /\ DOMAIN p.pnl \subseteq TxIds
                        /\ \A t \in DOMAIN p.pnl : p.pnl[t] \in Int
    /\ NoPlan \in Plans /\ DOMAIN NoPlan.pnl = {}
<1>1. ASSUME NEW p \in Plans
      PROVE  p.item \in Items \cup {None} /\ p.cols \subseteq Columns /\ DOMAIN p.pnl \subseteq TxIds
             /\ \A t \in DOMAIN p.pnl : p.pnl[t] \in Int
  <2>1. PICK D \in SUBSET TxIds : p.pnl \in [D -> Int]
    BY DEF Plans, Pnls
  <2> QED
    BY <2>1 DEF Plans
<1>2. NoPlan \in Plans /\ DOMAIN NoPlan.pnl = {}
  <2>1. << >> \in [{} -> Int]
    OBVIOUS
  <2>2. << >> \in Pnls
    BY <2>1 DEF Pnls
  <2> QED
    BY <2>2 DEF NoPlan, Plans
<1> QED
  BY <1>1, <1>2

\* What an UPDATE leaves of a row is a row, and the session's own where nothing came between.
LEMMA MergedTrade ==
    ASSUME NEW row \in Trades, NEW base \in Trades, NEW mine \in Trades
    PROVE  Merged(row, base, mine) \in Trades /\ (base = row => Merged(row, base, mine) = mine)
<1>1. Merged(row, base, mine) \in Trades
  BY DEF Merged, Trades
<1>2. base = row => Merged(row, base, mine) = mine
  BY DEF Merged, Trades
<1> QED
  BY <1>1, <1>2

\* A request sees the rows as View says, of its job.
LEMMA ViewIs ==
    ASSUME NEW w, job[w] # None
    PROVE  View(w) = ViewOf(job[w]) /\ (Inserts(w) <=> job[w].op = "enter")
           /\ \A run : NewPlan(w, run) = PlanOf(job[w], run)
<1>1. Inserts(w) <=> job[w].op = "enter"
  BY DEF Inserts
<1>2. View(w) = ViewOf(job[w])
  BY <1>1 DEF View, ViewOf
<1> QED
  BY <1>1, <1>2 DEF NewPlan, PlanOf

\* What a request sees is a book of trades.
LEMMA ViewBook ==
    ASSUME Typed, NEW s, NEW j \in Jobs, NEW p, Held(s, j, p), Trader(j)
    PROVE  /\ TradeBook(ViewOf(j)) /\ DOMAIN ViewOf(j) \subseteq TxIds
           /\ \A t \in DOMAIN ViewOf(j) : /\ ViewOf(j)[t] \in Trades
                                          /\ txs[t] # None \/ (j.op = "enter" /\ t = j.id)
                                          /\ ViewOf(j)[t] = IF t = j.id THEN j.mine ELSE txs[t]
           /\ DOMAIN ViewOf(j) = {t \in TxIds : IsActive(txs[t]) /\ (t = j.id => j.op # "erase")}
                                    \cup (IF j.op = "enter" THEN {j.id} ELSE {})
<1>1. j.id \in TxIds /\ j.mine \in Trades
  BY DEF Held, Jobs
<1>2. DOMAIN ViewOf(j) = {t \in TxIds : IsActive(txs[t]) /\ (t = j.id => j.op # "erase")}
                            \cup (IF j.op = "enter" THEN {j.id} ELSE {})
      /\ \A t \in DOMAIN ViewOf(j) : ViewOf(j)[t] = IF t = j.id THEN j.mine ELSE txs[t]
  BY DEF ViewOf
<1>3. DOMAIN ViewOf(j) \subseteq TxIds
  BY <1>1, <1>2
<1>4. \A t \in DOMAIN ViewOf(j) : txs[t] # None \/ (j.op = "enter" /\ t = j.id)
  BY <1>2 DEF IsActive
<1>5. \A t \in DOMAIN ViewOf(j) : ViewOf(j)[t] \in Trades
  BY <1>1, <1>2, <1>3, <1>4 DEF Typed, IsActive
<1>6. IsFiniteSet(TxIds) /\ TxIds \subseteq Nat
  BY MaxTxAssumption, FS_Interval DEF TxIds
<1>7. IsFiniteSet(DOMAIN ViewOf(j)) /\ DOMAIN ViewOf(j) \subseteq Nat
  BY <1>3, <1>6, FS_Subset
<1>8. TradeBook(ViewOf(j))
  BY <1>5, <1>7, TradesAssumption DEF TradeBook, Trades
<1> QED
  BY <1>2, <1>3, <1>4, <1>5, <1>8

\* What a replay comes to makes a plan.
LEMMA PlanOfType ==
    ASSUME NEW j, NEW D, NEW run \in Runs(D), j.seen \in Items, DOMAIN ViewOf(j) \subseteq TxIds, DOMAIN ViewOf(j) \subseteq D
    PROVE  /\ PlanOf(j, run) \in Plans /\ PlanOf(j, run).item # None
           /\ DOMAIN PlanOf(j, run).pnl \subseteq DOMAIN ViewOf(j)
<1>1. run.qty \in Nat /\ run.num \in Nat /\ run.den \in Nat \ {0} /\ run.pnl \in [D -> Int]
  BY DEF Runs
<1>2. AvgPrice(run) \in Nat
  <2>1. CASE run.qty > 0
    <3>1. run.den * run.qty \in Nat \ {0}
      BY <1>1, <2>1
    <3> QED
      BY <1>1, <2>1, <3>1, RoundedType DEF AvgPrice
  <2>2. CASE ~(run.qty > 0)
    BY <2>2 DEF AvgPrice
  <2> QED
    BY <2>1, <2>2
<1>3. PICK new : new = Position(run, j.seen)
  OBVIOUS
<1>4. new \in Items
  BY <1>1, <1>2, <1>3 DEF Position, Items
<1>5. new # None
  BY <1>4, NoneAssumption
<1>6. PICK cols \in SUBSET Columns : cols = ChangedCols(run, j.seen)
  BY DEF ChangedCols, Columns
<1>7. PICK C : C = ChangedPnl(run, ViewOf(j)) /\ C \subseteq DOMAIN ViewOf(j)
  BY DEF ChangedPnl
<1>8. PICK pnl : pnl = [t \in C |-> run.pnl[t]]
  OBVIOUS
<1>9. pnl \in Pnls /\ DOMAIN pnl = C
  <2>1. pnl \in [C -> Int] /\ C \in SUBSET TxIds
    BY <1>1, <1>7, <1>8
  <2> QED
    BY <1>8, <2>1 DEF Pnls
<1>10. PlanOf(j, run) = [item |-> new, cols |-> cols, pnl |-> pnl]
  BY <1>3, <1>6, <1>7, <1>8 DEF PlanOf
<1> QED
  BY <1>4, <1>5, <1>6, <1>7, <1>9, <1>10 DEF Plans

-----------------------------------------------------------------------------
(* Requests begin *)

\* One request moves, and what it holds and knows then.
LEMMA Moves ==
    ASSUME IInv, NEW w \in Workers, NEW s \in PC \ {"idle"}, NEW j \in Jobs, NEW p \in Plans,
           UNCHANGED <<item, txs, late>>, item # None,
           pc' \in [Workers -> PC], job' \in [Workers -> Jobs \cup {None}], plan' \in [Workers -> Plans],
           pc'[w] = s, job'[w] = j, plan'[w] = p,
           \A v \in Workers \ {w} : pc'[v] = pc[v] /\ job'[v] = job[v] /\ plan'[v] = plan[v],
           lock' \in [Rows -> Workers \cup {None}], left' \in Nat \cup {None},
           Held(s, j, p), w \notin late => Fresh(s, j, p)
    PROVE  IInv'
<1>1. Typed'
  <2>1. \A v \in Workers : (job'[v] = None <=> pc'[v] = "idle") /\ (pc'[v] = "idle" => plan'[v] = NoPlan)
    BY NoneAssumption DEF IInv, Typed
  <2> QED
    BY <2>1 DEF IInv, Typed
<1>2. Stands'
  BY DEF Stands
<1>3. Known'
  <2> SUFFICES ASSUME NEW v \in Workers, pc'[v] # "idle"
               PROVE  (Held(pc[v], job[v], plan[v]) /\ (v \notin late => Fresh(pc[v], job[v], plan[v])))'
    BY DEF Known
  <2>1. PICK h, i, q : h = pc'[v] /\ i = job'[v] /\ q = plan'[v]
    OBVIOUS
  <2>2. Held(h, i, q) /\ (v \notin late => Fresh(h, i, q))
    BY <2>1 DEF IInv, Known
  <2>3. Held(h, i, q)'
    BY <2>2 DEF Held, Trader
  <2>4. ViewOf(i)' = ViewOf(i)
    BY DEF ViewOf
  <2>5. \A run : PlanOf(i, run)' = PlanOf(i, run)
    BY <2>4 DEF PlanOf
  <2>6. v \notin late => Fresh(h, i, q)'
    BY <2>2, <2>4, <2>5 DEF Fresh, Trader
  <2> QED
    BY <2>1, <2>3, <2>6 DEF Held, Fresh, Trader, ViewOf, PlanOf
<1> QED
  BY <1>1, <1>2, <1>3 DEF IInv

\* What a request starts with.
LEMMA Starts ==
    ASSUME IInv, NEW w \in Workers, Ready(w), NEW op, NEW id, NEW base, NEW mine, NEW seen, NEW s \in PC \ {"idle"},
           Start(w, op, id, base, mine, seen, s), NEW j \in Jobs,
           j = [op |-> op, id |-> id, base |-> base, mine |-> mine, seen |-> seen],
           NEW p \in Plans, plan' \in [Workers -> Plans], plan'[w] = p, \A v \in Workers \ {w} : plan'[v] = plan[v],
           UNCHANGED <<item, txs, lock, late>>, item # None,
           Held(s, j, p), Fresh(s, j, p)
    PROVE  IInv'
<1>1. pc \in [Workers -> PC] /\ job \in [Workers -> Jobs \cup {None}] /\ lock \in [Rows -> Workers \cup {None}]
      /\ left \in Nat \cup {None}
  BY DEF IInv, Typed
<1>2. pc' = [pc EXCEPT ![w] = s] /\ job' = [job EXCEPT ![w] = j]
      /\ left' = (IF left = None THEN None ELSE left - 1) /\ left # 0
  BY DEF Start, Ready
<1>3. left' \in Nat \cup {None}
  BY <1>1, <1>2
<1>4. /\ pc' \in [Workers -> PC] /\ job' \in [Workers -> Jobs \cup {None}] /\ pc'[w] = s /\ job'[w] = j
      /\ \A v \in Workers \ {w} : pc'[v] = pc[v] /\ job'[v] = job[v]
  BY <1>1, <1>2
<1> QED
  BY <1>1, <1>3, <1>4, Moves

\* A request starts without a plan.
LEMMA IdlePlan == ASSUME IInv, NEW w \in Workers, Ready(w) PROVE plan \in [Workers -> Plans] /\ plan[w] = NoPlan
BY DEF IInv, Typed, Ready

\* A purchase or a sale begins.
LEMMA EnterInv ==
    ASSUME IInv, NEW w \in Workers, Ready(w), NEW t \in NextIds, NEW type \in {"BUY", "SELL"}, NEW q \in Quantities,
           NEW pr \in Prices, NEW f \in Fees, NEW d \in Dates, Enter(w, t, type, q, pr, f, d)
    PROVE  IInv'
<1>1. PICK mine : mine = [type |-> type, qty |-> q, price |-> pr, fee |-> f, date |-> d, status |-> "ACTIVE", pnl |-> 0]
  OBVIOUS
<1>2. mine \in Trades /\ mine.status = "ACTIVE"
  BY <1>1 DEF Trades
<1>3. /\ IsActive(item) /\ Start(w, "enter", t, None, mine, item, "replay") /\ UNCHANGED <<item, txs, plan, lock, late>>
  BY <1>1 DEF Enter
<1>4. item \in Items /\ item # None
  BY <1>3 DEF IsActive, IInv, Typed
<1>5. t \in TxIds /\ txs[t] = None
  <2>1. t \in TxIds /\ \A u \in UsedIds : u < t
    BY DEF NextIds
  <2>2. txs[t] # None => t \in UsedIds
    BY <2>1 DEF UsedIds
  <2>3. t \in Nat
    BY <2>1, MaxTxAssumption DEF TxIds
  <2> QED
    BY <2>1, <2>2, <2>3
<1>6. PICK j : j = [op |-> "enter", id |-> t, base |-> None, mine |-> mine, seen |-> item]
  OBVIOUS
<1>7. j \in Jobs /\ j.op = "enter" /\ j.id = t /\ j.mine = mine /\ j.seen = item
  BY <1>2, <1>4, <1>5, <1>6 DEF Jobs, Ops, Rows
<1>8. plan \in [Workers -> Plans] /\ plan[w] = NoPlan /\ NoPlan \in Plans /\ DOMAIN NoPlan.pnl = {}
  BY IdlePlan, PlanParts
<1>9. mine # None
  BY <1>2, NoneAssumption
<1>10. Held("replay", j, NoPlan) /\ Fresh("replay", j, NoPlan)
  BY <1>2, <1>4, <1>5, <1>7, <1>8, <1>9 DEF Held, Fresh, Trader
<1>11. "replay" \in PC \ {"idle"}
  BY DEF PC
<1> QED
  BY <1>3, <1>4, <1>6, <1>7, <1>8, <1>10, <1>11, Starts

\* An edit or the deletion of a trade begins.
LEMMA ChangeInv ==
    ASSUME IInv, NEW w \in Workers, Ready(w), NEW t \in TxIds, NEW op \in {"edit", "erase"}, NEW mine \in Trades,
           mine.status = IF op = "erase" THEN "DELETED" ELSE "ACTIVE",
           IsActive(txs[t]), Start(w, op, t, txs[t], mine, None, "write"), UNCHANGED <<item, txs, plan, lock, late>>
    PROVE  IInv'
<1>1. txs[t] \in Trades /\ txs[t] # None /\ txs[t].status = "ACTIVE" /\ item # None
  BY DEF IsActive, IInv, Typed, Stands
<1>2. PICK j : j = [op |-> op, id |-> t, base |-> txs[t], mine |-> mine, seen |-> None]
  OBVIOUS
<1>3. j \in Jobs /\ j.op = op /\ j.id = t /\ j.mine = mine /\ j.base = txs[t]
  BY <1>1, <1>2 DEF Jobs, Ops, Rows
<1>4. plan \in [Workers -> Plans] /\ plan[w] = NoPlan /\ NoPlan \in Plans /\ DOMAIN NoPlan.pnl = {}
  BY IdlePlan, PlanParts
<1>5. mine # None
  BY NoneAssumption
<1>6. Held("write", j, NoPlan) /\ Fresh("write", j, NoPlan)
  BY <1>1, <1>3, <1>4, <1>5 DEF Held, Fresh, Trader
<1>7. "write" \in PC \ {"idle"}
  BY DEF PC
<1> QED
  BY <1>1, <1>2, <1>3, <1>4, <1>6, <1>7, Starts

\* An edit of a trade begins.
LEMMA EditInv ==
    ASSUME IInv, NEW w \in Workers, Ready(w), NEW t \in TxIds, NEW q \in Quantities,
           NEW pr \in Prices, NEW f \in Fees, NEW d \in Dates, Edit(w, t, q, pr, f, d)
    PROVE  IInv'
<1>1. PICK row, mine : row = txs[t] /\ mine = [row EXCEPT !.qty = q, !.price = pr, !.fee = f, !.date = d]
  OBVIOUS
<1>2. row \in Trades /\ row.status = "ACTIVE" /\ IsActive(txs[t])
  BY <1>1 DEF Edit, IsActive, IInv, Typed
<1>3. mine \in Trades /\ mine.status = "ACTIVE"
  BY <1>1, <1>2 DEF Trades
<1>4. Start(w, "edit", t, txs[t], mine, None, "write") /\ UNCHANGED <<item, txs, plan, lock, late>>
  BY <1>1 DEF Edit
<1>5. mine.status = IF "edit" = "erase" THEN "DELETED" ELSE "ACTIVE"
  BY <1>3
<1> QED
  BY <1>2, <1>3, <1>4, <1>5, ChangeInv

\* The deletion of a trade begins.
LEMMA EraseInv == ASSUME IInv, NEW w \in Workers, Ready(w), NEW t \in TxIds, Erase(w, t) PROVE IInv'
<1>1. PICK row, mine : row = txs[t] /\ mine = [row EXCEPT !.status = "DELETED"]
  OBVIOUS
<1>2. row \in Trades /\ IsActive(txs[t])
  BY <1>1 DEF Erase, IsActive, IInv, Typed
<1>3. mine \in Trades /\ mine.status = "DELETED"
  BY <1>1, <1>2 DEF Trades
<1>4. Start(w, "erase", t, txs[t], mine, None, "write") /\ UNCHANGED <<item, txs, plan, lock, late>>
  BY <1>1 DEF Erase
<1>5. mine.status = IF "erase" = "erase" THEN "DELETED" ELSE "ACTIVE"
  BY <1>3
<1> QED
  BY <1>2, <1>3, <1>4, <1>5, ChangeInv

\* A request on the item itself begins, with its plan.
LEMMA ItemInv ==
    ASSUME IInv, NEW w \in Workers, Ready(w), NEW op \in {"archive", "remove"}, IsActive(item),
           Start(w, op, ItemRow, None, None, item, "flush"), NEW new \in Items, NEW cols \in SUBSET Columns,
           PlanItem(w, new, cols), UNCHANGED <<item, txs, lock, late>>,
           op = "archive" => cols \subseteq {"archived"},
           op = "remove" => cols = {"status"} /\ new.status = "DELETED" /\ item.qty = 0
    PROVE  IInv'
<1>1. item \in Items /\ item # None /\ new # None
  BY NoneAssumption DEF IsActive, IInv, Typed
<1>2. PICK j : j = [op |-> op, id |-> ItemRow, base |-> None, mine |-> None, seen |-> item]
  OBVIOUS
<1>3. j \in Jobs /\ j.op = op /\ j.id = ItemRow /\ j.seen = item
  BY <1>1, <1>2 DEF Jobs, Ops, Rows
<1>4. PICK p : p = [item |-> new, cols |-> cols, pnl |-> << >>]
  OBVIOUS
<1>5. p \in Plans /\ p.item = new /\ p.cols = cols /\ DOMAIN p.pnl = {}
  <2>1. << >> \in [{} -> Int]
    OBVIOUS
  <2>2. << >> \in Pnls
    BY <2>1 DEF Pnls
  <2> QED
    BY <1>4, <2>2 DEF Plans
<1>6. plan \in [Workers -> Plans] /\ plan' = [plan EXCEPT ![w] = p]
  BY <1>4, IdlePlan DEF PlanItem
<1>7. plan' \in [Workers -> Plans] /\ plan'[w] = p /\ \A v \in Workers \ {w} : plan'[v] = plan[v]
  BY <1>5, <1>6
<1>8. Held("flush", j, p) /\ Fresh("flush", j, p)
  BY <1>1, <1>3, <1>5 DEF Held, Fresh, Trader
<1>9. "flush" \in PC \ {"idle"}
  BY DEF PC
<1> QED
  BY <1>1, <1>2, <1>3, <1>5, <1>7, <1>8, <1>9, Starts

\* Archiving begins.
LEMMA ArchiveInv == ASSUME IInv, NEW w \in Workers, Ready(w), NEW b \in BOOLEAN, Archive(w, b) PROVE IInv'
<1>1. IsActive(item) /\ item \in Items
  BY DEF Archive, IsActive, IInv, Typed
<1>2. PICK new, cols : /\ new = [item EXCEPT !.archived = b]
                       /\ cols = IF b = item.archived THEN {} ELSE {"archived"}
  OBVIOUS
<1>3. new \in Items /\ cols \in SUBSET Columns /\ cols \subseteq {"archived"}
  BY <1>1, <1>2 DEF Items, Columns
<1>4. Start(w, "archive", ItemRow, None, None, item, "flush") /\ PlanItem(w, new, cols) /\ UNCHANGED <<item, txs, lock, late>>
  BY <1>2 DEF Archive
<1> QED
  BY <1>1, <1>3, <1>4, ItemInv

\* The removal of the item begins: nothing of it is held.
LEMMA RemoveInv == ASSUME IInv, NEW w \in Workers, Ready(w), Remove(w) PROVE IInv'
<1>1. IsActive(item) /\ item \in Items /\ item.qty \in Nat /\ item.qty <= 0
  BY DEF Remove, IsActive, IInv, Typed, Items
<1>2. PICK new, cols : new = [item EXCEPT !.status = "DELETED"] /\ cols = {"status"}
  OBVIOUS
<1>3. new \in Items /\ new.status = "DELETED" /\ cols \in SUBSET Columns /\ item.qty = 0
  BY <1>1, <1>2 DEF Items, Columns
<1>4. Start(w, "remove", ItemRow, None, None, item, "flush") /\ PlanItem(w, new, cols) /\ UNCHANGED <<item, txs, lock, late>>
  BY <1>2 DEF Remove
<1> QED
  BY <1>1, <1>2, <1>3, <1>4, ItemInv

\* A request begins.
LEMMA BeginInv == ASSUME IInv, NEW w \in Workers, Begin(w) PROVE IInv'
<1>1. Ready(w)
  BY DEF Begin
<1>2. CASE \E t \in NextIds, type \in {"BUY", "SELL"}, q \in Quantities, p \in Prices, f \in Fees, d \in Dates : Enter(w, t, type, q, p, f, d)
  BY <1>1, <1>2, EnterInv
<1>3. CASE \E t \in TxIds : \E q \in Quantities, p \in Prices, f \in Fees, d \in Dates : Edit(w, t, q, p, f, d)
  BY <1>1, <1>3, EditInv
<1>4. CASE \E t \in TxIds : Erase(w, t)
  BY <1>1, <1>4, EraseInv
<1>5. CASE (\E b \in BOOLEAN : Archive(w, b)) \/ Remove(w)
  BY <1>1, <1>5, ArchiveInv, RemoveInv
<1> QED
  BY <1>2, <1>3, <1>4, <1>5 DEF Begin

-----------------------------------------------------------------------------
(* Requests under way *)

\* What is known of a request under way, under names of its own.
LEMMA BusyKnows ==
    ASSUME IInv, NEW w \in Workers, pc[w] # "idle"
    PROVE  /\ job[w] \in Jobs /\ job[w] # None /\ plan[w] \in Plans /\ pc[w] \in PC \ {"idle"} /\ item # None
           /\ Held(pc[w], job[w], plan[w]) /\ (w \notin late => Fresh(pc[w], job[w], plan[w]))
           /\ View(w) = ViewOf(job[w]) /\ (Inserts(w) <=> job[w].op = "enter")
           /\ \A run : NewPlan(w, run) = PlanOf(job[w], run)
<1>1. job[w] \in Jobs /\ job[w] # None /\ plan[w] \in Plans /\ pc[w] \in PC \ {"idle"}
  BY DEF IInv, Typed
<1>2. View(w) = ViewOf(job[w]) /\ (Inserts(w) <=> job[w].op = "enter") /\ \A run : NewPlan(w, run) = PlanOf(job[w], run)
  BY <1>1, ViewIs
<1> QED
  BY <1>1, <1>2 DEF IInv, Known, Stands

\* The own trade is written, and the item is read.
LEMMA WriteInv == ASSUME IInv, NEW w \in Workers, Write(w) PROVE IInv'
<1>1. pc[w] = "write" /\ pc[w] # "idle"
  BY DEF Write
<1>2. PICK i, p : i = job[w] /\ p = plan[w] /\ i \in Jobs /\ p \in Plans /\ item # None
                  /\ Held("write", i, p) /\ (w \notin late => Fresh("write", i, p))
  BY <1>1, BusyKnows
<1>3. item \in Items /\ i.id \in TxIds /\ i.op \in {"edit", "erase"}
  BY <1>2 DEF IInv, Typed, Held, Trader, Jobs, Ops
<1>4. PICK j : j = [i EXCEPT !.seen = item]
  OBVIOUS
<1>5. j \in Jobs /\ j.op = i.op /\ j.id = i.id /\ j.base = i.base /\ j.mine = i.mine /\ j.seen = item
  BY <1>2, <1>3, <1>4 DEF Jobs
<1>6. pc \in [Workers -> PC] /\ job \in [Workers -> Jobs \cup {None}] /\ lock \in [Rows -> Workers \cup {None}]
      /\ plan \in [Workers -> Plans] /\ left \in Nat \cup {None}
  BY DEF IInv, Typed
<1>7. /\ pc' = [pc EXCEPT ![w] = "replay"] /\ job' = [job EXCEPT ![w] = j] /\ lock' = [lock EXCEPT ![i.id] = w]
      /\ UNCHANGED <<item, txs, plan, left, late>>
  BY <1>2, <1>4 DEF Write
<1>8. "replay" \in PC \ {"idle"}
  BY DEF PC
<1>9. /\ pc' \in [Workers -> PC] /\ job' \in [Workers -> Jobs \cup {None}] /\ pc'[w] = "replay" /\ job'[w] = j
      /\ \A v \in Workers \ {w} : pc'[v] = pc[v] /\ job'[v] = job[v]
      /\ lock' \in [Rows -> Workers \cup {None}]
  BY <1>5, <1>6, <1>7, <1>8
<1>10. Held("replay", j, p) /\ (w \notin late => Fresh("replay", j, p))
  BY <1>2, <1>3, <1>5 DEF Held, Fresh, Trader
<1> QED
  BY <1>2, <1>5, <1>6, <1>7, <1>8, <1>9, <1>10, Moves

\* The trades are replayed, and the plan is made.
LEMMA RecalcInv == ASSUME IInv, NEW w \in Workers, Recalc(w) PROVE IInv'
<1>1. pc[w] = "replay" /\ pc[w] # "idle"
  BY DEF Recalc
<1>2. PICK j, o : j = job[w] /\ o = plan[w] /\ j \in Jobs /\ o \in Plans /\ item # None
                  /\ Held("replay", j, o) /\ (w \notin late => Fresh("replay", j, o))
                  /\ View(w) = ViewOf(j) /\ \A r : NewPlan(w, r) = PlanOf(j, r)
  BY <1>1, BusyKnows
<1>3. Trader(j) /\ j.seen \in Items
  BY <1>2 DEF Held, Trader, Jobs, Ops
<1>4. PICK run : run = Replay(ViewOf(j))
  OBVIOUS
<1>5. ~Rejected(run) /\ plan' = [plan EXCEPT ![w] = PlanOf(j, run)]
  BY <1>2, <1>4 DEF Recalc
<1>6. TradeBook(ViewOf(j)) /\ DOMAIN ViewOf(j) \subseteq TxIds
      /\ \A t \in DOMAIN ViewOf(j) : txs[t] # None \/ (j.op = "enter" /\ t = j.id)
  BY <1>2, <1>3, ViewBook DEF IInv
<1>7. run \in Runs(DOMAIN ViewOf(j))
  BY <1>4, <1>6, ReplayType
<1>8. PICK p : p = PlanOf(j, run) /\ p \in Plans /\ p.item # None /\ DOMAIN p.pnl \subseteq DOMAIN ViewOf(j)
  BY <1>3, <1>6, <1>7, PlanOfType
<1>9. pc \in [Workers -> PC] /\ job \in [Workers -> Jobs \cup {None}] /\ lock \in [Rows -> Workers \cup {None}]
      /\ plan \in [Workers -> Plans] /\ left \in Nat \cup {None}
  BY DEF IInv, Typed
<1>10. pc' = [pc EXCEPT ![w] = "flush"] /\ UNCHANGED <<item, txs, job, lock, left, late>>
  BY DEF Recalc
<1>11. "flush" \in PC \ {"idle"}
  BY DEF PC
<1>12. /\ pc' \in [Workers -> PC] /\ plan' \in [Workers -> Plans] /\ pc'[w] = "flush" /\ plan'[w] = p
       /\ \A v \in Workers \ {w} : pc'[v] = pc[v] /\ plan'[v] = plan[v]
  BY <1>5, <1>8, <1>9, <1>10, <1>11
<1>13. Held("flush", j, p)
  BY <1>2, <1>6, <1>8 DEF Held, Trader
<1>14. w \notin late => Fresh("flush", j, p)
  BY <1>2, <1>3, <1>4, <1>5, <1>8 DEF Fresh, Trader
<1> QED
  BY <1>2, <1>9, <1>10, <1>11, <1>12, <1>13, <1>14, Moves

\* Rows are locked.
LEMMA LocksInv == ASSUME IInv, NEW w \in Workers, LockTxRows(w) \/ LockItemRow(w) PROVE IInv'
<1>1. pc[w] = "flush" /\ pc[w] # "idle" /\ UNCHANGED <<item, txs, pc, job, plan, left, late>>
  BY DEF LockTxRows, LockItemRow
<1>2. pc \in [Workers -> PC] /\ job \in [Workers -> Jobs \cup {None}] /\ lock \in [Rows -> Workers \cup {None}]
      /\ plan \in [Workers -> Plans] /\ left \in Nat \cup {None}
  BY DEF IInv, Typed
<1>3. lock' \in [Rows -> Workers \cup {None}]
  BY <1>2 DEF LockTxRows, LockItemRow
<1>4. PICK s, j, p : s = pc[w] /\ j = job[w] /\ p = plan[w] /\ s \in PC \ {"idle"} /\ j \in Jobs /\ p \in Plans /\ item # None
                     /\ Held(s, j, p) /\ (w \notin late => Fresh(s, j, p))
  BY <1>1, BusyKnows
<1> QED
  BY <1>1, <1>2, <1>3, <1>4, Moves

\* A request that is over holds nothing, and the others hold what they held.
LEMMA SessionEnds ==
    ASSUME IInv, NEW w \in Workers, EndSession(w), UNCHANGED left, late' \subseteq Workers,
           item' \in Items \cup {None}, txs' \in [TxIds -> Trades \cup {None}],
           item # None => item' # None, \A t \in TxIds : txs[t] # None => txs'[t] # None,
           (\E t \in TxIds : txs'[t] # None) => item' # None,
           \A v \in Workers \ {w} : v \notin late' /\ pc[v] # "idle" => v \notin late /\ UNCHANGED <<item, txs>>
    PROVE  IInv'
<1>1. pc \in [Workers -> PC] /\ job \in [Workers -> Jobs \cup {None}] /\ lock \in [Rows -> Workers \cup {None}]
      /\ plan \in [Workers -> Plans] /\ left \in Nat \cup {None}
      /\ \A v \in Workers : (job[v] = None <=> pc[v] = "idle") /\ (pc[v] = "idle" => plan[v] = NoPlan)
  BY DEF IInv, Typed
<1>2. /\ pc' = [pc EXCEPT ![w] = "idle"] /\ job' = [job EXCEPT ![w] = None] /\ plan' = [plan EXCEPT ![w] = NoPlan]
      /\ lock' = [r \in Rows |-> IF lock[r] = w THEN None ELSE lock[r]]
  BY DEF EndSession
<1>3. NoPlan \in Plans /\ "idle" \in PC
  BY PlanParts DEF PC
<1>4. /\ pc' \in [Workers -> PC] /\ job' \in [Workers -> Jobs \cup {None}] /\ plan' \in [Workers -> Plans]
      /\ lock' \in [Rows -> Workers \cup {None}]
      /\ pc'[w] = "idle" /\ job'[w] = None /\ plan'[w] = NoPlan
      /\ \A v \in Workers \ {w} : pc'[v] = pc[v] /\ job'[v] = job[v] /\ plan'[v] = plan[v]
  BY <1>1, <1>2, <1>3
<1>5. Typed'
  <2>1. \A v \in Workers : (job'[v] = None <=> pc'[v] = "idle") /\ (pc'[v] = "idle" => plan'[v] = NoPlan)
    BY <1>1, <1>4
  <2> QED
    BY <1>1, <1>4, <2>1 DEF Typed
<1>6. Stands'
  <2>1. (\E v \in Workers : pc'[v] # "idle") => item # None
    BY <1>4 DEF IInv, Stands
  <2> QED
    BY <2>1 DEF Stands
<1>7. Known'
  <2> SUFFICES ASSUME NEW v \in Workers, pc'[v] # "idle"
               PROVE  (Held(pc[v], job[v], plan[v]) /\ (v \notin late => Fresh(pc[v], job[v], plan[v])))'
    BY DEF Known
  <2>1. v # w /\ pc[v] # "idle"
    BY <1>4
  <2>2. PICK h, i, q : h = pc'[v] /\ i = job'[v] /\ q = plan'[v] /\ h = pc[v] /\ i = job[v] /\ q = plan[v]
    BY <1>4, <2>1
  <2>3. Held(h, i, q) /\ (v \notin late => Fresh(h, i, q)) /\ q \in Plans /\ i \in Jobs
    BY <2>1, <2>2, BusyKnows
  <2>4. Held(h, i, q)'
    <3>1. DOMAIN q.pnl \subseteq TxIds
      BY <2>3, PlanParts
    <3>2. i.op \in {"edit", "erase"} => i.id \in TxIds
      BY <2>3 DEF Held, Trader
    <3> QED
      BY <2>3, <3>1, <3>2 DEF Held, Trader
  <2>5. ASSUME v \notin late' PROVE Fresh(h, i, q)'
    <3>1. Fresh(h, i, q) /\ UNCHANGED <<item, txs>>
      BY <2>1, <2>3, <2>5
    <3>2. ViewOf(i)' = ViewOf(i)
      BY <3>1 DEF ViewOf
    <3>3. \A run : PlanOf(i, run)' = PlanOf(i, run)
      BY <3>2 DEF PlanOf
    <3> QED
      BY <3>1, <3>2, <3>3 DEF Fresh, Trader
  <2> QED
    BY <2>2, <2>4, <2>5 DEF Held, Fresh, Trader, ViewOf, PlanOf
<1> QED
  BY <1>5, <1>6, <1>7 DEF IInv

\* A request is rolled back.
LEMMA RollbackInv == ASSUME IInv, NEW w \in Workers, Rollback(w) PROVE IInv'
<1>1. EndSession(w) /\ late' = late \ {w} /\ UNCHANGED <<item, txs, left>>
  BY DEF Rollback
<1>2. late' \subseteq Workers /\ item' \in Items \cup {None} /\ txs' \in [TxIds -> Trades \cup {None}]
      /\ ((\E t \in TxIds : txs'[t] # None) => item' # None)
  BY <1>1 DEF IInv, Typed, Stands
<1> QED
  BY <1>1, <1>2, SessionEnds

\* The item is created.
LEMMA CreateInv == ASSUME IInv, Create PROVE IInv'
<1>1. /\ item = None /\ item' = [qty |-> 0, avg |-> 0, status |-> "ACTIVE", archived |-> FALSE]
      /\ UNCHANGED <<txs, pc, job, plan, lock, left, late>>
  BY DEF Create
<1>2. item' \in Items /\ item' # None
  <2>1. item' \in Items
    BY <1>1 DEF Items
  <2> QED
    BY <2>1, NoneAssumption
<1>3. \A w \in Workers : pc[w] = "idle"
  BY <1>1 DEF IInv, Stands
<1> QED
  BY <1>1, <1>2, <1>3 DEF IInv, Typed, Stands, Known

-----------------------------------------------------------------------------
(* Commits *)

\* The rows that a commit writes: those of trades that are there, and the request's own.
LEMMA RowsWritten ==
    ASSUME IInv, NEW w \in Workers, Commit(w), NEW j, j = job[w], NEW p, p = plan[w], NEW t \in TxIds
    PROVE  /\ txs'[t] \in Trades \cup {None} /\ (txs[t] # None => txs'[t] # None)
           /\ t # j.id \/ ~Trader(j) => txs'[t] = IF t \in DOMAIN p.pnl THEN [txs[t] EXCEPT !.pnl = p.pnl[t]] ELSE txs[t]
           /\ t = j.id /\ Trader(j) /\ w \notin late =>
                txs'[t] = IF t \in DOMAIN p.pnl THEN [j.mine EXCEPT !.pnl = p.pnl[t]] ELSE j.mine
<1>1. pc[w] = "flush" /\ pc[w] # "idle" /\ txs' = [i \in TxIds |-> WithPnl(w, i)]
  BY DEF Commit
<1>2. /\ j \in Jobs /\ p \in Plans /\ Held("flush", j, p) /\ (w \notin late => Fresh("flush", j, p))
      /\ (Inserts(w) <=> j.op = "enter")
  BY <1>1, BusyKnows
<1>3. txs[t] \in Trades \cup {None}
  BY DEF IInv, Typed
<1>4. j.op \in Ops /\ j.base \in Trades \cup {None} /\ j.mine \in Trades \cup {None} /\ ItemRow \notin TxIds
  BY <1>2 DEF Jobs, TxIds, ItemRow
<1>5. PICK row : row = OwnRow(w, t)
  OBVIOUS
<1>6. txs'[t] = IF t \in DOMAIN p.pnl THEN [row EXCEPT !.pnl = p.pnl[t]] ELSE row
  BY <1>1, <1>5 DEF WithPnl
<1>7. t \in DOMAIN p.pnl => p.pnl[t] \in Int /\ (txs[t] # None \/ (j.op = "enter" /\ t = j.id))
  BY <1>2, PlanParts DEF Held
<1>8. ASSUME t # j.id \/ ~Trader(j) PROVE row = txs[t]
  <2>1. t # j.id
    BY <1>2, <1>4, <1>8 DEF Held, Trader, Ops
  <2> QED
    BY <1>5, <2>1 DEF OwnRow
<1>9. ASSUME t = j.id, Trader(j)
      PROVE  /\ row \in Trades /\ row # None
             /\ w \notin late => row = j.mine
  <2>1. j.mine \in Trades /\ j.mine # None
    BY <1>2, <1>4, <1>9 DEF Held
  <2>2. CASE j.op = "enter"
    BY <1>2, <1>5, <1>9, <2>1, <2>2 DEF OwnRow
  <2>3. CASE j.op \in {"edit", "erase"}
    <3>1. row = Merged(txs[t], j.base, j.mine)
      BY <1>2, <1>5, <1>9, <2>3 DEF OwnRow
    <3>2. j.base \in Trades /\ txs[t] \in Trades
      BY <1>2, <1>3, <1>4, <1>9, <2>3 DEF Held
    <3>3. w \notin late => j.base = txs[t]
      BY <1>2, <1>9, <2>3 DEF Fresh
    <3>4. row \in Trades /\ (j.base = txs[t] => row = j.mine)
      BY <2>1, <3>1, <3>2, MergedTrade
    <3>5. row # None
      BY <3>4, NoneAssumption
    <3> QED
      BY <3>3, <3>4, <3>5
  <2> QED
    BY <1>9, <2>2, <2>3 DEF Trader
<1>10. row \in Trades \cup {None} /\ (txs[t] # None => row # None) /\ (t \in DOMAIN p.pnl => row \in Trades)
  <2>1. CASE t = j.id /\ Trader(j)
    BY <1>9, <2>1
  <2>2. CASE ~(t = j.id /\ Trader(j))
    <3>1. ~(j.op = "enter" /\ t = j.id)
      BY <2>2 DEF Trader
    <3> QED
      BY <1>3, <1>7, <1>8, <2>2, <3>1
  <2> QED
    BY <2>1, <2>2
<1>11. ASSUME t \in DOMAIN p.pnl PROVE [row EXCEPT !.pnl = p.pnl[t]] \in Trades
  BY <1>7, <1>10, <1>11 DEF Trades
<1>12. txs'[t] \in Trades \cup {None} /\ (txs[t] # None => txs'[t] # None)
  BY <1>6, <1>10, <1>11, NoneAssumption
<1> QED
  BY <1>6, <1>8, <1>9, <1>12

\* The item that a commit leaves: the columns of the plan that changed, and the others as
\* they are by now.
LEMMA ItemWritten ==
    ASSUME IInv, NEW w \in Workers, Commit(w), NEW p, p = plan[w]
    PROVE  /\ item' \in Items /\ item' # None
           /\ \A c \in Columns : item'[c] = IF c \in p.cols THEN p.item[c] ELSE item[c]
<1>1. pc[w] = "flush" /\ pc[w] # "idle" /\ item' = [c \in DOMAIN item |-> IF c \in p.cols THEN p.item[c] ELSE item[c]]
  BY DEF Commit
<1>2. p \in Plans /\ item # None /\ Held("flush", job[w], p)
  BY <1>1, BusyKnows
<1>3. item \in Items /\ p.item \in Items /\ DOMAIN item = Columns
  BY <1>2, PlanParts DEF Held, IInv, Typed, Items, Columns
<1>4. item' \in Items
  BY <1>1, <1>3 DEF Items, Columns
<1>5. item' # None
  BY <1>4, NoneAssumption
<1> QED
  BY <1>1, <1>3, <1>4, <1>5

\* A commit keeps the invariant: whoever is under way has been overtaken.
LEMMA CommitInv == ASSUME IInv, NEW w \in Workers, Commit(w) PROVE IInv'
<1>1. EndSession(w) /\ UNCHANGED left /\ late' = (late \cup {v \in Workers : pc[v] # "idle"}) \ {w}
  BY DEF Commit
<1>2. txs' = [t \in TxIds |-> WithPnl(w, t)] /\ \A t \in TxIds : txs'[t] \in Trades \cup {None} /\ (txs[t] # None => txs'[t] # None)
  BY RowsWritten DEF Commit
<1>3. txs' \in [TxIds -> Trades \cup {None}]
  BY <1>2
<1>4. item' \in Items /\ item' # None
  BY ItemWritten
<1>5. late' \subseteq Workers
  BY <1>1 DEF IInv, Typed
<1>6. \A v \in Workers \ {w} : v \notin late' => pc[v] = "idle"
  BY <1>1
<1> QED
  BY <1>1, <1>2, <1>3, <1>4, <1>5, <1>6, SessionEnds

-----------------------------------------------------------------------------
(* The invariant *)

\* Before the item is created there is nothing.
LEMMA InitInv == Init => IInv
<1> SUFFICES ASSUME Init PROVE IInv
  OBVIOUS
<1>1. NoPlan \in Plans
  BY PlanParts
<1>2. Typed
  BY <1>1, BudgetAssumption DEF Init, Typed, PC
<1>3. Stands /\ Known
  BY DEF Init, Stands, Known
<1> QED
  BY <1>2, <1>3 DEF IInv

\* Nothing happens.
LEMMA StutterInv == ASSUME IInv, UNCHANGED vars PROVE IInv'
<1>1. UNCHANGED <<item, txs, pc, job, plan, lock, left, late>>
  BY DEF vars
<1>2. Typed' /\ Stands'
  BY <1>1 DEF IInv, Typed, Stands
<1>3. Known'
  BY <1>1 DEF IInv, Known, Held, Fresh, Trader, ViewOf, PlanOf
<1> QED
  BY <1>2, <1>3 DEF IInv

\* Every step keeps the invariant.
LEMMA NextInv == ASSUME IInv, [Next]_vars PROVE IInv'
<1>1. ASSUME NEW w \in Workers, Advance(w) PROVE IInv'
  <2>1. CASE Write(w) \/ Recalc(w)
    BY <2>1, WriteInv, RecalcInv
  <2>2. CASE Refuse(w)
    BY <2>2, RollbackInv DEF Refuse
  <2>3. CASE LockTxRows(w) \/ LockItemRow(w)
    BY <2>3, LocksInv
  <2>4. CASE Commit(w)
    BY <2>4, CommitInv
  <2> QED
    BY <1>1, <2>1, <2>2, <2>3, <2>4 DEF Advance
<1>2. ASSUME NEW w \in Workers, DeadlockVictim(w) \/ Fail(w) PROVE IInv'
  BY <1>2, RollbackInv DEF DeadlockVictim, Fail
<1>3. ASSUME NEW w \in Workers, Begin(w) PROVE IInv'
  BY <1>3, BeginInv
<1>4. CASE Create
  BY <1>4, CreateInv
<1>5. CASE UNCHANGED vars
  BY <1>5, StutterInv
<1> QED
  BY <1>1, <1>2, <1>3, <1>4, <1>5 DEF Next

\* The inductive invariant holds of every behaviour.
LEMMA Invariance == Spec => []IInv
<1>1. IInv /\ [Next]_vars => IInv'
  BY NextInv
<1> QED
  BY InitInv, <1>1, PTL DEF Spec

\* The tables, the requests under way, their plans and their locks are of the types that
\* TypeOK gives them.
THEOREM TypeCorrect == Spec => []TypeOK
<1>1. ASSUME IInv PROVE TypeOK
  <2>1. \A w \in Workers : plan[w] \in Plans
    BY <1>1 DEF IInv, Typed
  <2>2. \A w \in Workers : /\ plan[w].item \in Items \cup {None} /\ plan[w].cols \subseteq {"qty", "avg", "status", "archived"}
                           /\ DOMAIN plan[w].pnl \subseteq TxIds
    BY <2>1, PlanParts DEF Columns
  <2> QED
    BY <1>1, <2>2 DEF TypeOK, IInv, Typed
<1> QED
  BY <1>1, Invariance, PTL

-----------------------------------------------------------------------------
(* What a commit leaves *)

\* A request that was not overtaken commits, of every trade it has seen as active, what it
\* has seen and the profits of its plan, and no other trade is active then.
LEMMA BookWritten ==
    ASSUME IInv, NEW w \in Workers, Commit(w), w \notin late, NEW j, j = job[w], Trader(j), NEW p, p = plan[w],
           NEW rows, rows = ViewOf(j)
    PROVE  /\ Active' = DOMAIN rows /\ TradeBook(rows) /\ \A t \in DOMAIN rows : rows[t] \in Trades
           /\ \A t \in DOMAIN rows : txs'[t] = IF t \in DOMAIN p.pnl THEN [rows[t] EXCEPT !.pnl = p.pnl[t]] ELSE rows[t]
<1>1. pc[w] = "flush" /\ pc[w] # "idle"
  BY DEF Commit
<1>2. j \in Jobs /\ p \in Plans /\ Held("flush", j, p) /\ Fresh("flush", j, p)
  BY <1>1, BusyKnows
<1>3. j.id \in TxIds /\ j.mine \in Trades /\ j.op \in {"enter", "edit", "erase"}
  BY <1>2 DEF Held, Jobs, Trader
<1>4. /\ TradeBook(rows) /\ DOMAIN rows \subseteq TxIds
      /\ \A t \in DOMAIN rows : rows[t] \in Trades /\ rows[t] = IF t = j.id THEN j.mine ELSE txs[t]
      /\ DOMAIN rows = {t \in TxIds : IsActive(txs[t]) /\ (t = j.id => j.op # "erase")}
                          \cup (IF j.op = "enter" THEN {j.id} ELSE {})
  BY <1>2, ViewBook DEF IInv
<1>5. DOMAIN p.pnl \subseteq DOMAIN rows /\ \A t \in DOMAIN p.pnl : p.pnl[t] \in Int
  <2>1. p = PlanOf(j, Replay(rows))
    BY <1>2 DEF Fresh
  <2>2. DOMAIN p.pnl \subseteq DOMAIN rows
    BY <2>1 DEF PlanOf, ChangedPnl
  <2> QED
    BY <1>2, <2>2, PlanParts
<1>6. \A t \in TxIds :
        /\ t # j.id => txs'[t] = IF t \in DOMAIN p.pnl THEN [txs[t] EXCEPT !.pnl = p.pnl[t]] ELSE txs[t]
        /\ t = j.id => txs'[t] = IF t \in DOMAIN p.pnl THEN [j.mine EXCEPT !.pnl = p.pnl[t]] ELSE j.mine
  BY RowsWritten
<1>7. \A t \in DOMAIN rows : txs'[t] = IF t \in DOMAIN p.pnl THEN [rows[t] EXCEPT !.pnl = p.pnl[t]] ELSE rows[t]
  BY <1>4, <1>6
<1>8. ASSUME NEW t \in TxIds PROVE IsActive(txs'[t]) <=> t \in DOMAIN rows
  <2>1. CASE t \in DOMAIN rows
    <3>1. rows[t] \in Trades /\ rows[t].status = "ACTIVE"
      <4>1. CASE t = j.id
        BY <1>2, <1>3, <1>4, <2>1, <4>1 DEF Held, Fresh
      <4>2. CASE t # j.id
        BY <1>4, <2>1, <4>2 DEF IsActive
      <4> QED
        BY <4>1, <4>2
    <3>2. txs'[t] \in Trades /\ txs'[t].status = "ACTIVE"
      <4>1. t \in DOMAIN p.pnl => p.pnl[t] \in Int
        BY <1>5
      <4>2. [rows[t] EXCEPT !.pnl = p.pnl[t]].status = "ACTIVE"
        BY <3>1 DEF Trades
      <4>3. p.pnl[t] \in Int => [rows[t] EXCEPT !.pnl = p.pnl[t]] \in Trades
        BY <3>1 DEF Trades
      <4> QED
        BY <1>7, <2>1, <3>1, <4>1, <4>2, <4>3
    <3> QED
      BY <2>1, <3>2, NoneAssumption DEF IsActive
  <2>2. CASE t \notin DOMAIN rows /\ t = j.id
    <3>1. txs'[t] = j.mine
      BY <1>5, <1>6, <2>2
    <3>2. j.op = "erase"
      BY <1>2, <1>3, <1>4, <2>2, NoneAssumption DEF Held, Fresh, IsActive
    <3> QED
      BY <1>2, <2>2, <3>1, <3>2 DEF Fresh, IsActive
  <2>3. CASE t \notin DOMAIN rows /\ t # j.id
    BY <1>4, <1>5, <1>6, <2>3
  <2> QED
    BY <2>1, <2>2, <2>3
<1>9. Active' = DOMAIN rows
  BY <1>4, <1>8 DEF Active, IsActive
<1> QED
  BY <1>4, <1>7, <1>9

\* And the item it leaves is the position that a replay of these trades comes to.
LEMMA PositionWritten ==
    ASSUME IInv, NEW w \in Workers, Commit(w), w \notin late, NEW j, j = job[w], Trader(j),
           NEW run, run = Replay(ViewOf(j))
    PROVE  /\ ~Rejected(run) /\ item'.qty = run.qty /\ item'.avg = AvgPrice(run)
           /\ item'.status = IF run.qty > 0 THEN "ACTIVE" ELSE "DELETED"
<1>1. pc[w] = "flush" /\ pc[w] # "idle"
  BY DEF Commit
<1>2. PICK p : p = plan[w] /\ j \in Jobs /\ p \in Plans /\ Held("flush", j, p) /\ Fresh("flush", j, p) /\ item # None
  BY <1>1, BusyKnows
<1>3. item \in Items /\ j.seen = item /\ p = PlanOf(j, run) /\ ~Rejected(run)
  BY <1>2 DEF Fresh, IInv, Typed
<1>4. run \in Runs(DOMAIN ViewOf(j))
  BY <1>2, ViewBook, ReplayType DEF IInv
<1>5. item'.qty = (IF "qty" \in p.cols THEN p.item.qty ELSE item.qty)
      /\ item'.avg = (IF "avg" \in p.cols THEN p.item.avg ELSE item.avg)
      /\ item'.status = (IF "status" \in p.cols THEN p.item.status ELSE item.status)
  BY ItemWritten, <1>2 DEF Columns
<1>6. p.item = Position(run, item) /\ p.cols = ChangedCols(run, item)
  BY <1>3 DEF PlanOf
<1>7. p.item.qty = run.qty /\ p.item.avg = AvgPrice(run) /\ p.item.status = IF run.qty > 0 THEN "ACTIVE" ELSE "DELETED"
  BY <1>3, <1>6 DEF Position, Items
<1>8. ("qty" \notin p.cols => item.qty = p.item.qty) /\ ("status" \notin p.cols => item.status = p.item.status)
  BY <1>6 DEF ChangedCols
<1>9. ASSUME "avg" \notin p.cols PROVE item.avg = AvgPrice(run)
  <2>1. run.num = item.avg * run.den * run.qty /\ (run.qty > 0 \/ item.avg = 0)
    BY <1>6, <1>9 DEF ChangedCols
  <2>2. item.avg \in Nat /\ run.qty \in Nat /\ run.den \in Nat \ {0}
    BY <1>3, <1>4 DEF Items, Runs
  <2>3. CASE run.qty > 0
    <3>1. PICK b \in Nat \ {0} : b = run.den * run.qty
      BY <2>2, <2>3
    <3>2. run.num = item.avg * b
      BY <2>1, <2>2, <3>1
    <3>3. RoundHalfUp(item.avg * b, b) = item.avg
      BY <2>2, RoundedExact
    <3> QED
      BY <2>3, <3>1, <3>2, <3>3 DEF AvgPrice
  <2>4. CASE ~(run.qty > 0)
    BY <2>1, <2>4 DEF AvgPrice
  <2> QED
    BY <2>3, <2>4
<1> QED
  BY <1>3, <1>5, <1>7, <1>8, <1>9

\* The numbers that are stored are those of a replay r of the active trades.
Matches(r) ==
    /\ ~Rejected(r) /\ item.qty = r.qty /\ item.avg = AvgPrice(r)
    /\ \A t \in Active : txs[t].type = "SELL" => txs[t].pnl = r.pnl[t]
    /\ Traded => (item.status = "ACTIVE" <=> r.qty > 0)

\* A trade request that was not overtaken leaves the stored numbers of a replay.
LEMMA CommitRepairs == ASSUME IInv, NEW w \in Workers, Commit(w), w \notin late, Trader(job[w]) PROVE StoredMatchesReplay'
<1>1. PICK j, p, rows, run : j = job[w] /\ p = plan[w] /\ rows = ViewOf(j) /\ run = Replay(rows)
  OBVIOUS
<1>2. pc[w] = "flush" /\ pc[w] # "idle"
  BY DEF Commit
<1>3. p = PlanOf(j, run)
  BY <1>1, <1>2, BusyKnows DEF Fresh
<1>4. /\ Active' = DOMAIN rows /\ TradeBook(rows) /\ \A t \in DOMAIN rows : rows[t] \in Trades
      /\ \A t \in DOMAIN rows : txs'[t] = IF t \in DOMAIN p.pnl THEN [rows[t] EXCEPT !.pnl = p.pnl[t]] ELSE rows[t]
  BY <1>1, BookWritten
<1>5. ~Rejected(run) /\ item'.qty = run.qty /\ item'.avg = AvgPrice(run) /\ item'.status = IF run.qty > 0 THEN "ACTIVE" ELSE "DELETED"
  BY <1>1, PositionWritten
<1>6. PICK book : book = Book'
  OBVIOUS
<1>7. DOMAIN book = DOMAIN rows /\ \A t \in DOMAIN rows : book[t] = txs'[t]
  BY <1>4, <1>6 DEF Book
<1>8. ASSUME NEW t \in DOMAIN rows
      PROVE  book[t].type = rows[t].type /\ book[t].qty = rows[t].qty /\ book[t].price = rows[t].price
             /\ book[t].fee = rows[t].fee /\ book[t].date = rows[t].date
  <2>1. PICK row, x : row = rows[t] /\ x = p.pnl[t]
    OBVIOUS
  <2>2. row \in Trades /\ (book[t] = row \/ book[t] = [row EXCEPT !.pnl = x])
    BY <1>4, <1>7, <2>1
  <2> QED
    BY <2>1, <2>2 DEF Trades
<1>9. Alike(book, rows) /\ TradeBook(book)
  BY <1>4, <1>7, <1>8 DEF Alike, TradeBook
<1>10. Replay(book) = run
  BY <1>1, <1>4, <1>9, ReplayReads
<1>11. ASSUME NEW t \in Active', txs'[t].type = "SELL" PROVE txs'[t].pnl = run.pnl[t]
  <2>1. t \in DOMAIN rows /\ rows[t] \in Trades /\ rows[t].type = "SELL"
    BY <1>4, <1>7, <1>8, <1>11
  <2>2. p.pnl = [i \in ChangedPnl(run, rows) |-> run.pnl[i]]
    BY <1>1, <1>3 DEF PlanOf
  <2>3. CASE t \in DOMAIN p.pnl
    BY <1>4, <2>1, <2>2, <2>3 DEF Trades
  <2>4. CASE t \notin DOMAIN p.pnl
    BY <1>4, <2>1, <2>2, <2>4 DEF ChangedPnl
  <2> QED
    BY <2>3, <2>4
<1>12. Matches(run)'
  BY <1>5, <1>11 DEF Matches, Rejected, AvgPrice, RoundHalfUp, Abs
<1>13. Replay(Book)' = run
  BY <1>6, <1>10
<1> QED
  BY <1>12, <1>13 DEF StoredMatchesReplay, Matches

\* Whenever a trade request that no other commit overtook commits, what is stored is what
\* the active trades say, also when it starts from numbers an earlier race damaged.
THEOREM SoloRequestsRepair == Spec => SoloRequestRepairs
<1>1. ASSUME IInv, [Next]_vars, NEW w \in Workers, pc[w] = "flush", pc'[w] = "idle", w \notin late, Trading(w),
             <<item, txs>>' # <<item, txs>>
      PROVE  StoredMatchesReplay'
  <2>1. pc \in [Workers -> PC]
    BY <1>1 DEF IInv, Typed
  <2>2. PICK v \in Workers : Begin(v) \/ Advance(v) \/ DeadlockVictim(v) \/ Fail(v)
    BY <1>1 DEF Next, Create, vars
  <2>3. ~(Rollback(v) \/ Write(v) \/ Recalc(v) \/ LockTxRows(v) \/ LockItemRow(v))
    BY <1>1 DEF Rollback, Write, Recalc, LockTxRows, LockItemRow
  <2>4. ~Begin(v)
    BY <1>1 DEF Begin, Enter, Edit, Erase, Archive, Remove
  <2>5. Commit(v)
    BY <2>2, <2>3, <2>4 DEF Advance, DeadlockVictim, Fail, Refuse
  <2>6. v = w
    BY <1>1, <2>1, <2>5 DEF Commit, EndSession
  <2>7. Trader(job[w])
    BY <1>1 DEF Trading, Trader
  <2> QED
    BY <1>1, <2>5, <2>6, <2>7, CommitRepairs
<1>2. IInv /\ [Next]_vars =>
         [\A w \in Workers :
             (/\ pc[w] = "flush" /\ pc'[w] = "idle"
              /\ w \notin late
              /\ Trading(w)
              /\ <<item, txs>>' # <<item, txs>>)
                => StoredMatchesReplay']_vars
  BY <1>1
<1> QED
  BY <1>2, Invariance, PTL DEF Spec, SoloRequestRepairs

-----------------------------------------------------------------------------
(* One request at a time *)

\* An item without trades is an empty position.
LEMMA CreateMatches == ASSUME IInv, Create PROVE StoredMatchesReplay'
<1>1. /\ item = None /\ item' = [qty |-> 0, avg |-> 0, status |-> "ACTIVE", archived |-> FALSE]
      /\ UNCHANGED txs
  BY DEF Create
<1>2. \A t \in TxIds : txs'[t] = None
  BY <1>1 DEF IInv, Stands
<1>3. Active' = {} /\ ~Traded'
  BY <1>2 DEF Active, IsActive, Traded
<1>4. PICK book : book = Book'
  OBVIOUS
<1>5. DOMAIN book = {}
  BY <1>3, <1>4 DEF Book
<1>6. PICK r : r = Replay(book) /\ r.qty = 0 /\ r.short = FALSE
  BY <1>5, ReplayOfNone DEF Nothing
<1>7. Matches(r)'
  BY <1>1, <1>3, <1>6 DEF Matches, Rejected, AvgPrice
<1>8. Replay(Book)' = r
  BY <1>4, <1>6
<1> QED
  BY <1>7, <1>8 DEF StoredMatchesReplay, Matches

\* A request on the item itself changes no trades, and what it changes of the item is true
\* of nothing held.
LEMMA ItemRequestMatches ==
    ASSUME IInv, StoredMatchesReplay, NEW w \in Workers, Commit(w), w \notin late,
           NEW j, j = job[w], NEW p, p = plan[w], ~Trader(j)
    PROVE  StoredMatchesReplay'
<1>1. pc[w] = "flush" /\ pc[w] # "idle" /\ txs' = [t \in TxIds |-> WithPnl(w, t)]
  BY DEF Commit
<1>2. j \in Jobs /\ p \in Plans /\ Held("flush", j, p) /\ Fresh("flush", j, p) /\ item # None
  BY <1>1, BusyKnows
<1>3. j.op \in {"archive", "remove"}
  BY <1>2 DEF Jobs, Ops, Trader
<1>4. DOMAIN p.pnl = {} /\ item \in Items
  BY <1>2, <1>3 DEF Held, IInv, Typed
<1>5. txs' = txs
  <2>1. j.id = ItemRow /\ ItemRow \notin TxIds
    BY <1>2, <1>3 DEF Held, ItemRow, TxIds
  <2>2. \A t \in TxIds : WithPnl(w, t) = txs[t]
    BY <1>4, <2>1 DEF WithPnl, OwnRow
  <2> QED
    BY <1>1, <2>2 DEF IInv, Typed
<1>6. item'.qty = item.qty /\ item'.avg = item.avg
      /\ (item'.status = item.status \/ (item'.status = "DELETED" /\ item.qty = 0))
  <2>1. \A c \in Columns : item'[c] = IF c \in p.cols THEN p.item[c] ELSE item[c]
    BY <1>2, ItemWritten
  <2>2. "qty" \notin p.cols /\ "avg" \notin p.cols /\ "qty" \in Columns /\ "avg" \in Columns /\ "status" \in Columns
        /\ ("status" \in p.cols => p.item.status = "DELETED" /\ item.qty = 0)
    BY <1>2, <1>3 DEF Fresh, Columns
  <2> QED
    BY <2>1, <2>2
<1>7. PICK r : r = Replay(Book)
  OBVIOUS
<1>8. Matches(r)
  BY <1>2, <1>7 DEF StoredMatchesReplay, Matches
<1>9. Matches(r)'
  <2>1. UNCHANGED <<Active, Traded>>
    BY <1>5 DEF Active, Traded, IsActive
  <2> QED
    BY <1>5, <1>6, <1>8, <2>1 DEF Matches
<1>10. Replay(Book)' = r
  <2>1. UNCHANGED Book
    BY <1>5 DEF Book, Active, IsActive
  <2> QED
    BY <1>7, <2>1
<1> QED
  BY <1>9, <1>10 DEF StoredMatchesReplay, Matches

\* Where requests come one at a time, what is stored is always what the active trades say.
THEOREM OneAtATimeMatches == (\A v, w \in Workers : v = w) => (Spec => []StoredMatchesReplay)
<1> SUFFICES ASSUME \A v, w \in Workers : v = w PROVE Spec => []StoredMatchesReplay
  OBVIOUS
<1> DEFINE SInv == late = {} /\ StoredMatchesReplay
<1>1. Init => SInv
  BY DEF Init, StoredMatchesReplay
<1>2. ASSUME IInv, SInv, [Next]_vars PROVE SInv'
  <2>1. ASSUME NEW w \in Workers, Commit(w) PROVE SInv'
    <3>1. late' = {}
      <4>1. late = {} /\ late' = (late \cup {v \in Workers : pc[v] # "idle"}) \ {w}
        BY <1>2, <2>1 DEF Commit
      <4>2. \A v \in Workers : v = w
        OBVIOUS
      <4> QED
        BY <4>1, <4>2
    <3>2. CASE Trader(job[w])
      BY <1>2, <2>1, <3>1, <3>2, CommitRepairs
    <3>3. CASE ~Trader(job[w])
      BY <1>2, <2>1, <3>1, <3>3, ItemRequestMatches
    <3> QED
      BY <3>2, <3>3
  <2>2. CASE Create
    BY <1>2, <2>2, CreateMatches DEF Create
  <2>3. ASSUME UNCHANGED <<item, txs>>, late' = {} PROVE SInv'
    <3>1. UNCHANGED <<Active, Traded, Book>>
      BY <2>3 DEF Active, Traded, Book, IsActive
    <3>2. PICK book : book = Book /\ book = Book'
      BY <3>1
    <3>3. PICK r : r = Replay(book)
      OBVIOUS
    <3>4. item # None => Matches(r)
      BY <1>2, <3>2, <3>3 DEF StoredMatchesReplay, Matches
    <3>5. item' # None => Matches(r)'
      BY <2>3, <3>1, <3>4 DEF Matches
    <3> QED
      BY <2>3, <3>2, <3>3, <3>5 DEF StoredMatchesReplay, Matches
  <2>4. ASSUME NEW w \in Workers, Rollback(w) PROVE SInv'
    BY <1>2, <2>3, <2>4 DEF Rollback
  <2>5. ASSUME NEW w \in Workers, Begin(w) PROVE SInv'
    BY <1>2, <2>3, <2>5 DEF Begin, Enter, Edit, Erase, Archive, Remove
  <2>6. ASSUME NEW w \in Workers, Write(w) \/ Recalc(w) \/ LockTxRows(w) \/ LockItemRow(w) PROVE SInv'
    BY <1>2, <2>3, <2>6 DEF Write, Recalc, LockTxRows, LockItemRow
  <2>7. CASE UNCHANGED vars
    BY <1>2, <2>3, <2>7 DEF vars
  <2> HIDE DEF SInv
  <2> QED
    BY <1>2, <2>1, <2>2, <2>4, <2>5, <2>6, <2>7 DEF Next, Advance, Refuse, DeadlockVictim, Fail
<1>3. IInv /\ SInv /\ [Next]_vars => SInv'
  BY <1>2
<1> HIDE DEF SInv
<1>4. SInv => StoredMatchesReplay
  BY DEF SInv
<1> QED
  BY <1>1, <1>3, <1>4, Invariance, PTL DEF Spec

-----------------------------------------------------------------------------
(* What follows for the holdings at a date and for the money *)

\* The active trades are a book of trades.
LEMMA BookIs == ASSUME IInv PROVE TradeBook(Book) /\ DOMAIN Book = Active /\ \A t \in Active : Book[t] = txs[t] /\ txs[t] \in Trades
<1>1. Active \subseteq TxIds /\ \A t \in Active : txs[t] \in Trades
  BY DEF Active, IsActive, IInv, Typed
<1>2. TxIds \subseteq Nat /\ IsFiniteSet(TxIds)
  BY MaxTxAssumption, FS_Interval DEF TxIds
<1>3. IsFiniteSet(Active)
  BY <1>1, <1>2, FS_Subset
<1>4. DOMAIN Book = Active /\ \A t \in Active : Book[t] = txs[t]
  BY DEF Book
<1>5. \A r \in Trades : /\ r.type \in {"BUY", "SELL"} /\ r.qty \in Nat \ {0}
                        /\ r.price \in Nat /\ r.fee \in Nat /\ r.date \in Nat
  BY TradesAssumption DEF Trades
<1> QED
  BY <1>1, <1>2, <1>3, <1>4, <1>5 DEF TradeBook

\* When no trade is active there is nothing a snapshot could reconstruct; when there is an
\* item whose stored numbers are those of the replay, the snapshot finds the same.
LEMMA HoldingsFollow == ASSUME IInv, StoredMatchesReplay PROVE AsOfHoldingsAgree
<1>1. PICK book : book = Book
  OBVIOUS
<1>2. TradeBook(book) /\ DOMAIN book = Active /\ \A t \in Active : book[t] = txs[t]
  BY <1>1, BookIs
<1>3. Dates \subseteq Nat
  BY TradesAssumption
<1>4. ~Replay(book).short
  <2>1. CASE item = None
    <3>1. DOMAIN book = {}
      BY <1>2, <2>1 DEF IInv, Stands, Active, IsActive
    <3> QED
      BY <3>1, ReplayOfNone DEF Nothing
  <2>2. CASE item # None
    BY <1>1, <2>2 DEF StoredMatchesReplay, Rejected
  <2> QED
    BY <2>1, <2>2
<1>5. \A d \in Dates : AsOfQty(book, d) \in Nat
  BY <1>2, <1>3, <1>4, AsOfIsHeld
<1>6. ASSUME item # None, NEW d \in Dates, \A t \in Active : txs[t].date <= d
      PROVE  /\ AsOfQty(book, d) = item.qty
             /\ (item.qty > 0 /\ \A t \in Active : txs[t].type = "BUY") => Abs(AsOfAvg(book, d) - item.avg) <= 1
  <2>1. item.qty = Replay(book).qty /\ item.avg = AvgPrice(Replay(book))
    BY <1>1, <1>6 DEF StoredMatchesReplay
  <2>2. d \in Nat /\ \A t \in DOMAIN book : book[t].date <= d
    BY <1>2, <1>3, <1>6
  <2>3. AsOfQty(book, d) = Replay(book).qty
    BY <1>2, <1>4, <2>2, AsOfIsHeld
  <2>4. ASSUME item.qty > 0, \A t \in Active : txs[t].type = "BUY"
        PROVE  Abs(AsOfAvg(book, d) - AvgPrice(Replay(book))) <= 1
    <3>1. \A t \in DOMAIN book : book[t].date <= d /\ book[t].type = "BUY"
      BY <1>2, <2>2, <2>4
    <3> QED
      BY <1>2, <2>1, <2>2, <2>4, <3>1, AveragesAgree
  <2> QED
    BY <2>1, <2>3, <2>4
<1>7. \A d \in Dates : AsOfQty(book, d) >= 0
  BY <1>5
<1> QED
  BY <1>1, <1>6, <1>7 DEF AsOfHoldingsAgree

\* The sum of the stored profits is the total of the replay's when each is the replay's.
LEMMA PnlTotals ==
    ASSUME NEW S \in SUBSET DOMAIN txs, NEW pnl, \A t \in S : txs[t].pnl = pnl[t]
    PROVE  MapThenSumSet(LAMBDA t : txs[t].pnl, S) = Total(pnl, S)
<1> DEFINE Sum(sum) == sum = [T \in SUBSET S |-> IF T = {} THEN 0 ELSE txs[Pick(T)].pnl + sum[T \ {Pick(T)}]]
<1>1. MapThenSumSet(LAMBDA t : txs[t].pnl, S) = (CHOOSE sum : Sum(sum))[S]
  BY DEF MapThenSumSet, MapThenFoldSet, Pick
<1>2. \A sum : Sum(sum) <=> Sums(pnl, S, sum)
  <2> SUFFICES ASSUME NEW sum PROVE Sum(sum) <=> Sums(pnl, S, sum)
    OBVIOUS
  <2>1. \A T \in SUBSET S : T # {} => Pick(T) \in S
    BY DEF Pick
  <2>2. \A T \in SUBSET S : SumBody(pnl, sum, T) = IF T = {} THEN 0 ELSE txs[Pick(T)].pnl + sum[T \ {Pick(T)}]
    BY <2>1 DEF SumBody
  <2> QED
    BY <2>2 DEF Sums
<1> HIDE DEF Sum
<1>3. (CHOOSE sum : Sum(sum)) = (CHOOSE sum : Sums(pnl, S, sum))
  BY <1>2
<1> QED
  BY <1>1, <1>3, TotalIs

\* So are the money that came in and went out and the stored profits.
LEMMA MoneyFollows == ASSUME IInv, StoredMatchesReplay PROVE MoneyConserved
<1> SUFFICES ASSUME item # None PROVE MoneyConserved
  BY DEF MoneyConserved
<1>1. PICK book, run : book = Book /\ run = Replay(Book)
  OBVIOUS
<1>2. TradeBook(book) /\ DOMAIN book = Active /\ \A t \in Active : book[t] = txs[t] /\ txs[t] \in Trades
  BY <1>1, BookIs
<1>3. run = Replay(book) /\ ~run.short /\ item.qty = run.qty /\ item.avg = AvgPrice(run)
      /\ \A t \in Active : txs[t].type = "SELL" => txs[t].pnl = run.pnl[t]
  BY <1>1 DEF StoredMatchesReplay, Rejected
<1>4. PICK sells, buys : sells = Sells(book, Active) /\ buys = Buys(book, Active)
  OBVIOUS
<1>5. sells = {t \in Active : txs[t].type = "SELL"} /\ buys = Active \ sells
      /\ Active \in SUBSET DOMAIN txs /\ sells \in SUBSET DOMAIN txs /\ buys \in SUBSET DOMAIN txs
  BY <1>2, <1>4 DEF Sells, Buys, Trades, IInv, Typed, Active
<1>6. ASSUME NEW S \in SUBSET Active
      PROVE  MapThenSumSet(LAMBDA t : Settlement(txs[t]), S) = Total(Settlements(book), S)
  <2>1. MapThenSumSet(LAMBDA t : Settlement(txs[t]), S) = Total(Settlements(txs), S)
    BY <1>5, SettlementTotals
  <2>2. \A t \in S : Settlements(txs)[t] = Settlements(book)[t]
    BY <1>2, <1>5 DEF Settlements
  <2> QED
    BY <2>1, <2>2, TotalSame
<1>7. MapThenSumSet(LAMBDA t : txs[t].pnl, sells) = Total(run.pnl, sells)
  <2>1. \A t \in sells : txs[t].pnl = run.pnl[t]
    BY <1>3, <1>5
  <2> QED
    BY <1>5, <2>1, PnlTotals
<1>8. PICK gain, in, out, k :
        /\ gain = Total(run.pnl, sells) /\ in = Total(Settlements(book), sells)
        /\ out = Total(Settlements(book), buys) /\ k = Cardinality(sells)
  OBVIOUS
<1>9. in \in Int /\ out \in Int /\ NetCost(book, Active) = out - in
  <2>1. sells \in SUBSET DOMAIN book /\ buys \in SUBSET DOMAIN book
    BY <1>2, <1>4 DEF Sells, Buys
  <2> QED
    BY <1>2, <1>4, <1>8, <2>1, TradeNumbers DEF NetCost
<1>10. /\ gain \in Int /\ k \in Nat /\ AvgPrice(run) \in Nat
       /\ 2 * Abs(-NetCost(book, Active) + run.qty * AvgPrice(run) - gain) <= run.qty + k
  BY <1>2, <1>3, <1>4, <1>8, ReplayConserves
<1>11. 2 * Abs((in - out) + item.qty * item.avg - gain) <= item.qty + k
  <2>1. -(out - in) = in - out
    BY <1>9
  <2> QED
    BY <1>3, <1>9, <1>10, <2>1
<1>12. MapThenSumSet(LAMBDA t : Settlement(txs[t]), sells) = in /\ MapThenSumSet(LAMBDA t : Settlement(txs[t]), Active \ sells) = out
  BY <1>5, <1>6, <1>8
<1> QED
  BY <1>5, <1>7, <1>8, <1>11, <1>12 DEF MoneyConserved

\* One request at a time: the holdings that snapshots reconstruct are those of the item.
THEOREM OneAtATimeHoldingsAgree == (\A v, w \in Workers : v = w) => (Spec => []AsOfHoldingsAgree)
BY OneAtATimeMatches, Invariance, HoldingsFollow, PTL

\* One request at a time: money is conserved, whatever is traded, edited and deleted.
THEOREM OneAtATimeMoneyConserved == (\A v, w \in Workers : v = w) => (Spec => []MoneyConserved)
BY OneAtATimeMatches, Invariance, MoneyFollows, PTL
=============================================================================
