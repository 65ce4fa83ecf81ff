---------------------------- MODULE LedgerProofs ----------------------------
(***************************************************************************)
(* Type correctness of Ledger, the safety of account deletion under        *)
(* concurrent requests, and the agreement of the paged ledger with the     *)
(* sums.  Who was overtaken by whom decides what the rows are: a request   *)
(* that no commit overtook works on what is committed, and what one that   *)
(* was overtaken wrote is in raced.  That every row of a ledger shows one  *)
(* balance, however it is cut into pages, goes by the smallest set of rows *)
(* behind a cursor for which it would not.                                 *)
(***************************************************************************)
EXTENDS Ledger, Totals

-----------------------------------------------------------------------------
(* The order of an account's rows, and how they are cut into pages *)

\* Rows of transactions, of which the ledger compares the dates and sums the amounts.
LedgerBook(rows) ==
    /\ IsFiniteSet(DOMAIN rows) /\ DOMAIN rows \subseteq Nat /\ None \notin Nat
    /\ \A t \in DOMAIN rows : rows[t].amount \in Int /\ rows[t].date \in Nat

\* Of two rows one is newer.
LEMMA NewerOrders ==
    ASSUME NEW rows, LedgerBook(rows)
    PROVE  /\ \A s, t \in DOMAIN rows : s # t => Newer(rows, s, t) \/ Newer(rows, t, s)
           /\ \A s, t \in DOMAIN rows : ~(Newer(rows, s, t) /\ Newer(rows, t, s))
           /\ \A r, s, t \in DOMAIN rows : Newer(rows, r, s) /\ Newer(rows, s, t) => Newer(rows, r, t)
<1>1. \A t \in DOMAIN rows : t \in Nat /\ rows[t].date \in Nat
  BY DEF LedgerBook
<1>2. \A s, t \in DOMAIN rows : s # t => Newer(rows, s, t) \/ Newer(rows, t, s)
  BY <1>1 DEF Newer
<1>3. \A s, t \in DOMAIN rows : ~(Newer(rows, s, t) /\ Newer(rows, t, s))
  BY <1>1 DEF Newer
<1>4. \A r, s, t \in DOMAIN rows : Newer(rows, r, s) /\ Newer(rows, s, t) => Newer(rows, r, t)
  <2> SUFFICES ASSUME NEW r \in DOMAIN rows, NEW s \in DOMAIN rows, NEW t \in DOMAIN rows,
                      Newer(rows, r, s), Newer(rows, s, t)
               PROVE  Newer(rows, r, t)
    OBVIOUS
  <2>1. /\ r \in Nat /\ s \in Nat /\ t \in Nat
        /\ rows[r].date \in Nat /\ rows[s].date \in Nat /\ rows[t].date \in Nat
    BY <1>1
  <2> QED
    BY <2>1 DEF Newer
<1> QED
  BY <1>2, <1>3, <1>4

\* Some row is the newest, and some is the oldest, the one a cursor names.
LEMMA Ends ==
    ASSUME NEW rows, LedgerBook(rows), NEW S \in SUBSET DOMAIN rows, S # {}
    PROVE  /\ \E t \in S : {s \in S : Newer(rows, s, t)} = {}
           /\ LastRow(rows, S) \in S /\ \A s \in S \ {LastRow(rows, S)} : Newer(rows, s, LastRow(rows, S))
<1> DEFINE Over(t)  == {s \in S : Newer(rows, s, t)}
           Under(t) == {s \in S : Newer(rows, t, s)}
           Overs  == {Over(t) : t \in S}
           Unders == {Under(t) : t \in S}
<1>1. IsFiniteSet(DOMAIN rows) /\ Overs \in SUBSET (SUBSET DOMAIN rows) /\ Unders \in SUBSET (SUBSET DOMAIN rows)
      /\ Overs # {} /\ Unders # {}
  BY DEF LedgerBook
<1>2. \E t \in S : Over(t) = {}
  <2> HIDE DEF Overs
  <2>1. PICK M \in Overs : \A N \in Overs : N \subseteq M => N = M
    BY <1>1, SmallestSet
  <2> USE DEF Overs
  <2>2. PICK t \in S : M = Over(t)
    OBVIOUS
  <2>3. M = {}
    <3> SUFFICES ASSUME NEW s \in M PROVE FALSE
      OBVIOUS
    <3>1. s \in S /\ Newer(rows, s, t)
      BY <2>2
    <3>2. Over(s) \subseteq Over(t) /\ s \in Over(t) /\ s \notin Over(s)
      BY <3>1, NewerOrders
    <3>3. Over(s) \in Overs
      BY <3>1
    <3> QED
      BY <2>1, <2>2, <3>2, <3>3
  <2> QED
    BY <2>2, <2>3
<1>3. \E t \in S : \A s \in S \ {t} : Newer(rows, s, t)
  <2> HIDE DEF Unders
  <2>1. PICK M \in Unders : \A N \in Unders : N \subseteq M => N = M
    BY <1>1, SmallestSet
  <2> USE DEF Unders
  <2>2. PICK t \in S : M = Under(t)
    OBVIOUS
  <2>3. M = {}
    <3> SUFFICES ASSUME NEW s \in M PROVE FALSE
      OBVIOUS
    <3>1. s \in S /\ Newer(rows, t, s)
      BY <2>2
    <3>2. Under(s) \subseteq Under(t) /\ s \in Under(t) /\ s \notin Under(s)
      BY <3>1, NewerOrders
    <3>3. Under(s) \in Unders
      BY <3>1
    <3> QED
      BY <2>1, <2>2, <3>2, <3>3
  <2>4. \A s \in S \ {t} : Newer(rows, s, t)
    BY <2>2, <2>3, NewerOrders
  <2> QED
    BY <2>4
<1>4. LastRow(rows, S) \in S /\ \A s \in S \ {LastRow(rows, S)} : Newer(rows, s, LastRow(rows, S))
  BY <1>3 DEF LastRow
<1> QED
  BY <1>2, <1>4

\* A page is not empty when there is something to show, begins with the newest rows, and
\* what it leaves is what is older than its last row.
LEMMA PageCuts ==
    ASSUME NEW rows, LedgerBook(rows), NEW S \in SUBSET DOMAIN rows, S # {}, NEW limit \in Nat \ {0},
           NEW page, page = Page(rows, S, limit), NEW l, l = LastRow(rows, page)
    PROVE  /\ page \subseteq S /\ l \in page
           /\ \A t \in page : \A s \in S : Newer(rows, s, t) => s \in page
           /\ S \ page = {t \in S : Newer(rows, l, t)}
<1> DEFINE Over(t) == {s \in S : Newer(rows, s, t)}
<1>1. \A t \in S : IsFiniteSet(Over(t)) /\ Cardinality(Over(t)) \in Nat
  <2>1. IsFiniteSet(S)
    BY FS_Subset DEF LedgerBook
  <2> QED
    BY <2>1, FS_Subset, FS_CardinalityType
<1>2. page \subseteq S /\ \A t \in S : t \in page <=> Cardinality(Over(t)) < limit
  BY DEF Page
<1>3. page # {}
  <2>1. PICK t \in S : Over(t) = {}
    BY Ends
  <2>2. Cardinality(Over(t)) = 0
    BY <2>1, FS_EmptySet
  <2>3. 0 < limit
    OBVIOUS
  <2> QED
    BY <1>2, <2>2, <2>3
<1>4. ASSUME NEW t \in page, NEW s \in S, Newer(rows, s, t) PROVE s \in page
  <2>1. Over(s) \subseteq Over(t)
    BY <1>2, <1>4, NewerOrders
  <2>2. t \in S /\ Cardinality(Over(t)) < limit
    BY <1>2
  <2>3. Cardinality(Over(s)) <= Cardinality(Over(t))
    BY <1>1, <2>1, <2>2, FS_Subset
  <2> HIDE DEF Over
  <2>4. Cardinality(Over(s)) < limit
    BY <1>1, <2>2, <2>3
  <2> QED
    BY <1>2, <2>4
<1>5. l \in page /\ \A s \in page \ {l} : Newer(rows, s, l)
  BY <1>2, <1>3, Ends
<1>6. ASSUME NEW t \in S PROVE t \notin page <=> Newer(rows, l, t)
  <2>1. l \in DOMAIN rows /\ t \in DOMAIN rows
    BY <1>2, <1>5
  <2>2. ASSUME t \notin page PROVE Newer(rows, l, t)
    BY <1>4, <1>5, <2>1, <2>2, NewerOrders
  <2>3. ASSUME t \in page PROVE ~Newer(rows, l, t)
    BY <1>5, <2>1, <2>3, NewerOrders
  <2> QED
    BY <2>2, <2>3
<1> QED
  BY <1>2, <1>4, <1>5, <1>6

-----------------------------------------------------------------------------
(* The ledger in pages *)

SignedOf(rows, a) == [t \in DOMAIN rows |-> SignedAmount(rows[t], a)]

\* The sums of the ledger are totals.
LEMMA SignedTotals ==
    ASSUME NEW rows, NEW a, NEW S \in SUBSET DOMAIN rows
    PROVE  Signed(rows, a, S) = Total(SignedOf(rows, a), S)
<1> DEFINE Sum(sum) == sum = [T \in SUBSET S |-> IF T = {} THEN 0 ELSE SignedAmount(rows[Pick(T)], a) + sum[T \ {Pick(T)}]]
<1>1. Signed(rows, a, S) = (CHOOSE sum : Sum(sum))[S]
  BY DEF Signed, MapThenSumSet, MapThenFoldSet, Pick
<1>2. \A sum : Sum(sum) <=> Sums(SignedOf(rows, a), S, sum)
  <2> SUFFICES ASSUME NEW sum PROVE Sum(sum) <=> Sums(SignedOf(rows, a), S, sum)
    OBVIOUS
  <2>1. \A T \in SUBSET S : T # {} => Pick(T) \in DOMAIN rows
    BY DEF Pick
  <2>2. \A T \in SUBSET S : SumBody(SignedOf(rows, a), sum, T)
                               = IF T = {} THEN 0 ELSE SignedAmount(rows[Pick(T)], a) + sum[T \ {Pick(T)}]
    BY <2>1 DEF SumBody, SignedOf
  <2> QED
    BY <2>2 DEF Sums
<1> HIDE DEF Sum
<1>3. (CHOOSE sum : Sum(sum)) = (CHOOSE sum : Sums(SignedOf(rows, a), S, sum))
  BY <1>2
<1> QED
  BY <1>1, <1>3, TotalIs

\* The signed amounts are whole numbers, and so are their sums.
LEMMA SignedType ==
    ASSUME NEW rows, LedgerBook(rows), NEW a
    PROVE  /\ \A t \in DOMAIN rows : SignedOf(rows, a)[t] \in Int /\ SignedOf(rows, a)[t] = SignedAmount(rows[t], a)
           /\ \A S \in SUBSET DOMAIN rows : Signed(rows, a, S) \in Int
<1>1. \A t \in DOMAIN rows : SignedOf(rows, a)[t] \in Int /\ SignedOf(rows, a)[t] = SignedAmount(rows[t], a)
  BY DEF SignedOf, SignedAmount, Revaluation, LedgerBook
<1>2. ASSUME NEW S \in SUBSET DOMAIN rows PROVE Signed(rows, a, S) \in Int
  <2>1. IsFiniteSet(S) /\ \A t \in S : SignedOf(rows, a)[t] \in Int
    BY <1>1, FS_Subset DEF LedgerBook
  <2> QED
    BY <2>1, TotalType, SignedTotals
<1> QED
  BY <1>1, <1>2

\* Those of disjoint sets of rows add up.
LEMMA SignedAdds ==
    ASSUME NEW rows, LedgerBook(rows), NEW a, NEW S \in SUBSET DOMAIN rows, NEW T \in SUBSET DOMAIN rows, S \cap T = {}
    PROVE  Signed(rows, a, S \cup T) = Signed(rows, a, S) + Signed(rows, a, T)
<1>1. IsFiniteSet(S) /\ IsFiniteSet(T) /\ S \cup T \in SUBSET DOMAIN rows
      /\ \A t \in S \cup T : SignedOf(rows, a)[t] \in Int
  BY SignedType, FS_Subset DEF LedgerBook
<1>2. Total(SignedOf(rows, a), S \cup T) = Total(SignedOf(rows, a), S) + Total(SignedOf(rows, a), T)
  BY <1>1, TotalOfUnion
<1> QED
  BY <1>1, <1>2, SignedTotals

\* Where every row of a ledger stands, however it is cut into pages: below the rows that
\* are newer, among those behind the cursor.
Standing(rows, a, S, c, carry) ==
    [t \in Behind(rows, S, c) |-> carry - Signed(rows, a, {s \in Behind(rows, S, c) : Newer(rows, s, t)})]

\* The next page, and the pages that after gives for the cursor and balance it ends with
Paged(rows, a, S, limit, after, c, carry) ==
    LET behind == Behind(rows, S, c)
        page   == Page(rows, behind, limit)
        here   == BalancesOn(rows, a, page, carry)
        rest   == after[<<LastRow(rows, page), carry - Signed(rows, a, page)>>]
    IN  IF page = behind THEN here
        ELSE [t \in page \cup DOMAIN rest |-> IF t \in page THEN here[t] ELSE rest[t]]

Pages(rows, a, S, limit, after) ==
    after = [cursor \in (DOMAIN rows \cup {None}) \X Int |-> Paged(rows, a, S, limit, after, cursor[1], cursor[2])]

\* The ledger is what a function that shows page after page begins with.
LEMMA LedgerIs ==
    ASSUME NEW rows, NEW a, NEW S, NEW limit, NEW top
    PROVE  Ledger(rows, a, S, limit, top) = (CHOOSE after : Pages(rows, a, S, limit, after))[<<None, top>>]
BY DEF Ledger, Pages, Paged

\* A page and the pages after it put every row where it stands.
LEMMA PageStands ==
    ASSUME NEW rows, LedgerBook(rows), NEW a, NEW S \in SUBSET DOMAIN rows, NEW limit \in Nat \ {0},
           NEW c \in DOMAIN rows \cup {None}, NEW carry \in Int, NEW after,
           \A d \in DOMAIN rows, rest \in Int :
              (Behind(rows, S, d) \subseteq Behind(rows, S, c) /\ Behind(rows, S, d) # Behind(rows, S, c)) =>
                  after[<<d, rest>>] = Standing(rows, a, S, d, rest)
    PROVE  Paged(rows, a, S, limit, after, c, carry) = Standing(rows, a, S, c, carry)
<1>1. PICK behind, page, l, rest :
        /\ behind = Behind(rows, S, c) /\ page = Page(rows, behind, limit) /\ l = LastRow(rows, page)
        /\ rest = carry - Signed(rows, a, page)
  OBVIOUS
<1>2. behind \in SUBSET DOMAIN rows /\ behind \subseteq S
  BY <1>1 DEF Behind
<1>3. CASE page = behind
  BY <1>1, <1>3 DEF Paged, BalancesOn, Standing
<1>4. CASE page # behind
  <2>1. behind # {}
    BY <1>1, <1>4 DEF Page
  <2>2. /\ page \subseteq behind /\ l \in page
        /\ \A t \in page : \A s \in behind : Newer(rows, s, t) => s \in page
        /\ behind \ page = {t \in behind : Newer(rows, l, t)}
    BY <1>1, <1>2, <2>1, PageCuts
  <2>3. Behind(rows, S, l) = behind \ page
    <3>1. l \in DOMAIN rows /\ l # None
      BY <1>2, <2>2 DEF LedgerBook
    <3>2. Behind(rows, S, l) = {t \in S : Newer(rows, l, t)}
      BY <3>1 DEF Behind
    <3>3. ASSUME NEW t \in S, Newer(rows, l, t) PROVE t \in behind
      <4>1. CASE c = None
        BY <1>1, <4>1 DEF Behind
      <4>2. CASE c # None
        <5>1. Newer(rows, c, l) /\ c \in DOMAIN rows
          BY <1>1, <2>2, <4>2 DEF Behind
        <5>2. Newer(rows, c, t)
          BY <3>1, <3>3, <5>1, NewerOrders
        <5> QED
          BY <1>1, <5>2 DEF Behind
      <4> QED
        BY <4>1, <4>2
    <3> QED
      BY <1>2, <2>2, <3>2, <3>3
  <2>4. rest \in Int /\ Signed(rows, a, page) \in Int
    <3>1. page \in SUBSET DOMAIN rows
      BY <1>2, <2>2
    <3>2. Signed(rows, a, page) \in Int
      BY <3>1, SignedType
    <3> QED
      BY <1>1, <3>2
  <2>5. after[<<l, rest>>] = [t \in behind \ page |-> rest - Signed(rows, a, {s \in behind \ page : Newer(rows, s, t)})]
    <3>1. behind \ page \subseteq behind /\ behind \ page # behind /\ l \in DOMAIN rows
      BY <1>2, <2>2
    <3>2. after[<<l, rest>>] = Standing(rows, a, S, l, rest)
      BY <1>1, <2>3, <2>4, <3>1
    <3> QED
      BY <2>3, <3>2 DEF Standing
  <2>6. PICK tail : tail = after[<<l, rest>>]
    OBVIOUS
  <2>7. Paged(rows, a, S, limit, after, c, carry)
           = [t \in page \cup DOMAIN tail |-> IF t \in page THEN BalancesOn(rows, a, page, carry)[t] ELSE tail[t]]
    BY <1>1, <1>4, <2>6 DEF Paged
  <2>8. page \cup DOMAIN tail = behind
    BY <2>2, <2>5, <2>6
  <2>9. ASSUME NEW t \in page
        PROVE  BalancesOn(rows, a, page, carry)[t] = carry - Signed(rows, a, {s \in behind : Newer(rows, s, t)})
    <3>1. {s \in page : Newer(rows, s, t)} = {s \in behind : Newer(rows, s, t)}
      BY <2>2
    <3> QED
      BY <3>1 DEF BalancesOn
  <2>10. ASSUME NEW t \in behind \ page
         PROVE  tail[t] = carry - Signed(rows, a, {s \in behind : Newer(rows, s, t)})
    <3>1. PICK older : older = {s \in behind \ page : Newer(rows, s, t)}
      OBVIOUS
    <3>2. tail[t] = rest - Signed(rows, a, older)
      BY <2>5, <2>6, <3>1
    <3>3. {s \in behind : Newer(rows, s, t)} = page \cup older
      <4>1. ASSUME NEW s \in page PROVE Newer(rows, s, t)
        <5>1. s \in DOMAIN rows /\ t \in DOMAIN rows /\ s # t /\ ~Newer(rows, t, s)
          BY <1>2, <2>2
        <5> QED
          BY <5>1, NewerOrders
      <4> QED
        BY <2>2, <3>1, <4>1
    <3>4. page \in SUBSET DOMAIN rows /\ older \in SUBSET DOMAIN rows /\ page \cap older = {}
      BY <1>2, <2>2, <3>1
    <3>5. PICK x, y \in Int : x = Signed(rows, a, page) /\ y = Signed(rows, a, older)
      BY <3>4, SignedType
    <3>6. Signed(rows, a, {s \in behind : Newer(rows, s, t)}) = x + y
      BY <3>3, <3>4, <3>5, SignedAdds
    <3>7. tail[t] = carry - x - y
      BY <1>1, <3>2, <3>5
    <3>8. carry - x - y = carry - (x + y)
      OBVIOUS
    <3> QED
      BY <3>6, <3>7, <3>8
  <2>11. Paged(rows, a, S, limit, after, c, carry)
            = [t \in behind |-> carry - Signed(rows, a, {s \in behind : Newer(rows, s, t)})]
    BY <2>2, <2>7, <2>8, <2>9, <2>10
  <2> QED
    BY <1>1, <2>11 DEF Standing
<1> QED
  BY <1>3, <1>4

\* However the ledger is cut into pages, every row stands below the rows that are newer.
Placed(rows, a, S, top) == [t \in S |-> top - Signed(rows, a, {s \in S : Newer(rows, s, t)})]

LEMMA LedgerStands ==
    ASSUME NEW rows, LedgerBook(rows), NEW a, NEW S \in SUBSET DOMAIN rows, NEW limit \in Nat \ {0}, NEW top \in Int
    PROVE  Ledger(rows, a, S, limit, top) = Placed(rows, a, S, top)
<1> DEFINE Cs == DOMAIN rows \cup {None}
<1>1. \E after : Pages(rows, a, S, limit, after)
  <2>1. PICK after : after = [cursor \in Cs \X Int |-> Standing(rows, a, S, cursor[1], cursor[2])]
    OBVIOUS
  <2>2. \A d \in DOMAIN rows, rest \in Int : after[<<d, rest>>] = Standing(rows, a, S, d, rest)
    BY <2>1
  <2>3. \A c \in Cs, carry \in Int : Paged(rows, a, S, limit, after, c, carry) = Standing(rows, a, S, c, carry)
    <3> SUFFICES ASSUME NEW c \in Cs, NEW carry \in Int
                 PROVE  Paged(rows, a, S, limit, after, c, carry) = Standing(rows, a, S, c, carry)
      OBVIOUS
    <3>1. \A d \in DOMAIN rows, rest \in Int :
             (Behind(rows, S, d) \subseteq Behind(rows, S, c) /\ Behind(rows, S, d) # Behind(rows, S, c)) =>
                 after[<<d, rest>>] = Standing(rows, a, S, d, rest)
      BY <2>2
    <3> HIDE <2>1, <2>2
    <3> QED
      BY <3>1, PageStands
  <2>4. after = [cursor \in Cs \X Int |-> Paged(rows, a, S, limit, after, cursor[1], cursor[2])]
    BY <2>1, <2>3
  <2> QED
    BY <2>4 DEF Pages
<1>2. PICK after : after = (CHOOSE f : Pages(rows, a, S, limit, f))
  OBVIOUS
<1>3. Pages(rows, a, S, limit, after)
  BY <1>1, <1>2
<1>4. \A c \in Cs, carry \in Int : after[<<c, carry>>] = Paged(rows, a, S, limit, after, c, carry)
  BY <1>3 DEF Pages
<1> DEFINE Wrong == {c \in Cs : \E carry \in Int : after[<<c, carry>>] # Standing(rows, a, S, c, carry)}
           W     == {Behind(rows, S, c) : c \in Wrong}
<1>5. W = {}
  <2> SUFFICES ASSUME W # {} PROVE FALSE
    OBVIOUS
  <2>1. W \in SUBSET (SUBSET DOMAIN rows) /\ IsFiniteSet(DOMAIN rows)
    BY DEF LedgerBook, Behind
  <2> HIDE DEF W
  <2>2. PICK B \in W : \A T \in W : T \subseteq B => T = B
    BY <2>1, SmallestSet
  <2>3. PICK c \in Wrong : B = Behind(rows, S, c)
    BY DEF W
  <2>4. PICK carry \in Int : c \in Cs /\ after[<<c, carry>>] # Standing(rows, a, S, c, carry)
    OBVIOUS
  <2>5. ASSUME NEW d \in DOMAIN rows, NEW rest \in Int,
               Behind(rows, S, d) \subseteq Behind(rows, S, c), Behind(rows, S, d) # Behind(rows, S, c)
        PROVE  after[<<d, rest>>] = Standing(rows, a, S, d, rest)
    <3>1. Behind(rows, S, d) \notin W
      BY <2>2, <2>3, <2>5
    <3>2. d \notin Wrong
      BY <3>1 DEF W
    <3> QED
      BY <3>2
  <2> HIDE DEF Wrong
  <2>6. Paged(rows, a, S, limit, after, c, carry) = Standing(rows, a, S, c, carry)
    BY <2>4, <2>5, PageStands
  <2> QED
    BY <1>4, <2>4, <2>6
<1>6. after[<<None, top>>] = Standing(rows, a, S, None, top)
  BY <1>5
<1>7. Behind(rows, S, None) = S
  BY DEF Behind
<1> QED
  BY <1>2, <1>6, <1>7, LedgerIs DEF Standing, Placed

\* What the ledger of some rows says was there before the oldest of them: the balance it
\* starts from less all of their amounts.
LEMMA OpeningIs ==
    ASSUME NEW rows, LedgerBook(rows), NEW a, NEW S \in SUBSET DOMAIN rows, S # {}, NEW limit \in Nat \ {0}, NEW top \in Int
    PROVE  Opening(rows, a, Ledger(rows, a, S, limit, top)) = top - Signed(rows, a, S)
<1>1. PICK after : after = Ledger(rows, a, S, limit, top)
  OBVIOUS
<1>2. after = [t \in S |-> top - Signed(rows, a, {s \in S : Newer(rows, s, t)})]
  <2>1. Ledger(rows, a, S, limit, top) = Placed(rows, a, S, top)
    BY LedgerStands
  <2> QED
    BY <1>1, <2>1 DEF Placed
<1>3. PICK l : l = LastRow(rows, S) /\ l \in S /\ \A s \in S \ {l} : Newer(rows, s, l)
  BY Ends
<1>4. {s \in S : Newer(rows, s, l)} = S \ {l}
  <2>1. ~Newer(rows, l, l)
    BY <1>3, NewerOrders
  <2> QED
    BY <1>3, <2>1
<1>5. PICK x, y \in Int : x = Signed(rows, a, S \ {l}) /\ y = SignedAmount(rows[l], a)
  BY <1>3, SignedType
<1>6. Signed(rows, a, S) = y + x
  <2>1. IsFiniteSet(S) /\ (\A t \in S : SignedOf(rows, a)[t] \in Int) /\ SignedOf(rows, a)[l] = y
    BY <1>3, <1>5, SignedType, FS_Subset DEF LedgerBook
  <2>2. Total(SignedOf(rows, a), S) = SignedOf(rows, a)[l] + Total(SignedOf(rows, a), S \ {l})
    BY <1>3, <2>1, TotalOfMore
  <2>3. S \ {l} \in SUBSET DOMAIN rows
    OBVIOUS
  <2> QED
    BY <1>5, <2>1, <2>2, <2>3, SignedTotals
<1>7. after[l] = top - x
  BY <1>2, <1>3, <1>4, <1>5
<1>8. DOMAIN after = S
  BY <1>2
<1>9. Opening(rows, a, after) = top - x - y
  BY <1>3, <1>5, <1>7, <1>8 DEF Opening
<1>10. top - x - y = top - (y + x)
  OBVIOUS
<1> QED
  BY <1>1, <1>6, <1>9, <1>10

\* The sums behind a balance are totals.
LEMMA FlowTotals ==
    ASSUME NEW rows, NEW a, NEW f, \A t \in Touching(rows, a) : Contribution(rows[t], a) = f[t]
    PROVE  CashFlow(rows, a) = Total(f, Touching(rows, a))
<1> DEFINE S == Touching(rows, a)
           Sum(sum) == sum = [T \in SUBSET S |-> IF T = {} THEN 0 ELSE Contribution(rows[Pick(T)], a) + sum[T \ {Pick(T)}]]
<1>1. CashFlow(rows, a) = (CHOOSE sum : Sum(sum))[S]
  BY DEF CashFlow, MapThenSumSet, MapThenFoldSet, Pick
<1>2. \A sum : Sum(sum) <=> Sums(f, S, sum)
  <2> SUFFICES ASSUME NEW sum PROVE Sum(sum) <=> Sums(f, S, sum)
    OBVIOUS
  <2>1. \A T \in SUBSET S : T # {} => Pick(T) \in S
    BY DEF Pick
  <2>2. \A T \in SUBSET S : SumBody(f, sum, T) = IF T = {} THEN 0 ELSE Contribution(rows[Pick(T)], a) + sum[T \ {Pick(T)}]
    BY <2>1 DEF SumBody
  <2> QED
    BY <2>2 DEF Sums
<1> HIDE DEF Sum
<1>3. (CHOOSE sum : Sum(sum)) = (CHOOSE sum : Sums(f, S, sum))
  BY <1>2
<1> QED
  BY <1>1, <1>3, TotalIs

\* Where both paths read a row in the same way, both sums are the same.
LEMMA FlowIsSigned ==
    ASSUME NEW rows, NEW a, NEW part, DOMAIN part \in SUBSET DOMAIN rows,
           \A t \in Touching(part, a) : Contribution(part[t], a) = SignedAmount(rows[t], a)
    PROVE  CashFlow(part, a) = Signed(rows, a, Touching(part, a))
<1>1. Touching(part, a) \in SUBSET DOMAIN rows
  BY DEF Touching
<1>2. \A t \in Touching(part, a) : Contribution(part[t], a) = SignedOf(rows, a)[t]
  BY <1>1 DEF SignedOf
<1> QED
  BY <1>1, <1>2, FlowTotals, SignedTotals

-----------------------------------------------------------------------------
(* Rows *)

\* A row an UPDATE leaves behind is a row again.
LEMMA MergedTx ==
    ASSUME NEW row \in TxRows, NEW base \in TxRows, NEW mine \in TxRows
    PROVE  Merged(row, base, mine) \in TxRows
  BY DEF Merged, TxRows

LEMMA MergedAccount ==
    ASSUME NEW row \in AccountRows, NEW base \in AccountRows, NEW mine \in AccountRows
    PROVE  Merged(row, base, mine) \in AccountRows
  BY DEF Merged, AccountRows

\* A session that loaded what is committed writes its own copy.
LEMMA MergedOwnTx ==
    ASSUME NEW row \in TxRows, NEW mine \in TxRows
    PROVE  /\ Merged(row, row, mine).type = mine.type
           /\ Merged(row, row, mine).from = mine.from
           /\ Merged(row, row, mine).to = mine.to
           /\ Merged(row, row, mine).status = mine.status
  BY DEF Merged, TxRows

LEMMA MergedOwnAccount ==
    ASSUME NEW row \in AccountRows, NEW mine \in AccountRows
    PROVE  Merged(row, row, mine).status = mine.status
  BY DEF Merged, AccountRows

-----------------------------------------------------------------------------
(* Types, and which request works on what *)

Fits == TypeOK /\ JobFits

LEMMA InitFits == Init => Fits
<1> SUFFICES ASSUME Init PROVE Fits
  OBVIOUS
<1>1. TypeOK
  BY BudgetAssumption, NoneAssumption DEF Init, TypeOK, AccountRows, Kinds, Status, PC
<1>2. JobFits
  BY DEF Init, JobFits
<1> QED
  BY <1>1, <1>2 DEF Fits

\* The beginning of a request
LEMMA StartFits ==
    ASSUME Fits, NEW w \in Workers, NEW id \in Rows, NEW base \in Copies, NEW mine \in Copies,
           NEW to \in PC \ {"idle"}, Ready(w), Start(w, id, base, mine, to),
           \/ /\ id \in TxIds /\ mine \in TxRows
              /\ \/ base = None /\ to = "commit"
                 \/ base \in TxRows /\ txs[id] # None /\ to \in {"check", "flush", "commit"}
           \/ /\ id \in Accounts /\ base \in AccountRows /\ mine \in AccountRows
              /\ to \in {"solo", "shared", "flush", "commit"}
    PROVE  Fits'
<1> DEFINE new == [id |-> id, base |-> base, mine |-> mine]
<1>1. new \in Jobs /\ new # None
  BY NoneAssumption DEF Jobs
<1>2. job' = [job EXCEPT ![w] = new] /\ pc' = [pc EXCEPT ![w] = to]
  BY DEF Start
<1> HIDE DEF new
<1>3. TypeOK'
  BY <1>1, <1>2 DEF Fits, TypeOK, Start, Ready
<1>4. new.id = id /\ new.base = base /\ new.mine = mine
  BY DEF new
<1>5. JobFits'
  BY <1>1, <1>2, <1>4 DEF Fits, TypeOK, JobFits, Start
<1> QED
  BY <1>3, <1>5 DEF Fits

LEMMA CreateFits ==
    ASSUME Fits, NEW w \in Workers, Ready(w), NEW t \in NextIds, NEW type \in Types,
           NEW amount \in Amounts, NEW date \in Dates, NEW from \in Accounts,
           NEW to \in Accounts \cup {None}, NEW dir \in Directions \cup {None},
           Create(w, t, type, amount, date, from, to, dir)
    PROVE  Fits'
<1> DEFINE mine == [type |-> type, amount |-> amount, date |-> date, from |-> from, to |-> to,
                    dir |-> dir, status |-> "ACTIVE"]
<1>1. mine \in TxRows
  BY DEF TxRows, Status
<1>2. t \in TxIds /\ t \in Rows /\ mine \in Copies /\ None \in Copies
  BY <1>1 DEF NextIds, Rows, Copies
<1>3. Start(w, t, None, mine, "commit")
  BY DEF Create
<1> HIDE DEF mine
<1> QED
  BY <1>1, <1>2, <1>3, StartFits DEF PC

LEMMA BeginFits ==
    ASSUME Fits, NEW w \in Workers, Begin(w) PROVE Fits'
<1> Ready(w)
  BY DEF Begin
<1>1. ASSUME NEW t \in TxIds, Load(w, t) PROVE Fits'
  <2>1. txs[t] \in TxRows /\ txs[t] # None
    BY <1>1 DEF Fits, TypeOK, Load, Live
  <2> QED
    BY <1>1, <2>1, StartFits DEF Load, Rows, Copies, PC
<1>2. ASSUME NEW t \in TxIds, Erase(w, t) PROVE Fits'
  <2>1. txs[t] \in TxRows /\ txs[t] # None
    BY <1>2 DEF Fits, TypeOK, Erase, Live
  <2>2. [txs[t] EXCEPT !.status = "DELETED"] \in TxRows
    BY <2>1 DEF TxRows, Status
  <2> QED
    BY <1>2, <2>1, <2>2, StartFits DEF Erase, Rows, Copies, PC
<1>3. ASSUME NEW a \in Accounts, Close(w, a) PROVE Fits'
  <2>1. accts[a] \in AccountRows
    BY DEF Fits, TypeOK
  <2>2. [accts[a] EXCEPT !.status = "DELETED"] \in AccountRows
    BY <2>1 DEF AccountRows, Status
  <2> QED
    BY <1>3, <2>1, <2>2, StartFits DEF Close, Rows, Copies, PC
<1>4. ASSUME NEW a \in Accounts, NEW kind \in Kinds, Retype(w, a, kind) PROVE Fits'
  <2>1. accts[a] \in AccountRows
    BY DEF Fits, TypeOK
  <2>2. [accts[a] EXCEPT !.kind = kind] \in AccountRows
    BY <2>1 DEF AccountRows
  <2> QED
    BY <1>4, <2>1, <2>2, StartFits DEF Retype, Rows, Copies, PC
<1> QED
  BY <1>1, <1>2, <1>3, <1>4, CreateFits DEF Begin

\* What a partial update makes of a loaded row is a row
LEMMA PatchedRow ==
    ASSUME NEW base \in TxRows, NEW type \in Types, NEW amount \in Amounts, NEW date \in Dates,
           NEW from \in Accounts, NEW to \in Accounts \cup {None},
           NEW dir \in Directions \cup {None}
    PROVE  /\ Patched(base, type, amount, date, from, to, dir) \in TxRows
           /\ Patched(base, type, amount, date, from, to, dir).type = type
           /\ Patched(base, type, amount, date, from, to, dir).from = from
           /\ Patched(base, type, amount, date, from, to, dir).to
                  = IF type = "TRANSFER" THEN to ELSE None
  BY DEF Patched, TxRows

\* A partial update writes a row that is consistent and whose accounts are alive
LEMMA PatchEffect ==
    ASSUME Fits, NEW w \in Workers, Patch(w)
    PROVE  \E row \in TxRows : /\ job' = [job EXCEPT ![w].mine = row]
                               /\ Sound(row) /\ Outlived(row)
<1>1. job[w].base \in TxRows
  BY RowsAssumption DEF Patch, Fits, TypeOK, JobFits
<1>2. job[w].base.to \in Accounts \cup {None} /\ job[w].base.dir \in Directions \cup {None}
  BY <1>1 DEF TxRows
<1>3. PICK type \in Types, amount \in Amounts, date \in Dates, from \in Accounts,
           to \in Accounts \cup {job[w].base.to}, dir \in Directions \cup {job[w].base.dir} :
              /\ from = to => from = job[w].base.from \/ to = job[w].base.to
              /\ Allowed(type, {from, to})
              /\ Consistent(type, from, to)
              /\ job' = [job EXCEPT ![w].mine =
                            Patched(job[w].base, type, amount, date, from, to, dir)]
  BY Zenon DEF Patch
<1> DEFINE row == Patched(job[w].base, type, amount, date, from, to, dir)
<1>4. /\ row \in TxRows
      /\ row.type = type /\ row.from = from
      /\ row.to = IF type = "TRANSFER" THEN to ELSE None
  <2> DEFINE base == job[w].base
  <2>1. base \in TxRows /\ to \in Accounts \cup {None} /\ dir \in Directions \cup {None}
    BY <1>1, <1>2
  <2> HIDE DEF base
  <2>2. /\ Patched(base, type, amount, date, from, to, dir) \in TxRows
        /\ Patched(base, type, amount, date, from, to, dir).type = type
        /\ Patched(base, type, amount, date, from, to, dir).from = from
        /\ Patched(base, type, amount, date, from, to, dir).to
                = IF type = "TRANSFER" THEN to ELSE None
    BY <2>1, PatchedRow
  <2> QED
    BY <2>2 DEF base
<1>5. job' = [job EXCEPT ![w].mine = row]
  BY <1>3
<1> HIDE DEF row
<1>6. Sound(row)
  BY <1>3, <1>4 DEF Sound, Consistent
<1>7. Outlived(row)
  BY <1>3, <1>4, NoneAssumption DEF Outlived, Allowed, Live
<1> QED
  BY <1>4, <1>5, <1>6, <1>7

LEMMA PatchFits == ASSUME Fits, NEW w \in Workers, Patch(w) PROVE Fits'
<1>1. pc[w] = "check" /\ job[w] # None /\ job[w] \in Jobs
  BY DEF Patch, Fits, TypeOK
<1>2. job[w].id \in TxIds /\ job[w].base \in TxRows /\ txs[job[w].id] # None
  BY <1>1 DEF Fits, JobFits
<1>4. PICK mine \in TxRows : job' = [job EXCEPT ![w].mine = mine]
  BY PatchEffect
<1>5. [job[w] EXCEPT !.mine = mine] \in Jobs
  BY <1>1 DEF Jobs, Copies
<1>6. [job[w] EXCEPT !.mine = mine] # None
  BY <1>5, NoneAssumption
<1>7. job' = [job EXCEPT ![w] = [job[w] EXCEPT !.mine = mine]]
  BY <1>1, <1>4 DEF Fits, TypeOK
<1>8. /\ job'[w].id = job[w].id /\ job'[w].base = job[w].base /\ job'[w].mine = mine
      /\ job'[w] \in Jobs /\ job'[w] # None
  BY <1>1, <1>5, <1>6, <1>7 DEF Fits, TypeOK, Jobs
<1>9. \A v \in Workers \ {w} : job'[v] = job[v] /\ pc'[v] = pc[v]
  BY <1>7 DEF Fits, TypeOK, Patch
<1>10. pc' = [pc EXCEPT ![w] = "flush"]
  BY DEF Patch
<1>11. TypeOK'
  BY <1>5, <1>7, <1>8, <1>9, <1>10 DEF Fits, TypeOK, Patch, PC
<1>12. JobFits'
  BY <1>2, <1>8, <1>9, <1>10 DEF Fits, TypeOK, JobFits, Patch
<1> QED
  BY <1>11, <1>12 DEF Fits

\* The UPDATEs of delete_account
LEMMA SoftDeleteFits ==
    ASSUME Fits, NEW w \in Workers, NEW found \in SUBSET Active,
           NEW from \in {"solo", "shared"}, NEW to \in {"shared", "flush"},
           SoftDelete(w, found, from, to)
    PROVE  Fits'
<1>1. found \subseteq TxIds /\ \A t \in found : txs[t] # None
  BY DEF Active, Live
<1>2. TypeOK'
  BY <1>1 DEF Fits, TypeOK, SoftDelete, PC, Rows
<1>3. JobFits'
  BY <1>1, RowsAssumption DEF Fits, TypeOK, JobFits, SoftDelete, PC
<1> QED
  BY <1>2, <1>3 DEF Fits

LEMMA FlushFits == ASSUME Fits, NEW w \in Workers, Flush(w) PROVE Fits'
<1>1. job[w] # None /\ job[w].id \in Rows
  BY DEF Fits, TypeOK, JobFits, Flush, Rows
<1>2. TypeOK'
  BY <1>1 DEF Fits, TypeOK, Flush, PC
<1>3. JobFits'
  BY DEF Fits, TypeOK, JobFits, Flush
<1> QED
  BY <1>2, <1>3 DEF Fits

\* The end of a session leaves the others' jobs alone
LEMMA EndSessionFits ==
    ASSUME Fits, NEW w \in Workers, EndSession(w),
           accts' \in [Accounts -> AccountRows], txs' \in [TxIds -> TxRows \cup {None}],
           \A t \in TxIds : txs[t] # None => txs'[t] # None,
           late' \subseteq Workers, raced' \subseteq Rows, left' = left
    PROVE  Fits'
<1>1. TypeOK'
  BY DEF Fits, TypeOK, EndSession, PC
<1>2. JobFits'
  BY DEF Fits, TypeOK, JobFits, EndSession
<1> QED
  BY <1>1, <1>2 DEF Fits

\* What a commit makes of a transaction row
LEMMA WrittenRow ==
    ASSUME Fits, NEW w \in Workers, job[w] # None, NEW t \in TxIds
    PROVE  /\ Written(w, t) \in TxRows \cup {None}
           /\ txs[t] # None => Written(w, t) # None
<1>1. CASE t \in kill[w]
  <2>1. txs[t] \in TxRows
    BY <1>1 DEF Fits, TypeOK, JobFits
  <2>2. [txs[t] EXCEPT !.status = "DELETED"] \in TxRows
    BY <2>1 DEF TxRows, Status
  <2> QED
    BY <1>1, <2>2, NoneAssumption DEF Written
<1>2. CASE t \notin kill[w] /\ t # job[w].id
  BY <1>2 DEF Written, Fits, TypeOK
<1>3. CASE t \notin kill[w] /\ t = job[w].id
  <2>1. job[w].mine \in TxRows /\ (job[w].base # None => job[w].base \in TxRows /\ txs[t] \in TxRows)
    BY <1>3, RowsAssumption DEF Fits, TypeOK, JobFits, TxIds
  <2> QED
    BY <1>3, <2>1, MergedTx, NoneAssumption DEF Written, Inserts
<1> QED
  BY <1>1, <1>2, <1>3

LEMMA CommitFits == ASSUME Fits, NEW w \in Workers, Commit(w) PROVE Fits'
<1>1. job[w] # None /\ job[w].id \in Rows
  BY DEF Fits, TypeOK, JobFits, Commit, Rows
<1>2. txs' \in [TxIds -> TxRows \cup {None}] /\ \A t \in TxIds : txs[t] # None => txs'[t] # None
  BY <1>1, WrittenRow DEF Commit
<1>3. accts' \in [Accounts -> AccountRows]
  <2>1. ASSUME NEW a \in Accounts, a = job[w].id
        PROVE  Merged(accts[a], job[w].base, job[w].mine) \in AccountRows
    BY <1>1, <2>1, MergedAccount, RowsAssumption DEF Fits, TypeOK, JobFits, TxIds
  <2> QED
    BY <2>1 DEF Commit, Fits, TypeOK
<1>4. late' \subseteq Workers /\ raced' \subseteq Rows /\ left' = left
  BY <1>1 DEF Commit, Fits, TypeOK, Rows
<1> QED
  BY <1>2, <1>3, <1>4, EndSessionFits DEF Commit

LEMMA RollbackFits == ASSUME Fits, NEW w \in Workers, Rollback(w) PROVE Fits'
  BY EndSessionFits DEF Rollback, Fits, TypeOK

\* Every step keeps the types, and every request's job that of its handler.
LEMMA NextFits == Fits /\ [Next]_vars => Fits'
<1> SUFFICES ASSUME Fits, [Next]_vars PROVE Fits'
  OBVIOUS
<1>1. ASSUME NEW w \in Workers, Solo(w) PROVE Fits'
  BY <1>1, SoftDeleteFits DEF Solo, SoloRows
<1>2. ASSUME NEW w \in Workers, Shared(w) PROVE Fits'
  BY <1>2, SoftDeleteFits DEF Shared, DeadTransfers
<1>3. CASE UNCHANGED vars
  BY <1>3 DEF vars, Fits, TypeOK, JobFits
<1> QED
  BY <1>1, <1>2, <1>3, BeginFits, PatchFits, FlushFits, CommitFits, RollbackFits DEF Next

-----------------------------------------------------------------------------
(* What a request that was not overtaken leaves behind *)

Rest == UnracedAreSound /\ FreshJobs /\ DeadTakeTheirRows

LEMMA InitRest == Init => Rest
<1> SUFFICES ASSUME Init PROVE Rest
  OBVIOUS
<1>1. Active = {}
  BY DEF Init, Active, Live
<1>2. UnracedAreSound /\ DeadTakeTheirRows
  BY <1>1 DEF UnracedAreSound, DeadTakeTheirRows
<1>3. FreshJobs
  BY DEF Init, FreshJobs
<1> QED
  BY <1>2, <1>3 DEF Rest

\* A step of w's session that commits nothing
Private(w) ==
    /\ UNCHANGED <<accts, txs, raced>>
    /\ \A v \in Workers \ {w} : /\ job'[v] = job[v] /\ pc'[v] = pc[v] /\ kill'[v] = kill[v]
                                /\ v \in late => v \in late'

LEMMA PrivateRest ==
    ASSUME NEW w \in Workers, Rest, Private(w),
           (job'[w] # None /\ w \notin late') => NotOvertaken(w)'
    PROVE  Rest'
<1>1. Active' = Active
  BY DEF Private, Active, Live
<1>2. (UnracedAreSound /\ DeadTakeTheirRows)'
  BY <1>1 DEF Rest, Private, UnracedAreSound, DeadTakeTheirRows, Sound
<1>3. ASSUME NEW v \in Workers \ {w}, job'[v] # None, v \notin late'
      PROVE  NotOvertaken(v)'
  <2>1. NotOvertaken(v)
    BY <1>3 DEF Rest, FreshJobs, Private
  <2>2. job'[v] = job[v] /\ pc'[v] = pc[v] /\ kill'[v] = kill[v]
    BY DEF Private
  <2>3. txs' = txs /\ accts' = accts
    BY DEF Private
  <2>4. /\ SoloRows(job[v].id)' = SoloRows(job[v].id)
        /\ DeadTransfers(job[v].id)' = DeadTransfers(job[v].id)
    BY <1>1, <2>2, <2>3 DEF SoloRows, DeadTransfers, Counterparty
  <2>5. Outlived(job[v].mine)' <=> Outlived(job[v].mine)
    BY <2>2, <2>3 DEF Outlived
  <2>6. Sound(job[v].mine)' <=> Sound(job[v].mine)
    BY <2>2 DEF Sound
  <2> QED
    BY <2>1, <2>2, <2>3, <2>4, <2>5, <2>6 DEF NotOvertaken
<1>4. FreshJobs'
  BY <1>3 DEF FreshJobs
<1> QED
  BY <1>2, <1>4 DEF Rest

\* The beginning of a request
LEMMA StartRest ==
    ASSUME Fits, Rest, NEW w \in Workers, NEW id \in Rows, NEW base \in Copies,
           NEW mine \in Copies, NEW to \in PC, Start(w, id, base, mine, to),
           id \in TxIds =>
               /\ base # None => base = txs[id]
               /\ (to \in {"flush", "commit"} /\ mine.status = "ACTIVE")
                      => Sound(mine) /\ Outlived(mine),
           id \in Accounts => base = accts[id] /\ (mine.status = "DELETED" => to = "solo")
    PROVE  Rest'
<1>1. /\ job'[w].id = id /\ job'[w].base = base /\ job'[w].mine = mine /\ pc'[w] = to
      /\ \A v \in Workers \ {w} : job'[v] = job[v] /\ pc'[v] = pc[v]
      /\ UNCHANGED <<accts, txs, kill, late, raced>>
  BY DEF Start, Fits, TypeOK
<1>2. Private(w)
  BY <1>1 DEF Private
<1>3. Sound(job[w].mine)' <=> Sound(mine)
  BY <1>1 DEF Sound
<1>4. Outlived(job[w].mine)' <=> Outlived(mine)
  BY <1>1 DEF Outlived
<1>5. NotOvertaken(w)'
  BY <1>1, <1>3, <1>4 DEF NotOvertaken
<1> QED
  BY <1>2, <1>5, PrivateRest

LEMMA CreateRest ==
    ASSUME Fits, Rest, NEW w \in Workers, NEW t \in NextIds, NEW type \in Types,
           NEW amount \in Amounts, NEW date \in Dates, NEW from \in Accounts,
           NEW to \in Accounts \cup {None}, NEW dir \in Directions \cup {None},
           Create(w, t, type, amount, date, from, to, dir)
    PROVE  Rest'
<1> DEFINE mine == [type |-> type, amount |-> amount, date |-> date, from |-> from, to |-> to,
                    dir |-> dir, status |-> "ACTIVE"]
<1>1. mine \in TxRows
  BY DEF TxRows, Status
<1>2. mine.type = type /\ mine.from = from /\ mine.to = to
  OBVIOUS
<1>3. Start(w, t, None, mine, "commit")
  BY DEF Create
<1> HIDE DEF mine
<1>4. Sound(mine)
  BY <1>2 DEF Create, Consistent, Sound
<1>5. Outlived(mine)
  BY <1>2, NoneAssumption DEF Create, Allowed, Live, Outlived
<1>6. t \in TxIds /\ t \notin Accounts /\ t \in Rows /\ mine \in Copies /\ None \in Copies
  BY <1>1, RowsAssumption DEF NextIds, Rows, Copies, TxIds
<1> QED
  BY <1>3, <1>4, <1>5, <1>6, StartRest DEF PC

LEMMA BeginRest == ASSUME Fits, Rest, NEW w \in Workers, Begin(w) PROVE Rest'
<1>1. \A t \in TxIds : t \notin Accounts
  BY RowsAssumption DEF TxIds
<1>2. ASSUME NEW t \in TxIds, Load(w, t) PROVE Rest'
  <2>1. txs[t] \in TxRows
    BY <1>2 DEF Fits, TypeOK, Load, Live
  <2> QED
    BY <1>1, <1>2, <2>1, StartRest DEF Load, Rows, Copies, PC
<1>3. ASSUME NEW t \in TxIds, Erase(w, t) PROVE Rest'
  <2>1. txs[t] \in TxRows
    BY <1>3 DEF Fits, TypeOK, Erase, Live
  <2> DEFINE mine == [txs[t] EXCEPT !.status = "DELETED"]
  <2>2. mine \in TxRows /\ mine.status = "DELETED"
    BY <2>1 DEF TxRows, Status
  <2>3. Start(w, t, txs[t], mine, "flush")
    BY <1>3 DEF Erase
  <2> HIDE DEF mine
  <2> QED
    BY <1>1, <2>1, <2>2, <2>3, StartRest DEF Rows, Copies, PC
<1>4. ASSUME NEW a \in Accounts, Close(w, a) PROVE Rest'
  <2>1. accts[a] \in AccountRows
    BY DEF Fits, TypeOK
  <2>2. [accts[a] EXCEPT !.status = "DELETED"] \in AccountRows
    BY <2>1 DEF AccountRows, Status
  <2> QED
    BY <1>1, <1>4, <2>1, <2>2, StartRest DEF Close, Rows, Copies, PC
<1>5. ASSUME NEW a \in Accounts, NEW kind \in Kinds, Retype(w, a, kind) PROVE Rest'
  <2>1. accts[a] \in AccountRows /\ accts[a].status = "ACTIVE"
    BY <1>5 DEF Fits, TypeOK, Retype, Live
  <2> DEFINE mine == [accts[a] EXCEPT !.kind = kind]
  <2>2. mine \in AccountRows /\ mine.status = "ACTIVE"
    BY <2>1 DEF AccountRows
  <2>3. Start(w, a, accts[a], mine, "flush")
    BY <1>5 DEF Retype
  <2> HIDE DEF mine
  <2> QED
    BY <1>1, <2>1, <2>2, <2>3, StartRest DEF Rows, Copies, PC
<1> QED
  BY <1>2, <1>3, <1>4, <1>5, CreateRest DEF Begin

LEMMA PatchRest == ASSUME Fits, Rest, NEW w \in Workers, Patch(w) PROVE Rest'
<1>1. job[w] # None /\ job[w].id \in TxIds /\ job[w].id \notin Accounts /\ job[w] \in Jobs
  BY RowsAssumption DEF Patch, Fits, TypeOK, JobFits, TxIds
<1>2. PICK row \in TxRows : job' = [job EXCEPT ![w].mine = row] /\ Sound(row) /\ Outlived(row)
  BY PatchEffect
<1>3. /\ job'[w].id = job[w].id /\ job'[w].base = job[w].base /\ job'[w].mine = row
      /\ \A v \in Workers \ {w} : job'[v] = job[v]
  BY <1>1, <1>2 DEF Fits, TypeOK, Jobs
<1>4. /\ \A v \in Workers \ {w} : pc'[v] = pc[v]
      /\ UNCHANGED <<accts, txs, kill, late, raced>>
  BY DEF Patch, Fits, TypeOK
<1>5. Sound(job[w].mine)' /\ Outlived(job[w].mine)'
  BY <1>2, <1>3, <1>4 DEF Sound, Outlived
<1>6. w \notin late' => NotOvertaken(w)'
  BY <1>1, <1>3, <1>4, <1>5 DEF NotOvertaken, Rest, FreshJobs
<1> QED
  BY <1>3, <1>4, <1>6, PrivateRest DEF Private

LEMMA SoftDeleteFacts ==
    ASSUME Fits, NEW w \in Workers, NEW found \in SUBSET TxIds,
           NEW from \in {"solo", "shared"}, NEW to \in PC, SoftDelete(w, found, from, to)
    PROVE  /\ Private(w) /\ UNCHANGED <<accts, txs, late, job>>
           /\ kill'[w] = kill[w] \cup found /\ pc'[w] = to
           /\ job[w] # None /\ job[w].id \in Accounts /\ job[w].id \notin TxIds
           /\ Active' = Active
  BY RowsAssumption
     DEF SoftDelete, Private, Fits, TypeOK, JobFits, TxIds, Active, Live

LEMMA SoloRest == ASSUME Fits, Rest, NEW w \in Workers, Solo(w) PROVE Rest'
<1>1. /\ Private(w) /\ UNCHANGED <<accts, txs, late, job>>
      /\ kill'[w] = kill[w] \cup SoloRows(job[w].id) /\ pc'[w] = "shared"
      /\ job[w] # None /\ job[w].id \in Accounts /\ job[w].id \notin TxIds
      /\ Active' = Active
  BY SoftDeleteFacts DEF Solo, SoloRows, Active, PC
<1>2. SoloRows(job[w].id)' = SoloRows(job[w].id)
  BY <1>1 DEF SoloRows
<1>3. w \notin late' => NotOvertaken(w)'
  BY <1>1, <1>2 DEF NotOvertaken, Rest, FreshJobs
<1> QED
  BY <1>1, <1>3, PrivateRest

LEMMA SharedRest == ASSUME Fits, Rest, NEW w \in Workers, Shared(w) PROVE Rest'
<1>1. /\ Private(w) /\ UNCHANGED <<accts, txs, late, job>>
      /\ kill'[w] = kill[w] \cup DeadTransfers(job[w].id) /\ pc'[w] = "flush"
      /\ job[w] # None /\ job[w].id \in Accounts /\ job[w].id \notin TxIds
      /\ Active' = Active
  BY SoftDeleteFacts DEF Shared, DeadTransfers, Active, PC
<1>2. pc[w] = "shared"
  BY DEF Shared, SoftDelete
<1>3. /\ SoloRows(job[w].id)' = SoloRows(job[w].id)
      /\ DeadTransfers(job[w].id)' = DeadTransfers(job[w].id)
  BY <1>1 DEF SoloRows, DeadTransfers, Counterparty
<1>4. w \notin late' => NotOvertaken(w)'
  BY <1>1, <1>2, <1>3 DEF NotOvertaken, Rest, FreshJobs
<1> QED
  BY <1>1, <1>4, PrivateRest

LEMMA FlushRest == ASSUME Fits, Rest, NEW w \in Workers, Flush(w) PROVE Rest'
<1>1. /\ Private(w) /\ UNCHANGED <<accts, txs, late, job, kill>>
      /\ pc[w] = "flush" /\ pc'[w] = "commit"
      /\ Active' = Active
  BY DEF Flush, Private, Fits, TypeOK, Active, Live
<1>2. /\ SoloRows(job[w].id)' = SoloRows(job[w].id)
      /\ DeadTransfers(job[w].id)' = DeadTransfers(job[w].id)
  BY <1>1 DEF SoloRows, DeadTransfers, Counterparty
<1>3. /\ Sound(job[w].mine)' <=> Sound(job[w].mine)
      /\ Outlived(job[w].mine)' <=> Outlived(job[w].mine)
  BY <1>1 DEF Sound, Outlived
<1>4. (job'[w] # None /\ w \notin late') => NotOvertaken(w)'
  BY <1>1, <1>2, <1>3 DEF NotOvertaken, Rest, FreshJobs
<1> QED
  BY <1>1, <1>4, PrivateRest

LEMMA RollbackRest == ASSUME Fits, Rest, NEW w \in Workers, Rollback(w) PROVE Rest'
<1>1. Private(w) /\ job'[w] = None
  BY DEF Rollback, EndSession, Private, Fits, TypeOK
<1> QED
  BY <1>1, PrivateRest

-----------------------------------------------------------------------------
(* The commit *)

\* Everybody who is at work when w commits has been overtaken
LEMMA CommitOvertakes == ASSUME Fits, NEW w \in Workers, Commit(w) PROVE FreshJobs'
<1>1. job'[w] = None /\ \A v \in Workers \ {w} : job'[v] = job[v]
  BY DEF Commit, EndSession, Fits, TypeOK
<1>2. \A v \in Workers \ {w} : job[v] # None => v \in late'
  BY DEF Commit, Fits, TypeOK
<1> QED
  BY <1>1, <1>2 DEF FreshJobs

\* A row that w neither deletes nor works on stays what it was
LEMMA CommitKeeps ==
    ASSUME Fits, NEW w \in Workers, Commit(w), NEW t \in TxIds, t \notin kill[w],
           t # job[w].id
    PROVE  txs'[t] = txs[t]
  BY DEF Commit, Written, Fits, TypeOK

LEMMA CommitDeletes ==
    ASSUME Fits, NEW w \in Workers, Commit(w), NEW t \in kill[w]
    PROVE  t \notin Active'
<1>1. t \in TxIds /\ txs[t] \in TxRows
  BY DEF Fits, TypeOK, JobFits
<1>2. txs'[t] = [txs[t] EXCEPT !.status = "DELETED"]
  BY <1>1 DEF Commit, Written
<1>3. txs'[t].status = "DELETED"
  BY <1>1, <1>2 DEF TxRows
<1> QED
  BY <1>3 DEF Active, Live

\* Of the accounts, a commit changes the one its request works on
LEMMA CommitAccounts ==
    ASSUME Fits, NEW w \in Workers, Commit(w)
    PROVE  /\ \A a \in Accounts : a # job[w].id => accts'[a] = accts[a]
           /\ job[w].id \in Accounts => (job[w].base = accts[job[w].id] =>
                  accts'[job[w].id].status = job[w].mine.status)
<1>1. job[w] # None
  BY DEF Commit, Fits, TypeOK
<1>2. ASSUME job[w].id \in Accounts, job[w].base = accts[job[w].id]
      PROVE  accts'[job[w].id].status = job[w].mine.status
  <2>1. accts[job[w].id] \in AccountRows /\ job[w].mine \in AccountRows
    BY <1>1, <1>2, RowsAssumption DEF Fits, TypeOK, JobFits, TxIds
  <2>2. accts'[job[w].id] = Merged(accts[job[w].id], accts[job[w].id], job[w].mine)
    BY <1>2 DEF Commit
  <2> QED
    BY <2>1, <2>2, MergedOwnAccount
<1> QED
  BY <1>2 DEF Commit

\* The row a request works on, if it was not overtaken, is as it was validated
LEMMA CommitOwnRow ==
    ASSUME Fits, NEW w \in Workers, Commit(w), NotOvertaken(w), NEW t \in Active',
           t = job[w].id, t \notin kill[w]
    PROVE  Sound(txs[t])' /\ Outlived(txs[t])'
<1>1. job[w] # None /\ pc[w] = "commit" /\ t \in TxIds /\ t \notin Accounts
  BY RowsAssumption DEF Commit, Fits, TypeOK, Active, TxIds
<1> DEFINE mine == job[w].mine
<1>2. mine \in TxRows
  BY <1>1 DEF Fits, JobFits
<1>3. /\ txs'[t].type = mine.type /\ txs'[t].from = mine.from
      /\ txs'[t].to = mine.to /\ txs'[t].status = mine.status
  <2>1. CASE job[w].base = None
    BY <1>1, <2>1 DEF Commit, Written, Inserts
  <2>2. CASE job[w].base # None
    <3>1. job[w].base = txs[t] /\ txs[t] \in TxRows
      BY <1>1, <2>2 DEF NotOvertaken, Fits, JobFits
    <3>2. txs'[t] = Merged(txs[t], txs[t], mine)
      BY <1>1, <2>2, <3>1 DEF Commit, Written, Inserts
    <3> QED
      BY <1>2, <3>1, <3>2, MergedOwnTx
  <2> QED
    BY <2>1, <2>2
<1>4. mine.status = "ACTIVE"
  BY <1>3 DEF Active, Live
<1>5. Sound(mine) /\ Outlived(mine)
  BY <1>1, <1>4 DEF NotOvertaken
<1>6. \A a \in Accounts : accts'[a] = accts[a]
  BY <1>1, CommitAccounts
<1>7. mine.from \in Accounts /\ mine.to \in Accounts \cup {None}
  BY <1>2 DEF TxRows
<1> HIDE DEF mine
<1>8. Sound(txs[t])'
  BY <1>3, <1>5 DEF Sound
<1>9. Outlived(txs[t])'
  BY <1>3, <1>5, <1>6, <1>7 DEF Outlived
<1> QED
  BY <1>8, <1>9

\* A row that another request's deletion leaves alive has an account alive
LEMMA CommitOtherRow ==
    ASSUME Fits, NEW w \in Workers, Commit(w), NotOvertaken(w), NEW t \in Active,
           t # job[w].id, t \notin kill[w], Sound(txs[t]), Outlived(txs[t]),
           txs[t].type # "VALUATION"
    PROVE  Outlived(txs[t])'
<1> DEFINE a == job[w].id
           row == txs[t]
<1>1. /\ job[w] # None /\ pc[w] = "commit" /\ txs' = [u \in TxIds |-> Written(w, u)]
      /\ t \in TxIds /\ row \in TxRows
  BY DEF Commit, Fits, TypeOK, Active, Live
<1>2. txs'[t] = row
  BY <1>1, CommitKeeps
<1>3. row.from \in Accounts /\ row.to \in Accounts \cup {None} /\ row.type \in Types
  BY <1>1 DEF TxRows
<1>4. SUFFICES \E e \in {row.from, row.to} \ {None} : accts'[e].status = "ACTIVE"
  BY <1>2 DEF Outlived
<1>5. PICK e \in {row.from, row.to} \ {None} : accts[e].status = "ACTIVE"
  BY DEF Outlived
<1>6. CASE e # a
  BY <1>3, <1>5, <1>6, CommitAccounts
<1>7. CASE e = a
  <2>1. a \in Accounts /\ a \notin TxIds
    BY <1>3, <1>7, RowsAssumption DEF TxIds
  <2>2. job[w].base = accts[a] /\ accts'[a].status = job[w].mine.status
    BY <2>1, CommitAccounts DEF NotOvertaken
  <2>3. CASE job[w].mine.status = "ACTIVE"
    BY <1>5, <1>7, <2>2, <2>3
  <2>4. CASE job[w].mine.status # "ACTIVE"
    <3>1. job[w].mine.status = "DELETED"
      BY <1>1, <2>1, <2>4 DEF Fits, JobFits, AccountRows, Status
    <3>2. t \notin SoloRows(a) /\ t \notin DeadTransfers(a)
      BY <1>1, <2>1, <3>1 DEF NotOvertaken
    <3>3. CASE row.type = "TRANSFER"
      <4> DEFINE c == Counterparty(t, a)
      <4>1. c \in {row.from, row.to} \ {None} /\ c # a /\ c \in Accounts
        BY <1>3, <1>5, <1>7, <3>3, NoneAssumption DEF Counterparty, Sound
      <4>2. a \in {row.from, row.to}
        BY <1>5, <1>7
      <4>3. accts[c].status # "DELETED"
        BY <3>2, <3>3, <4>1, <4>2 DEF DeadTransfers
      <4>4. accts[c].status = "ACTIVE"
        BY <4>1, <4>3 DEF Fits, TypeOK, AccountRows, Status
      <4>5. accts'[c] = accts[c]
        BY <4>1, CommitAccounts
      <4> QED
        BY <4>1, <4>4, <4>5
    <3>4. CASE row.type # "TRANSFER"
      <4>1. row.to = None /\ row.type \in {"INCOME", "EXPENSE"} /\ row.from = a
        BY <1>3, <1>5, <1>7, <3>4 DEF Sound, Types
      <4> QED
        BY <3>2, <4>1 DEF SoloRows
    <3> QED
      BY <3>3, <3>4
  <2> QED
    BY <2>3, <2>4
<1> QED
  BY <1>6, <1>7

\* DeadTakeTheirRows, with its existential named
LEMMA DeadMeans ==
    DeadTakeTheirRows <=>
        \A t \in Active :
            (/\ txs[t].type # "VALUATION"
             /\ ({t} \cup ({txs[t].from, txs[t].to} \ {None})) \cap raced = {})
                => Outlived(txs[t])
  BY DEF DeadTakeTheirRows, Outlived

LEMMA CommitRest == ASSUME Fits, Rest, NEW w \in Workers, Commit(w) PROVE Rest'
<1>1. job[w] # None
  BY DEF Commit, Fits, TypeOK
<1>2. raced \subseteq raced'
  BY DEF Commit
<1>3. ASSUME NEW t \in Active', t \notin raced'
      PROVE  /\ Sound(txs[t])'
             /\ (txs'[t].type # "VALUATION"
                   /\ ({txs'[t].from, txs'[t].to} \ {None}) \cap raced' = {})
                     => Outlived(txs[t])'
  <2>1. t \in TxIds /\ t \notin kill[w]
    BY CommitDeletes DEF Active
  <2>2. CASE t = job[w].id
    <3>1. w \notin late
      BY <1>3, <2>2 DEF Commit
    <3>2. NotOvertaken(w)
      BY <1>1, <3>1 DEF Rest, FreshJobs
    <3> QED
      BY <2>1, <2>2, <3>2, CommitOwnRow
  <2>3. CASE t # job[w].id
    <3>1. txs'[t] = txs[t]
      BY <2>1, <2>3, CommitKeeps
    <3>2. t \in Active \ raced /\ txs[t] \in TxRows
      BY <1>2, <1>3, <2>1, <3>1 DEF Active, Live, Fits, TypeOK
    <3>3. Sound(txs[t])
      BY <3>2 DEF Rest, UnracedAreSound
    <3>4. Sound(txs[t])'
      BY <3>1, <3>3 DEF Sound
    <3>5. ASSUME txs'[t].type # "VALUATION",
                 ({txs'[t].from, txs'[t].to} \ {None}) \cap raced' = {}
          PROVE  Outlived(txs[t])'
      <4>1. Outlived(txs[t])
        BY <1>2, <3>1, <3>2, <3>5, DeadMeans DEF Rest
      <4>2. CASE w \notin late
        BY <1>1, <2>1, <2>3, <3>1, <3>2, <3>3, <3>5, <4>1, <4>2, CommitOtherRow
           DEF Rest, FreshJobs
      <4>3. CASE w \in late
        <5>1. PICK e \in {txs[t].from, txs[t].to} \ {None} : accts[e].status = "ACTIVE"
          BY <4>1 DEF Outlived
        <5>2. e \in Accounts
          BY <3>2 DEF TxRows
        <5>3. e # job[w].id
          BY <3>1, <3>5, <4>3, <5>1 DEF Commit
        <5>4. accts'[e] = accts[e]
          BY <5>2, <5>3, CommitAccounts
        <5> QED
          BY <3>1, <5>1, <5>4 DEF Outlived
      <4> QED
        BY <4>2, <4>3
    <3> QED
      BY <3>4, <3>5
  <2> QED
    BY <2>2, <2>3
<1>4. UnracedAreSound'
  BY <1>3 DEF UnracedAreSound
<1>5. DeadTakeTheirRows'
  <2>1. \A t \in Active' :
            (/\ txs'[t].type # "VALUATION"
             /\ ({t} \cup ({txs'[t].from, txs'[t].to} \ {None})) \cap raced' = {})
                => Outlived(txs[t])'
    BY <1>3
  <2> QED
    BY <2>1 DEF DeadTakeTheirRows, Outlived
<1> QED
  BY <1>4, <1>5, CommitOvertakes DEF Rest

-----------------------------------------------------------------------------

\* Every step preserves what holds of the rows nobody raced for.
LEMMA NextRest == Fits /\ Rest /\ [Next]_vars => Rest'
<1> SUFFICES ASSUME Fits, Rest, [Next]_vars PROVE Rest'
  OBVIOUS
<1>1. CASE UNCHANGED vars
  BY <1>1 DEF vars, Rest, UnracedAreSound, FreshJobs, NotOvertaken, DeadTakeTheirRows, Active,
              Live, Sound, Outlived, SoloRows, DeadTransfers, Counterparty
<1> QED
  BY <1>1, BeginRest, PatchRest, SoloRest, SharedRest, FlushRest, CommitRest, RollbackRest
     DEF Next

-----------------------------------------------------------------------------
(* What sessions have claimed for themselves *)

LEMMA InitClaims == Init => Claimed
  BY DEF Init, Claimed, Claims

\* A step of w's session that commits nothing and takes no lock or id of another one's
\* keeps the claims of the others.
LEMMA OthersClaim ==
    ASSUME Fits, Claimed, NEW w \in Workers, Private(w), NEW v \in Workers \ {w},
           \A r \in Rows : lock[r] = v => lock'[r] = v,
           Inserts(w)' /\ Inserts(v) => job'[w].id # job[v].id
    PROVE  Claims(v)'
<1>1. /\ txs' = txs /\ accts' = accts
      /\ \A u \in Workers \ {w} : job'[u] = job[u] /\ pc'[u] = pc[u] /\ kill'[u] = kill[u]
  BY DEF Private
<1>2. Claims(v)
  BY DEF Claimed
<1>3. \A t \in kill[v] : t \in Rows /\ lock'[t] = v
  BY <1>2 DEF Claims, Fits, TypeOK, Rows
<1>4. \A r : Live(r)' <=> Live(r)
  BY DEF Live
<1>5. \A t \in kill[v] : /\ lock'[t] = v /\ Live(txs'[t]) /\ job'[v] # None /\ job'[v].id \in Accounts
                         /\ \A b \in {txs'[t].from, txs'[t].to} \ {None} : b = job'[v].id \/ accts'[b].status = "DELETED"
  BY <1>1, <1>2, <1>3 DEF Claims
<1>6. ASSUME job[v] # None, job[v].base = None, NEW u \in Workers \ {v}, Inserts(u)' PROVE job'[u].id # job'[v].id
  <2>1. Inserts(v) /\ job'[v] = job[v]
    BY <1>1, <1>6 DEF Inserts
  <2>2. CASE u = w
    BY <1>6, <2>1, <2>2
  <2>3. CASE u # w
    BY <1>1, <1>2, <1>6, <2>3 DEF Claims, Inserts
  <2> QED
    BY <2>2, <2>3
<1>7. (pc[v] = "commit" /\ job[v] # None /\ job[v].base # None /\ job[v].mine # job[v].base) => lock'[job[v].id] = v
  BY <1>2 DEF Claims, Fits, TypeOK, Jobs
<1> QED
  BY <1>1, <1>2, <1>5, <1>6, <1>7 DEF Claims, Live

\* A request that begins has claimed nothing but the id of its new row.
LEMMA StartClaims ==
    ASSUME Fits, Claimed, NEW w \in Workers, Ready(w), NEW id \in Rows, NEW base \in Copies, NEW mine \in Copies,
           NEW to \in PC, Start(w, id, base, mine, to),
           IF base = None THEN id \in NextIds ELSE to # "commit",
           id \in Accounts => base.status = "ACTIVE"
    PROVE  Claimed'
<1>1. /\ job'[w].id = id /\ job'[w].base = base /\ job'[w].mine = mine /\ pc'[w] = to
      /\ \A v \in Workers \ {w} : job'[v] = job[v] /\ pc'[v] = pc[v]
      /\ UNCHANGED <<accts, txs, kill, late, raced, lock>>
  BY DEF Start, Fits, TypeOK
<1>2. Private(w)
  BY <1>1 DEF Private
<1>3. ASSUME base = None PROVE txs[id] = None /\ \A v \in Workers \ {w} : Inserts(v) => job[v].id # id
  <2>1. id \in TxIds /\ TxIds \subseteq Nat /\ \A u \in UsedIds : u < id
    BY <1>3 DEF NextIds, TxIds
  <2>2. id \notin UsedIds
    BY <2>1
  <2> QED
    BY <2>1, <2>2 DEF UsedIds
<1>4. kill[w] = {}
  BY DEF Ready, Fits, TypeOK, Claimed, Claims
<1>5. ASSUME NEW v \in Workers \ {w} PROVE Claims(v)'
  <2>1. Inserts(w)' /\ Inserts(v) => job'[w].id # job[v].id
    BY <1>1, <1>3 DEF Inserts
  <2> QED
    BY <1>1, <1>2, <2>1, OthersClaim
<1>6. Claims(w)'
  <2>1. \A v \in Workers \ {w} : Inserts(v)' <=> Inserts(v)
    BY <1>1 DEF Inserts
  <2> QED
    BY <1>1, <1>3, <1>4, <2>1 DEF Claims
<1> QED
  BY <1>5, <1>6 DEF Claimed

LEMMA BeginClaims == ASSUME Fits, Claimed, NEW w \in Workers, Begin(w) PROVE Claimed'
<1>0. Ready(w)
  BY DEF Begin
<1>1. \A t \in TxIds : t \notin Accounts /\ t \in Rows
  BY RowsAssumption DEF TxIds, Rows
<1>2. ASSUME NEW t \in TxIds, Load(w, t) \/ Erase(w, t) PROVE Claimed'
  <2>1. txs[t] \in TxRows /\ txs[t] # None /\ [txs[t] EXCEPT !.status = "DELETED"] \in TxRows
    BY <1>2 DEF Fits, TypeOK, Load, Erase, Live, TxRows, Status
  <2>2. txs[t] \in Copies /\ [txs[t] EXCEPT !.status = "DELETED"] \in Copies
    BY <2>1 DEF Copies
  <2>3. Start(w, t, txs[t], txs[t], "check") \/ Start(w, t, txs[t], [txs[t] EXCEPT !.status = "DELETED"], "flush")
    BY <1>2 DEF Load, Erase
  <2> QED
    BY <1>0, <1>1, <2>1, <2>2, <2>3, StartClaims DEF PC
<1>3. ASSUME NEW a \in Accounts, NEW mine \in AccountRows, NEW to \in {"solo", "flush"}, Live(accts[a]),
             Start(w, a, accts[a], mine, to)
      PROVE  Claimed'
  <2>1. accts[a] \in AccountRows /\ accts[a] # None /\ accts[a].status = "ACTIVE"
    BY <1>3 DEF Fits, TypeOK, Live
  <2>2. accts[a] \in Copies /\ mine \in Copies /\ a \in Rows
    BY <2>1 DEF Copies, Rows
  <2> QED
    BY <1>0, <1>3, <2>1, <2>2, StartClaims DEF PC
<1>4. ASSUME NEW a \in Accounts, Close(w, a) \/ \E kind \in Kinds : Retype(w, a, kind) PROVE Claimed'
  <2>1. accts[a] \in AccountRows
    BY DEF Fits, TypeOK
  <2>2. [accts[a] EXCEPT !.status = "DELETED"] \in AccountRows
        /\ \A kind \in Kinds : [accts[a] EXCEPT !.kind = kind] \in AccountRows
    BY <2>1 DEF AccountRows, Status
  <2> QED
    BY <1>3, <1>4, <2>2 DEF Close, Retype
<1>5. ASSUME NEW t \in NextIds, NEW type \in Types, NEW amount \in Amounts, NEW date \in Dates, NEW from \in Accounts,
             NEW to \in Accounts \cup {None}, NEW dir \in Directions \cup {None},
             Create(w, t, type, amount, date, from, to, dir)
      PROVE  Claimed'
  <2> DEFINE mine == [type |-> type, amount |-> amount, date |-> date, from |-> from, to |-> to,
                      dir |-> dir, status |-> "ACTIVE"]
  <2>1. mine \in Copies
    BY DEF TxRows, Status, Copies
  <2>2. Start(w, t, None, mine, "commit")
    BY <1>5 DEF Create
  <2> HIDE DEF mine
  <2>3. t \in Rows /\ t \notin Accounts /\ None \in Copies
    BY <1>1 DEF NextIds, Copies
  <2> QED
    BY <1>0, <2>1, <2>2, <2>3, StartClaims DEF PC
<1> QED
  BY <1>2, <1>4, <1>5 DEF Begin

LEMMA PatchClaims == ASSUME Fits, Claimed, NEW w \in Workers, Patch(w) PROVE Claimed'
<1>1. job[w] # None /\ job[w].id \in TxIds /\ job[w].id \notin Accounts /\ job[w] \in Jobs /\ job[w].base # None
  BY NoneAssumption, RowsAssumption DEF Patch, Fits, TypeOK, JobFits, TxIds
<1>2. PICK row \in TxRows : job' = [job EXCEPT ![w].mine = row]
  BY PatchEffect
<1>3. /\ job'[w].id = job[w].id /\ job'[w].base = job[w].base /\ pc'[w] = "flush"
      /\ \A v \in Workers \ {w} : job'[v] = job[v] /\ pc'[v] = pc[v]
      /\ UNCHANGED <<accts, txs, kill, late, raced, lock>>
  BY <1>1, <1>2 DEF Fits, TypeOK, Jobs, Patch
<1>4. Private(w) /\ ~Inserts(w)'
  BY <1>1, <1>3 DEF Private, Inserts
<1>5. \A v \in Workers \ {w} : Claims(v)'
  BY <1>3, <1>4, OthersClaim
<1>6. kill[w] = {}
  BY <1>1 DEF Claimed, Claims
<1>7. Claims(w)'
  BY <1>1, <1>3, <1>6 DEF Claims
<1> QED
  BY <1>5, <1>7 DEF Claimed

\* The rows that the deletion of an account finds are locked, and their other account is
\* deleted already.
LEMMA SoftDeleteClaims ==
    ASSUME Fits, Claimed, NEW w \in Workers, NEW found \in SUBSET Active, NEW from \in {"solo", "shared"},
           NEW to \in {"shared", "flush"}, SoftDelete(w, found, from, to),
           \A t \in found : \A b \in {txs[t].from, txs[t].to} \ {None} : b = job[w].id \/ accts[b].status = "DELETED"
    PROVE  Claimed'
<1>0. found \in SUBSET TxIds /\ to \in PC /\ \A t \in found : Live(txs[t])
  BY DEF Active, PC
<1>1. /\ Private(w) /\ UNCHANGED <<accts, txs, late, job>>
      /\ kill'[w] = kill[w] \cup found /\ pc'[w] = to
      /\ job[w] # None /\ job[w].id \in Accounts /\ job[w].id \notin TxIds
  BY <1>0, SoftDeleteFacts
<1>2. \A r \in Rows : lock'[r] = IF r \in found THEN w ELSE lock[r]
  BY DEF SoftDelete
<1>3. \A t \in found : lock[t] = None
  BY DEF SoftDelete
<1>4. w # None
  BY NoneAssumption
<1>5. ASSUME NEW v \in Workers \ {w} PROVE Claims(v)'
  <2>1. \A r \in Rows : lock[r] = v => lock'[r] = v
    BY <1>2, <1>3, NoneAssumption
  <2>2. Inserts(w)' /\ Inserts(v) => job'[w].id # job[v].id
    BY <1>1 DEF Claimed, Claims, Inserts
  <2> QED
    BY <1>1, <2>1, <2>2, OthersClaim
<1>6. Claims(w)
  BY DEF Claimed
<1>7. job[w].base # None
  BY <1>1, NoneAssumption DEF Fits, JobFits
<1>8. \A t \in kill[w] \cup found : t \in Rows /\ lock'[t] = w
  BY <1>0, <1>2, <1>6 DEF Claims, Fits, TypeOK, Rows
<1>9. Claims(w)'
  BY <1>0, <1>1, <1>6, <1>7, <1>8 DEF Claims, Live
<1> QED
  BY <1>5, <1>9 DEF Claimed

LEMMA DeletingClaims == ASSUME Fits, Claimed, NEW w \in Workers, Solo(w) \/ Shared(w) PROVE Claimed'
<1>1. CASE Solo(w)
  <2>1. \A t \in SoloRows(job[w].id) : \A b \in {txs[t].from, txs[t].to} \ {None} : b = job[w].id
    BY DEF SoloRows
  <2>2. SoloRows(job[w].id) \in SUBSET Active
    BY DEF SoloRows
  <2> QED
    BY <1>1, <2>1, <2>2, SoftDeleteClaims DEF Solo
<1>2. CASE Shared(w)
  <2>1. \A t \in DeadTransfers(job[w].id) : \A b \in {txs[t].from, txs[t].to} \ {None} :
           b = job[w].id \/ accts[b].status = "DELETED"
    BY DEF DeadTransfers, Counterparty
  <2>2. DeadTransfers(job[w].id) \in SUBSET Active
    BY DEF DeadTransfers
  <2> QED
    BY <1>2, <2>1, <2>2, SoftDeleteClaims DEF Shared
<1> QED
  BY <1>1, <1>2

LEMMA FlushClaims == ASSUME Fits, Claimed, NEW w \in Workers, Flush(w) PROVE Claimed'
<1>1. /\ Private(w) /\ UNCHANGED <<accts, txs, late, job, kill>> /\ pc[w] = "flush"
      /\ job[w] # None /\ job[w].id \in Rows
  BY DEF Flush, Private, Fits, TypeOK, Jobs
<1>2. \/ job[w].mine = job[w].base /\ lock' = lock
      \/ job[w].mine # job[w].base /\ lock[job[w].id] = None /\ lock' = [lock EXCEPT ![job[w].id] = w]
  BY DEF Flush
<1>3. \A v \in Workers : \A r \in Rows : lock[r] = v => lock'[r] = v
  BY <1>2, NoneAssumption DEF Fits, TypeOK
<1>4. job[w].mine # job[w].base => lock'[job[w].id] = w
  BY <1>1, <1>2 DEF Fits, TypeOK
<1>5. ASSUME NEW v \in Workers \ {w} PROVE Claims(v)'
  <2>1. Inserts(w)' /\ Inserts(v) => job'[w].id # job[v].id
    BY <1>1 DEF Claimed, Claims, Inserts
  <2> QED
    BY <1>1, <1>3, <2>1, OthersClaim
<1>6. Claims(w)
  BY DEF Claimed
<1>7. \A t \in kill[w] : t \in Rows
  BY DEF Fits, TypeOK, Rows
<1>8. \A v \in Workers : Inserts(v)' <=> Inserts(v)
  BY <1>1 DEF Inserts
<1>9. Claims(w)'
  BY <1>1, <1>3, <1>4, <1>6, <1>7, <1>8 DEF Claims, Live
<1> QED
  BY <1>5, <1>9 DEF Claimed

LEMMA RollbackClaims == ASSUME Fits, Claimed, NEW w \in Workers, Rollback(w) PROVE Claimed'
<1>1. Private(w) /\ job'[w] = None /\ kill'[w] = {} /\ ~Inserts(w)'
  BY DEF Rollback, EndSession, Private, Fits, TypeOK, Inserts
<1>2. \A v \in Workers \ {w} : \A r \in Rows : lock[r] = v => lock'[r] = v
  BY DEF Rollback, EndSession
<1>3. \A v \in Workers \ {w} : Claims(v)'
  BY <1>1, <1>2, OthersClaim
<1>4. Claims(w)'
  BY <1>1 DEF Claims
<1> QED
  BY <1>3, <1>4 DEF Claimed

\* A row another session has claimed survives a commit.
LEMMA CommitSpares ==
    ASSUME Fits, Claimed, NEW w \in Workers, Commit(w), NEW v \in Workers \ {w}, NEW t \in TxIds,
           lock[t] = v, txs[t] # None
    PROVE  txs'[t] = txs[t]
<1>1. pc[w] = "commit" /\ job[w] # None /\ Claims(w) /\ txs'[t] = Written(w, t)
  BY DEF Commit, Fits, TypeOK, Claimed
<1>2. t \notin kill[w]
  BY <1>1 DEF Claims
<1>3. CASE t # job[w].id
  BY <1>2, <1>3, CommitKeeps
<1>4. CASE t = job[w].id
  <2>1. job[w].base # None
    BY <1>1, <1>4 DEF Claims
  <2>2. job[w].mine = job[w].base
    BY <1>1, <1>4, <2>1 DEF Claims
  <2>3. txs'[t] = Merged(txs[t], job[w].base, job[w].base)
    BY <1>1, <1>2, <1>4, <2>1, <2>2 DEF Written, Inserts
  <2>4. txs[t] \in TxRows
    BY DEF Fits, TypeOK
  <2> QED
    BY <2>3, <2>4 DEF Merged, TxRows
<1> QED
  BY <1>3, <1>4

\* A deleted account stays deleted.
LEMMA CommitBuries ==
    ASSUME Fits, Claimed, NEW w \in Workers, Commit(w), NEW b \in Accounts, accts[b].status = "DELETED"
    PROVE  accts'[b].status = "DELETED"
<1>1. job[w] # None /\ Claims(w)
  BY DEF Commit, Fits, TypeOK, Claimed
<1>2. CASE b # job[w].id
  BY <1>2, CommitAccounts
<1>3. CASE b = job[w].id
  <2>1. accts[b] \in AccountRows /\ job[w].mine \in AccountRows /\ job[w].base \in AccountRows
    BY <1>1, <1>3, RowsAssumption DEF Fits, TypeOK, JobFits, TxIds
  <2>2. job[w].base.status = "ACTIVE"
    BY <1>1, <1>3 DEF Claims
  <2>3. accts'[b] = Merged(accts[b], job[w].base, job[w].mine)
    BY <1>3 DEF Commit
  <2>4. accts'[b].status = IF job[w].mine.status # job[w].base.status THEN job[w].mine.status ELSE accts[b].status
    BY <2>1, <2>3 DEF Merged, AccountRows
  <2>5. job[w].mine.status \in {"ACTIVE", "DELETED"}
    BY <2>1 DEF AccountRows, Status
  <2> QED
    BY <2>2, <2>4, <2>5
<1> QED
  BY <1>2, <1>3

LEMMA CommitClaims == ASSUME Fits, Claimed, NEW w \in Workers, Commit(w) PROVE Claimed'
<1>1. /\ job'[w] = None /\ kill'[w] = {} /\ ~Inserts(w)'
      /\ \A v \in Workers \ {w} : job'[v] = job[v] /\ pc'[v] = pc[v] /\ kill'[v] = kill[v]
      /\ \A r \in Rows : lock'[r] = IF lock[r] = w THEN None ELSE lock[r]
  BY DEF Commit, EndSession, Fits, TypeOK, Inserts
<1>2. Claims(w)'
  BY <1>1 DEF Claims
<1>3. ASSUME NEW v \in Workers \ {w} PROVE Claims(v)'
  <2>1. Claims(v) /\ Claims(w) /\ job[w] # None
    BY DEF Claimed, Commit, Fits, TypeOK
  <2>2. ASSUME NEW t \in kill[v]
        PROVE  /\ lock'[t] = v /\ Live(txs'[t])
               /\ \A b \in {txs'[t].from, txs'[t].to} \ {None} : b = job[v].id \/ accts'[b].status = "DELETED"
    <3>1. t \in TxIds /\ t \in Rows /\ lock[t] = v /\ Live(txs[t]) /\ txs[t] # None /\ txs[t] \in TxRows
      BY <2>1 DEF Claims, Fits, TypeOK, JobFits, Rows
    <3>2. txs'[t] = txs[t]
      BY <3>1, CommitSpares
    <3>3. txs[t].from \in Accounts /\ txs[t].to \in Accounts \cup {None}
      BY <3>1 DEF TxRows
    <3>4. \A b \in {txs[t].from, txs[t].to} \ {None} : b = job[v].id \/ accts'[b].status = "DELETED"
      BY <2>1, <3>3, CommitBuries DEF Claims
    <3> QED
      BY <1>1, <3>1, <3>2, <3>4
  <2>3. ASSUME job[v] # None, job[v].base = None
        PROVE  txs'[job[v].id] = None /\ \A u \in Workers \ {v} : Inserts(u)' => job'[u].id # job[v].id
    <3>1. txs[job[v].id] = None /\ job[v].id \in TxIds /\ Inserts(v)
      BY <2>1, <2>3, NoneAssumption DEF Claims, Fits, JobFits, Inserts
    <3>2. job[v].id \notin kill[w]
      BY <2>1, <3>1 DEF Claims, Live
    <3>3. job[v].id # job[w].id
      BY <2>1, <3>1, RowsAssumption DEF Claims, Fits, JobFits, Inserts, TxIds
    <3>4. txs'[job[v].id] = None
      BY <3>1, <3>2, <3>3, CommitKeeps
    <3>5. \A u \in Workers \ {v} : Inserts(u)' => job'[u].id # job[v].id
      BY <1>1, <2>1, <3>1 DEF Claims, Inserts
    <3> QED
      BY <3>4, <3>5
  <2>4. (pc[v] = "commit" /\ job[v] # None /\ job[v].base # None /\ job[v].mine # job[v].base) => lock'[job[v].id] = v
    BY <1>1, <2>1 DEF Claims, Fits, TypeOK, Jobs
  <2> QED
    BY <1>1, <2>1, <2>2, <2>3, <2>4 DEF Claims, Live
<1> QED
  BY <1>2, <1>3 DEF Claimed

\* Every step keeps the claims.
LEMMA NextClaims == Fits /\ Claimed /\ [Next]_vars => Claimed'
<1> SUFFICES ASSUME Fits, Claimed, [Next]_vars PROVE Claimed'
  OBVIOUS
<1>1. CASE UNCHANGED vars
  BY <1>1 DEF vars, Claimed, Claims, Live, Inserts
<1> QED
  BY <1>1, BeginClaims, PatchClaims, DeletingClaims, FlushClaims, CommitClaims, RollbackClaims DEF Next

-----------------------------------------------------------------------------
(* The ledger of an account and its balance *)

\* Amounts and dates are numbers.
LEMMA RowNumbers ==
    \A row \in TxRows : /\ row.amount \in Int /\ row.date \in Nat
                        /\ row.type \in {"INCOME", "EXPENSE", "TRANSFER", "VALUATION"}
<1> SUFFICES ASSUME NEW row \in TxRows
             PROVE  /\ row.amount \in Int /\ row.date \in Nat
                    /\ row.type \in {"INCOME", "EXPENSE", "TRANSFER", "VALUATION"}
  OBVIOUS
<1>1. row.amount \in Amounts /\ row.date \in Dates /\ row.type \in Types
  BY DEF TxRows
<1>2. \A n \in Amounts : n \in Int
  BY AmountsAssumption
<1>3. \A n \in Dates : n \in Nat
  BY AmountsAssumption
<1> QED
  BY <1>1, <1>2, <1>3 DEF Types

\* The active transactions are rows that the ledger can order and sum up.
LEMMA BookRows ==
    ASSUME Fits
    PROVE  /\ LedgerBook(Book) /\ DOMAIN Book = Active
           /\ \A t \in Active : t \in TxIds /\ Book[t] = txs[t] /\ Book[t] \in TxRows
<1>1. DOMAIN Book = Active /\ \A t \in Active : t \in TxIds /\ Book[t] = txs[t] /\ Book[t] \in TxRows
  BY DEF Book, Active, Live, Fits, TypeOK
<1>2. IsFiniteSet(TxIds) /\ TxIds \subseteq Nat
  BY FS_Interval, MaxTxAssumption DEF TxIds
<1>3. IsFiniteSet(Active)
  BY <1>2, FS_Subset DEF Active
<1>4. \A t \in Active : Book[t].amount \in Int /\ Book[t].date \in Nat
  BY <1>1, RowNumbers
<1> QED
  BY <1>1, <1>2, <1>3, <1>4, NoneAssumption DEF LedgerBook

\* What the balance sums up are whole numbers.
LEMMA ContributionType == ASSUME NEW row \in TxRows, NEW a PROVE Contribution(row, a) \in Int
<1>1. row.amount \in Int /\ row.type \in {"INCOME", "EXPENSE", "TRANSFER", "VALUATION"}
  BY RowNumbers
<1>2. PICK out, into, rev \in Int :
        /\ out = (IF row.from = a THEN row.amount ELSE 0)
        /\ into = (IF row.to = a THEN row.amount ELSE 0)
        /\ rev = Revaluation(row)
  BY <1>1 DEF Revaluation
<1>3. CASE row.type = "INCOME"
  BY <1>2, <1>3 DEF Contribution
<1>4. CASE row.type = "EXPENSE"
  BY <1>2, <1>4 DEF Contribution
<1>5. CASE row.type = "TRANSFER"
  BY <1>2, <1>5 DEF Contribution
<1>6. CASE row.type = "VALUATION"
  BY <1>2, <1>6 DEF Contribution
<1> QED
  BY <1>1, <1>3, <1>4, <1>5, <1>6

\* Both paths read a row that is as it was validated in the same way.
LEMMA SoundIsSigned ==
    ASSUME NEW row \in TxRows, Sound(row), NEW a \in Accounts, a \in {row.from, row.to}
    PROVE  Contribution(row, a) = SignedAmount(row, a)
<1>1. /\ row.amount \in Int /\ row.type \in {"INCOME", "EXPENSE", "TRANSFER", "VALUATION"}
      /\ a # None
  BY RowNumbers, NoneAssumption
<1>2. row.type # "TRANSFER" => row.to = None /\ row.from = a
  BY <1>1 DEF Sound
<1>3. CASE row.type = "INCOME"
  BY <1>2, <1>3 DEF Contribution, SignedAmount
<1>4. CASE row.type = "EXPENSE"
  BY <1>2, <1>4 DEF Contribution, SignedAmount
<1>5. CASE row.type = "TRANSFER"
  <2>1. row.to # row.from
    BY <1>5 DEF Sound
  <2>2. CASE row.to = a
    BY <1>1, <1>5, <2>1, <2>2 DEF Contribution, SignedAmount
  <2>3. CASE row.to # a
    BY <1>1, <1>5, <2>1, <2>3 DEF Contribution, SignedAmount
  <2> QED
    BY <2>2, <2>3
<1>6. CASE row.type = "VALUATION"
  BY <1>2, <1>6 DEF Contribution, SignedAmount
<1> QED
  BY <1>1, <1>3, <1>4, <1>5, <1>6

ContributionOf(rows, a) == [t \in DOMAIN rows |-> Contribution(rows[t], a)]

\* Every balance is a whole number, whatever rows it sums up.
LEMMA FlowType ==
    ASSUME NEW rows, IsFiniteSet(DOMAIN rows), \A t \in DOMAIN rows : rows[t] \in TxRows, NEW a
    PROVE  CashFlow(rows, a) \in Int /\ CashFlow(rows, a) = Total(ContributionOf(rows, a), Touching(rows, a))
<1>1. Touching(rows, a) \in SUBSET DOMAIN rows
  BY DEF Touching
<1>2. IsFiniteSet(Touching(rows, a))
  BY <1>1, FS_Subset
<1>3. \A t \in Touching(rows, a) : Contribution(rows[t], a) = ContributionOf(rows, a)[t]
                                   /\ ContributionOf(rows, a)[t] \in Int
  BY <1>1, ContributionType DEF ContributionOf
<1> QED
  BY <1>2, <1>3, FlowTotals, TotalType

\* How the ledger is cut into pages does not show.
LEMMA PagesFit == ASSUME Fits PROVE PagesAgree
<1> SUFFICES ASSUME NEW a \in Accounts, NEW limit \in 1..Cardinality(Touching(Book, a)) - 1
             PROVE  FullLedger(Book, a, limit) = FullLedger(Book, a, MaxTx)
  BY DEF PagesAgree
<1> DEFINE S == Touching(Book, a)
<1>1. LedgerBook(Book) /\ S \in SUBSET DOMAIN Book /\ S \subseteq TxIds
  BY BookRows DEF Touching
<1>2. IsFiniteSet(S) /\ Cardinality(S) \in Nat
  BY <1>1, FS_Subset, FS_CardinalityType DEF LedgerBook
<1>3. limit \in Nat \ {0} /\ S # {}
  <2>1. Cardinality(S) - 1 \in Int /\ limit \in Int /\ 1 <= limit /\ limit <= Cardinality(S) - 1
    BY <1>2
  <2>2. Cardinality(S) # 0
    BY <1>2, <2>1
  <2> QED
    BY <2>1, <2>2, FS_EmptySet
<1>4. MaxTx \in Nat \ {0}
  <2>1. TxIds # {}
    BY <1>1, <1>3
  <2> QED
    BY <2>1, MaxTxAssumption DEF TxIds
<1>5. CashFlow(Book, a) \in Int
  BY BookRows, FlowType DEF LedgerBook
<1>6. \A n \in Nat \ {0} : FullLedger(Book, a, n) = Placed(Book, a, S, CashFlow(Book, a))
  BY <1>1, <1>5, LedgerStands DEF FullLedger
<1> QED
  BY <1>3, <1>4, <1>6

\* The rows of a month that touch an account are those of the account in that month, and
\* their sum is the one of the ledger when all of them are as they were validated.
LEMMA MonthsOf ==
    ASSUME Fits, NEW a \in Accounts, \A t \in Touching(Book, a) : Sound(txs[t]), NEW D,
           NEW S, S = {t \in Touching(Book, a) : Book[t].date \in D}
    PROVE  /\ S \in SUBSET DOMAIN Book /\ Touching(Within(Book, D), a) = S
           /\ CashFlow(Within(Book, D), a) = Signed(Book, a, S)
<1> DEFINE part == Within(Book, D)
<1>1. DOMAIN part = {t \in DOMAIN Book : Book[t].date \in D} /\ \A t \in DOMAIN part : part[t] = Book[t]
  BY DEF Within
<1>2. Touching(part, a) = S /\ S \in SUBSET DOMAIN Book
  BY <1>1 DEF Touching
<1>3. ASSUME NEW t \in S PROVE Contribution(part[t], a) = SignedAmount(Book[t], a)
  <2>1. t \in Active /\ Book[t] \in TxRows /\ Book[t] = txs[t] /\ part[t] = Book[t]
    BY <1>1, <1>2, BookRows
  <2>2. a \in {Book[t].from, Book[t].to} /\ Sound(Book[t])
    BY <2>1 DEF Touching
  <2> QED
    BY <2>1, <2>2, SoundIsSigned
<1>4. DOMAIN part \in SUBSET DOMAIN Book
  BY <1>1
<1> HIDE DEF part
<1>5. CashFlow(part, a) = Signed(Book, a, Touching(part, a))
  BY <1>2, <1>3, <1>4, FlowIsSigned
<1> QED
  BY <1>2, <1>5 DEF part

\* An account whose rows are all as they were validated closes.
LEMMA SoundCloses ==
    ASSUME Fits, NEW a \in Accounts, \A t \in Touching(Book, a) : Sound(txs[t])
    PROVE  Closes(a)
<1> DEFINE S     == Touching(Book, a)
           On(D) == {t \in S : Book[t].date \in D}
<1>1. LedgerBook(Book) /\ S \in SUBSET DOMAIN Book /\ \A t \in S : Book[t].date \in Dates
  <2>1. \A t \in Active : Book[t].date \in Dates
    BY BookRows DEF TxRows
  <2> QED
    BY <2>1, BookRows DEF Touching
<1>2. \A d \in Dates : d \in Nat
  BY AmountsAssumption
<1>3. ASSUME S # {} PROVE Opening(Book, a, FullLedger(Book, a, 1)) = 0
  <2>1. CashFlow(Book, a) = Signed(Book, a, S)
    <3>1. \A t \in S : Contribution(Book[t], a) = SignedAmount(Book[t], a)
      BY BookRows, SoundIsSigned DEF Touching
    <3> QED
      BY <3>1, FlowIsSigned
  <2>2. PICK top \in Int : top = CashFlow(Book, a)
    BY <1>1, <2>1, SignedType
  <2>3. Opening(Book, a, Ledger(Book, a, S, 1, top)) = top - Signed(Book, a, S)
    BY <1>1, <1>3, OpeningIs
  <2> QED
    BY <2>1, <2>2, <2>3 DEF FullLedger
<1>4. ASSUME NEW d \in Dates, Touching(Within(Book, {d}), a) # {}
      PROVE  Opening(Book, a, MonthLedger(Book, a, 1, d)) = CashFlow(Within(Book, {e \in Dates : e < d}), a)
  <2> DEFINE Upto   == {e \in {Book[t].date : t \in DOMAIN Book} : e <= d}
             Before == {e \in Dates : e < d}
  <2>1. /\ Touching(Within(Book, {d}), a) = On({d})
        /\ CashFlow(Within(Book, Upto), a) = Signed(Book, a, On(Upto))
        /\ CashFlow(Within(Book, Before), a) = Signed(Book, a, On(Before))
        /\ On({d}) \in SUBSET DOMAIN Book /\ On(Upto) \in SUBSET DOMAIN Book /\ On(Before) \in SUBSET DOMAIN Book
    BY MonthsOf
  <2>2. On(Upto) = On(Before) \cup On({d}) /\ On(Before) \cap On({d}) = {}
    <3>1. \A t \in S : Book[t].date \in Nat /\ d \in Nat
      BY <1>1, <1>2
    <3>2. \A t \in S : /\ Book[t].date \in Upto <=> Book[t].date <= d
                       /\ Book[t].date \in Before <=> Book[t].date < d
      BY <1>1
    <3> HIDE DEF Upto, Before
    <3>3. \A t \in S : Book[t].date \in Upto <=> (Book[t].date \in Before \/ Book[t].date \in {d})
      BY <3>1, <3>2
    <3>4. \A t \in S : ~(Book[t].date \in Before /\ Book[t].date \in {d})
      BY <3>1, <3>2
    <3> QED
      BY <3>3, <3>4
  <2> HIDE DEF Upto, Before, On, S
  <2>3. PICK P, Q \in SUBSET DOMAIN Book : P = On(Before) /\ Q = On({d}) /\ P \cap Q = {} /\ On(Upto) = P \cup Q
    BY <2>1, <2>2
  <2>4. PICK x, y \in Int : x = Signed(Book, a, P) /\ y = Signed(Book, a, Q)
    BY <1>1, SignedType
  <2>5. Signed(Book, a, P \cup Q) = x + y
    <3>1. LedgerBook(Book) /\ P \in SUBSET DOMAIN Book /\ Q \in SUBSET DOMAIN Book /\ P \cap Q = {}
      BY <1>1, <2>3
    <3>2. Signed(Book, a, P \cup Q) = Signed(Book, a, P) + Signed(Book, a, Q)
      BY <3>1, SignedAdds
    <3> QED
      BY <2>4, <3>2
  <2>6. PICK top \in Int : top = x + y
    OBVIOUS
  <2>7. Opening(Book, a, Ledger(Book, a, Q, 1, top)) = top - y
    <3>1. LedgerBook(Book) /\ Q \in SUBSET DOMAIN Book /\ Q # {}
      BY <1>1, <1>4, <2>1, <2>3
    <3>2. Opening(Book, a, Ledger(Book, a, Q, 1, top)) = top - Signed(Book, a, Q)
      BY <3>1, OpeningIs
    <3> QED
      BY <2>4, <3>2
  <2>8. MonthLedger(Book, a, 1, d) = Ledger(Book, a, Q, 1, top)
    BY <2>1, <2>3, <2>5, <2>6 DEF MonthLedger, Upto
  <2>9. top - y = x
    BY <2>6
  <2> QED
    BY <2>1, <2>3, <2>4, <2>7, <2>8, <2>9 DEF Before
<1> QED
  BY <1>3, <1>4 DEF Closes

-----------------------------------------------------------------------------
(* The deletion of an account and the balances of the others *)

\* Who deletes an account leaves every row that touches another account alive as it was.
LEMMA DeletionSpares ==
    ASSUME Fits, Claimed, NEW w \in Workers, Commit(w), job[w].id \in Accounts,
           NEW b \in Accounts \ {job[w].id}, accts[b].status = "ACTIVE", Fits'
    PROVE  Touching(Book, b)' = Touching(Book, b) /\ \A t \in Touching(Book, b) : Book'[t] = Book[t]
<1>1. Claims(w) /\ job[w] # None /\ b # None
  BY NoneAssumption DEF Claimed, Commit, Fits, TypeOK
<1>2. \A t \in TxIds : t \notin kill[w] => txs'[t] = txs[t]
  BY RowsAssumption, CommitKeeps DEF TxIds
<1>3. /\ DOMAIN Book = Active /\ \A t \in Active : t \in TxIds /\ Book[t] = txs[t]
      /\ (DOMAIN Book = Active)' /\ \A t \in Active' : t \in TxIds /\ Book'[t] = txs'[t]
  BY DEF Book, Active
<1>4. \A t \in Active : b \in {txs[t].from, txs[t].to} => t \notin kill[w]
  BY <1>1 DEF Claims
<1>5. \A t \in TxIds : t \in kill[w] => t \notin Active'
  BY CommitDeletes
<1>6. \A t \in TxIds : t \notin kill[w] => (t \in Active <=> t \in Active')
  BY <1>2 DEF Active
<1>7. Touching(Book, b) = {t \in Active : b \in {txs[t].from, txs[t].to}}
  BY <1>3 DEF Touching
<1>8. Touching(Book, b)' = {t \in Active' : b \in {txs'[t].from, txs'[t].to}}
  BY <1>3 DEF Touching
<1> QED
  BY <1>2, <1>3, <1>4, <1>5, <1>6, <1>7, <1>8

LEMMA DeletionKeeps ==
    ASSUME Fits, Claimed, NEW w \in Workers, Commit(w), job[w].id \in Accounts,
           NEW b \in Accounts \ {job[w].id}, accts[b].status = "ACTIVE", Fits'
    PROVE  CashFlow(Book, b)' = CashFlow(Book, b)
<1>1. Touching(Book, b)' = Touching(Book, b) /\ \A t \in Touching(Book, b) : Book'[t] = Book[t]
  BY DeletionSpares
<1>2. PICK f : f = ContributionOf(Book, b)
  OBVIOUS
<1>3. \A t \in Touching(Book, b) : Contribution(Book[t], b) = f[t]
  BY <1>2 DEF ContributionOf, Touching
<1>4. CashFlow(Book, b) = Total(f, Touching(Book, b))
  BY <1>3, FlowTotals
<1>5. Touching(Book', b) = Touching(Book, b) /\ \A t \in Touching(Book', b) : Contribution(Book'[t], b) = f[t]
  <2>1. Touching(Book, b)' = Touching(Book', b)
    BY DEF Touching
  <2> QED
    BY <1>1, <1>3, <2>1
<1>6. CashFlow(Book', b) = Total(f, Touching(Book', b))
  BY <1>5, FlowTotals
<1>7. CashFlow(Book, b)' = CashFlow(Book', b)
  OBVIOUS
<1> QED
  BY <1>4, <1>5, <1>6, <1>7

-----------------------------------------------------------------------------

\* The invariant is inductive: it holds in every reachable state, for every set of
\* accounts and of sessions, and every bound on rows and requests.
THEOREM Invariance == Spec => []IInv
<1>1. Init => Fits /\ Rest /\ Claimed
  BY InitFits, InitRest, InitClaims
<1>2. (Fits /\ Rest /\ Claimed) /\ [Next]_vars => (Fits /\ Rest /\ Claimed)'
  BY NextFits, NextRest, NextClaims
<1>3. Fits /\ Rest /\ Claimed => IInv
  BY DEF Fits, Rest, IInv
<1> QED
  BY <1>1, <1>2, <1>3, PTL DEF Spec

\* Type correctness of accounts, transactions and sessions.
THEOREM Typing == Spec => []TypeOK
<1>1. IInv => TypeOK
  BY DEF IInv
<1> QED
  BY <1>1, Invariance, PTL

\* Deleting accounts, whoever deletes, edits or enters what at the same time: an active
\* transaction for which nobody raced has an account that is alive.
THEOREM DeletionTakesRows == Spec => []DeadTakeTheirRows
<1>1. IInv => DeadTakeTheirRows
  BY DEF IInv
<1> QED
  BY <1>1, Invariance, PTL

\* However the ledger of an account is cut into pages, every row of it shows the same
\* balance, whatever rows a race left behind.
THEOREM PagesAgreeAlways == Spec => []PagesAgree
<1>1. IInv => Fits
  BY DEF IInv, Fits
<1> QED
  BY <1>1, PagesFit, Invariance, PTL

\* The ledger of an account, and of each of its months, closes at the balance the sums
\* give, unless a row of it was written by a request that was overtaken.
THEOREM LedgersClose == Spec => []LedgersCloseUnlessRaced
<1>1. ASSUME IInv PROVE LedgersCloseUnlessRaced
  <2> SUFFICES ASSUME NEW a \in Accounts, Touching(Book, a) \cap raced = {} PROVE Closes(a)
    BY DEF LedgersCloseUnlessRaced
  <2>1. Fits /\ UnracedAreSound
    BY <1>1 DEF IInv, Fits
  <2>2. \A t \in Touching(Book, a) : t \in Active \ raced
    BY <2>1, BookRows DEF Touching
  <2>3. \A t \in Touching(Book, a) : Sound(txs[t])
    BY <2>1, <2>2 DEF UnracedAreSound
  <2> QED
    BY <2>1, <2>3, SoundCloses
<1> QED
  BY <1>1, Invariance, PTL

\* The deletion of an account changes the balance of no other account that is alive,
\* whoever else is at work.
THEOREM DeletionPreservesOthers == Spec => DeletionKeepsOthers
<1> DEFINE A == \A a \in Accounts :
                   (accts[a].status = "ACTIVE" /\ accts'[a].status = "DELETED") =>
                      \A b \in Accounts \ {a} :
                         accts[b].status = "ACTIVE" => CashFlow(Book, b)' = CashFlow(Book, b)
<1>1. ASSUME IInv, IInv', [Next]_vars PROVE [A]_vars
  <2>1. Fits /\ Claimed /\ Fits'
    BY <1>1 DEF IInv, Fits
  <2> SUFFICES ASSUME NEW a \in Accounts, accts[a].status = "ACTIVE", accts'[a].status = "DELETED",
                      NEW b \in Accounts \ {a}, accts[b].status = "ACTIVE"
               PROVE  CashFlow(Book, b)' = CashFlow(Book, b)
    OBVIOUS
  <2>2. accts' # accts
    OBVIOUS
  <2>3. PICK w \in Workers : Commit(w)
    <3>1. ASSUME NEW w \in Workers, Begin(w) PROVE accts' = accts
      BY <3>1 DEF Begin, Create, Load, Erase, Close, Retype, Start
    <3>2. ASSUME NEW w \in Workers, Patch(w) \/ Solo(w) \/ Shared(w) \/ Flush(w) \/ Rollback(w) PROVE accts' = accts
      BY <3>2 DEF Patch, Solo, Shared, SoftDelete, Flush, Rollback
    <3>3. ~UNCHANGED vars
      BY <2>2 DEF vars
    <3> QED
      BY <1>1, <2>2, <3>1, <3>2, <3>3 DEF Next
  <2>4. a = job[w].id
    BY <2>1, <2>3, CommitAccounts
  <2> QED
    BY <2>1, <2>3, <2>4, DeletionKeeps
<1> QED
  BY <1>1, Invariance, PTL DEF Spec, DeletionKeepsOthers
=============================================================================
