------------------------------- MODULE Totals -------------------------------
(***************************************************************************)
(* What the proofs about money need to know of finite sets and of the sums *)
(* over them that MapThenSumSet computes by recursion over sets.           *)
(*                                                                         *)
(* Induction over a finite set goes by the smallest counterexample, and    *)
(* the function a recursive definition chooses is shown to exist for       *)
(* larger and larger sets in the same way.                                 *)
(***************************************************************************)
EXTENDS Integers, FiniteSets, FiniteSetsExt, FiniteSetTheorems, WellFoundedInduction, TLAPS

-----------------------------------------------------------------------------
(* Smallest counterexamples *)

\* A set of numbers has a least one.
LEMMA LeastNumber == ASSUME NEW T \in SUBSET Nat, T # {} PROVE \E m \in T : \A t \in T : m <= t
<1> DEFINE R == OpToRel(<, Nat)
<1>1. IsWellFoundedOn(R, Nat)
  BY NatLessThanWellFounded
<1>2. \A x, y \in Nat : x < y => <<x, y>> \in R
  BY DEF OpToRel
<1>3. PICK m \in T : \A y \in T : ~(<<y, m>> \in R)
  BY <1>1, WFMin
<1>4. ASSUME NEW t \in T PROVE m <= t
  <2>1. m \in Nat /\ t \in Nat /\ ~(t < m)
    BY <1>2, <1>3
  <2> QED
    BY <2>1
<1> QED
  BY <1>3, <1>4

\* Of some subsets of a finite set there is one that no longer is one of them when any
\* element is taken away.
LEMMA SmallestSet ==
    ASSUME NEW U, IsFiniteSet(U), NEW W \in SUBSET (SUBSET U), W # {}
    PROVE  \E S \in W : IsFiniteSet(S) /\ \A T \in W : T \subseteq S => T = S
<1> DEFINE Counts == {Cardinality(S) : S \in W}
<1>1. \A S \in W : S \subseteq U /\ IsFiniteSet(S) /\ Cardinality(S) \in Nat
  BY FS_Subset, FS_CardinalityType
<1>2. Counts \in SUBSET Nat /\ Counts # {}
  BY <1>1
<1> HIDE DEF Counts
<1>3. PICK m \in Counts : \A n \in Counts : m <= n
  BY <1>2, LeastNumber
<1>4. PICK S \in W : m = Cardinality(S)
  BY <1>3 DEF Counts
<1>5. ASSUME NEW T \in W, T \subseteq S PROVE T = S
  <2>1. Cardinality(S) <= Cardinality(T)
    BY <1>3, <1>4 DEF Counts
  <2> QED
    BY <1>1, <1>5, <2>1, FS_Subset
<1> QED
  BY <1>1, <1>5

-----------------------------------------------------------------------------
(* Sums *)

Total(f, S) == MapThenSumSet(LAMBDA t : f[t], S)

Pick(S) == CHOOSE x \in S : TRUE

SumBody(f, sum, S) == IF S = {} THEN 0 ELSE f[Pick(S)] + sum[S \ {Pick(S)}]
Sums(f, S, sum)    == sum = [T \in SUBSET S |-> SumBody(f, sum, T)]

\* A total is what a function that sums up every subset makes of the set.
LEMMA TotalIs == ASSUME NEW f, NEW S PROVE Total(f, S) = (CHOOSE sum : Sums(f, S, sum))[S]
BY DEF Total, MapThenSumSet, MapThenFoldSet, Sums, SumBody, Pick

\* There is a function that sums up every subset of a finite set.
LEMMA SumExists == ASSUME NEW f, NEW U, IsFiniteSet(U) PROVE \E sum : Sums(f, U, sum)
<1> DEFINE Small(n) == {S \in SUBSET U : Cardinality(S) <= n}
           P(n)    == \E sum : sum = [S \in Small(n) |-> SumBody(f, sum, S)]
           Bad     == {n \in Nat : ~P(n)}
<1>1. \A S \in SUBSET U : IsFiniteSet(S) /\ Cardinality(S) \in Nat
  BY FS_Subset, FS_CardinalityType
<1>2. P(0)
  <2>1. PICK sum : sum = [S \in Small(0) |-> 0]
    OBVIOUS
  <2>2. \A S \in Small(0) : S = {}
    BY <1>1, FS_EmptySet
  <2>3. \A S \in Small(0) : SumBody(f, sum, S) = 0
    BY <2>2 DEF SumBody
  <2> HIDE DEF Small
  <2>4. sum = [S \in Small(0) |-> SumBody(f, sum, S)]
    BY <2>1, <2>3
  <2> QED
    BY <2>4
<1>3. ASSUME NEW n \in Nat, P(n) PROVE P(n + 1)
  <2>1. PICK sum : sum = [S \in Small(n) |-> SumBody(f, sum, S)]
    BY <1>3
  <2>2. PICK more : more = [S \in Small(n + 1) |-> SumBody(f, sum, S)]
    OBVIOUS
  <2>3. \A S \in Small(n) : S \in Small(n + 1) /\ more[S] = sum[S]
    <3>1. \A S \in Small(n) : S \in Small(n + 1)
      BY <1>1
    <3> HIDE DEF Small
    <3> QED
      BY <2>1, <2>2, <3>1
  <2>4. ASSUME NEW S \in Small(n + 1) PROVE SumBody(f, sum, S) = SumBody(f, more, S)
    <3>1. ASSUME S # {} PROVE sum[S \ {Pick(S)}] = more[S \ {Pick(S)}]
      <4>1. PICK x : x = Pick(S) /\ x \in S
        BY <3>1 DEF Pick
      <4>2. S \in SUBSET U /\ Cardinality(S) <= n + 1
        OBVIOUS
      <4>3. Cardinality(S \ {x}) = Cardinality(S) - 1 /\ S \ {x} \in SUBSET U /\ Cardinality(S) \in Nat
        BY <1>1, <4>1, <4>2, FS_RemoveElement
      <4>4. S \ {x} \in Small(n)
        BY <4>2, <4>3
      <4> QED
        BY <2>3, <4>1, <4>4
    <3> QED
      BY <3>1 DEF SumBody
  <2> HIDE DEF Small
  <2>5. more = [S \in Small(n + 1) |-> SumBody(f, more, S)]
    BY <2>2, <2>4
  <2> QED
    BY <2>5
<1>4. Bad = {}
  <2> SUFFICES ASSUME Bad # {} PROVE FALSE
    OBVIOUS
  <2> HIDE DEF P
  <2>1. Bad \in SUBSET Nat
    OBVIOUS
  <2>2. PICK m \in Bad : \A n \in Bad : m <= n
    BY <2>1, LeastNumber
  <2>3. m \in Nat /\ ~P(m) /\ m # 0
    BY <1>2, <2>2
  <2>4. m - 1 \in Nat /\ P(m - 1)
    BY <2>2, <2>3
  <2>5. P(m - 1 + 1)
    BY <1>3, <2>4
  <2> QED
    BY <2>3, <2>4, <2>5
<1>5. PICK N \in Nat : N = Cardinality(U)
  BY <1>1
<1>6. Small(N) = SUBSET U
  <2>1. \A S \in SUBSET U : Cardinality(S) <= N
    BY <1>5, FS_Subset
  <2> QED
    BY <2>1
<1>7. P(N)
  BY <1>4
<1> HIDE DEF Small, Bad
<1>8. PICK sum : sum = [S \in Small(N) |-> SumBody(f, sum, S)]
  BY <1>7
<1> QED
  BY <1>6, <1>8 DEF Sums

\* Functions that sum up the subsets of two sets agree on the subsets of both.
LEMMA SumsAgree ==
    ASSUME NEW f, NEW U, IsFiniteSet(U), NEW V \in SUBSET U, NEW a, NEW b, Sums(f, U, a), Sums(f, V, b),
           NEW S \in SUBSET V
    PROVE  a[S] = b[S]
<1> DEFINE W == {T \in SUBSET V : a[T] # b[T]}
<1>1. \A T \in SUBSET V : a[T] = SumBody(f, a, T) /\ b[T] = SumBody(f, b, T)
  BY DEF Sums
<1>2. W = {}
  <2> SUFFICES ASSUME W # {} PROVE FALSE
    OBVIOUS
  <2>1. IsFiniteSet(V) /\ W \in SUBSET (SUBSET V)
    BY FS_Subset
  <2> HIDE DEF W
  <2>2. PICK T \in W : \A R \in W : R \subseteq T => R = T
    BY <2>1, SmallestSet
  <2> USE DEF W
  <2>3. T # {}
    BY <1>1 DEF SumBody
  <2>4. Pick(T) \in T
    BY <2>3 DEF Pick
  <2>5. a[T \ {Pick(T)}] = b[T \ {Pick(T)}]
    <3>1. T \ {Pick(T)} \notin W
      BY <2>2, <2>4
    <3> QED
      BY <3>1
  <2> QED
    BY <1>1, <2>3, <2>5 DEF SumBody
<1> QED
  BY <1>2

\* One function gives the totals of all subsets of a finite set.
LEMMA TotalsOf ==
    ASSUME NEW f, NEW U, IsFiniteSet(U)
    PROVE  \A T \in SUBSET U : Total(f, T) = IF T = {} THEN 0 ELSE f[Pick(T)] + Total(f, T \ {Pick(T)})
<1>1. PICK sum : Sums(f, U, sum)
  BY SumExists
<1>2. \A T \in SUBSET U : Total(f, T) = sum[T]
  <2> SUFFICES ASSUME NEW T \in SUBSET U PROVE Total(f, T) = sum[T]
    OBVIOUS
  <2>1. IsFiniteSet(T)
    BY FS_Subset
  <2>2. PICK own : own = (CHOOSE b : Sums(f, T, b))
    OBVIOUS
  <2>3. Sums(f, T, own)
    BY <2>1, <2>2, SumExists
  <2>4. sum[T] = own[T]
    BY <1>1, <2>3, SumsAgree
  <2> QED
    BY <2>2, <2>4, TotalIs
<1>3. \A T \in SUBSET U : sum[T] = SumBody(f, sum, T)
  BY <1>1 DEF Sums
<1> QED
  BY <1>2, <1>3 DEF SumBody

\* The total of nothing.
LEMMA TotalOfNone == ASSUME NEW f PROVE Total(f, {}) = 0
BY TotalsOf, FS_EmptySet

\* A total of whole numbers is one, and no negative one when none of them is.
LEMMA TotalType ==
    ASSUME NEW f, NEW S, IsFiniteSet(S), \A x \in S : f[x] \in Int
    PROVE  Total(f, S) \in Int /\ ((\A x \in S : f[x] >= 0) => Total(f, S) >= 0)
<1> DEFINE W == {T \in SUBSET S : ~(Total(f, T) \in Int /\ ((\A x \in S : f[x] >= 0) => Total(f, T) >= 0))}
<1>1. W = {}
  <2> SUFFICES ASSUME W # {} PROVE FALSE
    OBVIOUS
  <2>1. W \in SUBSET (SUBSET S)
    OBVIOUS
  <2> HIDE DEF W
  <2>2. PICK T \in W : \A R \in W : R \subseteq T => R = T
    BY <2>1, SmallestSet
  <2> USE DEF W
  <2>3. T # {}
    BY TotalOfNone
  <2>4. Pick(T) \in T /\ T \in SUBSET S
    BY <2>3 DEF Pick
  <2>5. T \ {Pick(T)} \notin W
    BY <2>2, <2>4
  <2>6. Total(f, T) = f[Pick(T)] + Total(f, T \ {Pick(T)})
    BY <2>3, <2>4, TotalsOf
  <2> QED
    BY <2>2, <2>4, <2>5, <2>6
<1> QED
  BY <1>1

\* Whichever element is taken first, the total is its number and the total of the others.
LEMMA TotalOfMore ==
    ASSUME NEW f, NEW S, IsFiniteSet(S), \A x \in S : f[x] \in Int, NEW x \in S
    PROVE  Total(f, S) = f[x] + Total(f, S \ {x})
<1> DEFINE W == {T \in SUBSET S : \E y \in T : Total(f, T) # f[y] + Total(f, T \ {y})}
<1>0. \A T \in SUBSET S : Total(f, T) \in Int
  BY TotalType, FS_Subset
<1>1. W = {}
  <2> SUFFICES ASSUME W # {} PROVE FALSE
    OBVIOUS
  <2>1. W \in SUBSET (SUBSET S)
    OBVIOUS
  <2> HIDE DEF W
  <2>2. PICK T \in W : \A R \in W : R \subseteq T => R = T
    BY <2>1, SmallestSet
  <2> USE DEF W
  <2>3. PICK y \in T : Total(f, T) # f[y] + Total(f, T \ {y})
    BY <2>2
  <2>4. PICK z \in T : z = Pick(T)
    BY DEF Pick
  <2>5. T \in SUBSET S /\ Total(f, T) = f[z] + Total(f, T \ {z})
    BY <2>4, TotalsOf
  <2>6. z # y
    BY <2>3, <2>5
  <2>7. T \ {z} \notin W /\ T \ {y} \notin W
    BY <2>2
  <2>8. y \in T \ {z} /\ z \in T \ {y} /\ T \ {z} \in SUBSET S /\ T \ {y} \in SUBSET S
    BY <2>5, <2>6
  <2> DEFINE R == T \ {y, z}
  <2>9. (T \ {z}) \ {y} = R /\ (T \ {y}) \ {z} = R
    OBVIOUS
  <2> HIDE DEF R
  <2>10. Total(f, T \ {z}) = f[y] + Total(f, R) /\ Total(f, T \ {y}) = f[z] + Total(f, R)
    BY <2>7, <2>8, <2>9
  <2>11. PICK k, l, m : k = f[y] /\ l = f[z] /\ m = Total(f, R)
    OBVIOUS
  <2>12. k \in Int /\ l \in Int /\ m \in Int
    <3>1. R \in SUBSET S
      BY <2>5 DEF R
    <3> QED
      BY <1>0, <2>5, <2>11, <3>1
  <2>13. l + (k + m) = k + (l + m)
    BY <2>12
  <2> HIDE DEF W
  <2> QED
    BY <2>3, <2>5, <2>10, <2>11, <2>13
<1> QED
  BY <1>1

\* A total depends on the numbers of its elements only.
LEMMA TotalSame ==
    ASSUME NEW f, NEW g, NEW S, \A x \in S : f[x] = g[x]
    PROVE  Total(f, S) = Total(g, S)
<1>1. \A sum : Sums(f, S, sum) <=> Sums(g, S, sum)
  <2> SUFFICES ASSUME NEW sum PROVE Sums(f, S, sum) <=> Sums(g, S, sum)
    OBVIOUS
  <2>1. \A T \in SUBSET S : SumBody(f, sum, T) = SumBody(g, sum, T)
    BY DEF SumBody, Pick
  <2> QED
    BY <2>1 DEF Sums
<1>2. (CHOOSE sum : Sums(f, S, sum)) = (CHOOSE sum : Sums(g, S, sum))
  BY <1>1
<1> QED
  BY <1>2, TotalIs

\* The total of two sets that share nothing is the sum of theirs.
LEMMA TotalOfUnion ==
    ASSUME NEW f, NEW A, NEW B, IsFiniteSet(A), IsFiniteSet(B), A \cap B = {}, \A x \in A \cup B : f[x] \in Int
    PROVE  Total(f, A \cup B) = Total(f, A) + Total(f, B)
<1> DEFINE W == {S \in SUBSET A : Total(f, S \cup B) # Total(f, S) + Total(f, B)}
<1>0. \A S \in SUBSET A : /\ IsFiniteSet(S) /\ IsFiniteSet(S \cup B)
                          /\ Total(f, S) \in Int /\ Total(f, S \cup B) \in Int /\ Total(f, B) \in Int
  <2> SUFFICES ASSUME NEW S \in SUBSET A
               PROVE  /\ IsFiniteSet(S) /\ IsFiniteSet(S \cup B)
                      /\ Total(f, S) \in Int /\ Total(f, S \cup B) \in Int /\ Total(f, B) \in Int
    OBVIOUS
  <2>1. IsFiniteSet(S) /\ IsFiniteSet(S \cup B)
    BY FS_Subset, FS_Union
  <2> QED
    BY <2>1, TotalType
<1>1. W = {}
  <2> SUFFICES ASSUME W # {} PROVE FALSE
    OBVIOUS
  <2>1. W \in SUBSET (SUBSET A)
    OBVIOUS
  <2> HIDE DEF W
  <2>2. PICK S \in W : \A R \in W : R \subseteq S => R = S
    BY <2>1, SmallestSet
  <2> USE DEF W
  <2>3. S \in SUBSET A /\ Total(f, S \cup B) # Total(f, S) + Total(f, B)
    OBVIOUS
  <2>4. S # {}
    <3>1. {} \cup B = B
      OBVIOUS
    <3>2. Total(f, B) \in Int
      BY <1>0
    <3> QED
      BY <2>3, <3>1, <3>2, TotalOfNone
  <2>5. PICK x \in S : TRUE
    BY <2>4
  <2>6. PICK R : R = S \ {x} /\ R \in SUBSET A /\ (S \cup B) \ {x} = R \cup B
    <3>1. x \in A /\ x \notin B
      BY <2>3, <2>5
    <3>2. S \ {x} \in SUBSET A /\ (S \cup B) \ {x} = (S \ {x}) \cup B
      BY <2>3, <3>1
    <3> QED
      BY <3>2
  <2>7. R \notin W
    BY <2>2, <2>5, <2>6
  <2>8. Total(f, R \cup B) = Total(f, R) + Total(f, B)
    BY <2>6, <2>7
  <2> HIDE DEF W
  <2>9. Total(f, S) = f[x] + Total(f, R)
    BY <1>0, <2>3, <2>5, <2>6, TotalOfMore
  <2>10. Total(f, S \cup B) = f[x] + Total(f, R \cup B)
    <3>1. x \in S \cup B /\ IsFiniteSet(S \cup B) /\ \A y \in S \cup B : f[y] \in Int
      BY <1>0, <2>3, <2>5
    <3> QED
      BY <2>6, <3>1, TotalOfMore
  <2>11. f[x] \in Int /\ Total(f, R) \in Int /\ Total(f, B) \in Int
    BY <1>0, <2>3, <2>5, <2>6
  <2> QED
    BY <2>3, <2>8, <2>9, <2>10, <2>11
<1> QED
  BY <1>1

\* Totals add up element by element.
LEMMA TotalAdds ==
    ASSUME NEW f, NEW g, NEW h, NEW S, IsFiniteSet(S),
           \A x \in S : f[x] \in Int /\ g[x] \in Int /\ h[x] = f[x] + g[x]
    PROVE  Total(h, S) = Total(f, S) + Total(g, S)
<1> DEFINE W == {T \in SUBSET S : Total(h, T) # Total(f, T) + Total(g, T)}
<1>0. \A T \in SUBSET S : /\ IsFiniteSet(T) /\ Total(f, T) \in Int /\ Total(g, T) \in Int
                          /\ \A x \in T : f[x] \in Int /\ g[x] \in Int /\ h[x] \in Int
  <2> SUFFICES ASSUME NEW T \in SUBSET S
               PROVE  /\ IsFiniteSet(T) /\ Total(f, T) \in Int /\ Total(g, T) \in Int
                      /\ \A x \in T : f[x] \in Int /\ g[x] \in Int /\ h[x] \in Int
    OBVIOUS
  <2>1. IsFiniteSet(T) /\ \A x \in T : f[x] \in Int /\ g[x] \in Int /\ h[x] \in Int
    BY FS_Subset
  <2> QED
    BY <2>1, TotalType
<1>1. W = {}
  <2> SUFFICES ASSUME W # {} PROVE FALSE
    OBVIOUS
  <2>1. W \in SUBSET (SUBSET S)
    OBVIOUS
  <2> HIDE DEF W
  <2>2. PICK T \in W : \A R \in W : R \subseteq T => R = T
    BY <2>1, SmallestSet
  <2> USE DEF W
  <2>3. T \in SUBSET S /\ Total(h, T) # Total(f, T) + Total(g, T)
    OBVIOUS
  <2>4. T # {}
    <3>1. Total(f, {}) = 0 /\ Total(g, {}) = 0 /\ Total(h, {}) = 0
      BY TotalOfNone
    <3> QED
      BY <2>3, <3>1
  <2>5. PICK x \in T : TRUE
    BY <2>4
  <2>6. PICK R : R = T \ {x} /\ R \in SUBSET S
    BY <2>3
  <2>7. R \notin W
    BY <2>2, <2>5, <2>6
  <2>8. Total(h, R) = Total(f, R) + Total(g, R)
    BY <2>6, <2>7
  <2> HIDE DEF W
  <2>9. IsFiniteSet(T) /\ x \in T /\ \A y \in T : f[y] \in Int /\ g[y] \in Int /\ h[y] \in Int
    BY <1>0, <2>3, <2>5
  <2>10. Total(f, T) = f[x] + Total(f, R) /\ Total(g, T) = g[x] + Total(g, R) /\ Total(h, T) = h[x] + Total(h, R)
    BY <2>6, <2>9, TotalOfMore
  <2>11. f[x] \in Int /\ g[x] \in Int /\ h[x] = f[x] + g[x] /\ Total(f, R) \in Int /\ Total(g, R) \in Int
    BY <1>0, <2>3, <2>5, <2>6
  <2> QED
    BY <2>3, <2>8, <2>10, <2>11
<1> QED
  BY <1>1

\* Elements that add nothing can be left out.
LEMMA TotalRestricts ==
    ASSUME NEW f, NEW S, IsFiniteSet(S), NEW T \in SUBSET S, \A x \in S : f[x] \in Int, \A x \in S \ T : f[x] = 0
    PROVE  Total(f, S) = Total(f, T)
<1>1. PICK R : R = S \ T
  OBVIOUS
<1>2. R \in SUBSET S /\ T \cap R = {} /\ T \cup R = S
  BY <1>1
<1>3. IsFiniteSet(R) /\ IsFiniteSet(T)
  BY <1>2, FS_Subset
<1>4. Total(f, T \cup R) = Total(f, T) + Total(f, R)
  BY <1>2, <1>3, TotalOfUnion
<1>5. \A x \in R : f[x] \in Int /\ f[x] = f[x] + f[x]
  BY <1>1
<1>6. Total(f, R) = Total(f, R) + Total(f, R)
  BY <1>3, <1>5, TotalAdds
<1>7. PICK x, y \in Int : x = Total(f, R) /\ y = Total(f, T)
  BY <1>2, <1>3, TotalType
<1>8. x = x + x => y + x = y
  OBVIOUS
<1> QED
  BY <1>2, <1>4, <1>6, <1>7, <1>8

\* A part of a sum of natural numbers is not more than all of it.
LEMMA TotalOfPart ==
    ASSUME NEW f, NEW S, IsFiniteSet(S), NEW T \in SUBSET S, \A x \in S : f[x] \in Nat
    PROVE  Total(f, T) \in Nat /\ Total(f, S) \in Nat /\ Total(f, T) <= Total(f, S)
<1>1. PICK R : R = S \ T
  OBVIOUS
<1>2. R \in SUBSET S /\ T \cap R = {} /\ T \cup R = S
  BY <1>1
<1>3. IsFiniteSet(R) /\ IsFiniteSet(T)
  BY <1>2, FS_Subset
<1>4. \A x \in S : f[x] \in Int /\ f[x] >= 0
  OBVIOUS
<1>5. Total(f, T \cup R) = Total(f, T) + Total(f, R)
  BY <1>2, <1>3, <1>4, TotalOfUnion
<1>6. Total(f, R) \in Int /\ Total(f, R) >= 0
  BY <1>2, <1>3, <1>4, TotalType
<1>7. Total(f, T) \in Int /\ Total(f, T) >= 0
  BY <1>3, <1>4, TotalType
<1>8. PICK x, y \in Int : x = Total(f, R) /\ y = Total(f, T) /\ x >= 0 /\ y >= 0
  BY <1>6, <1>7
<1>9. y \in Nat /\ y + x \in Nat /\ y <= y + x
  BY <1>8
<1> QED
  BY <1>2, <1>5, <1>8, <1>9

\* The totals of the parts of a set add up to that of the set.
LEMMA TotalOfParts ==
    ASSUME NEW f, NEW S, IsFiniteSet(S), NEW A, IsFiniteSet(A), NEW c, \A x \in S : f[x] \in Int /\ c[x] \in A,
           NEW part, \A a \in A : \A x : x \in part[a] <=> x \in S /\ c[x] = a,
           NEW h, \A a \in A : h[a] = Total(f, part[a])
    PROVE  Total(h, A) = Total(f, S)
<1> DEFINE In(B) == {x \in S : c[x] \in B}
           W     == {B \in SUBSET A : Total(h, B) # Total(f, In(B))}
<1>0. \A B \in SUBSET A : IsFiniteSet(B) /\ IsFiniteSet(In(B)) /\ Total(f, In(B)) \in Int
  <2> SUFFICES ASSUME NEW B \in SUBSET A PROVE IsFiniteSet(B) /\ IsFiniteSet(In(B)) /\ Total(f, In(B)) \in Int
    OBVIOUS
  <2>1. IsFiniteSet(B) /\ IsFiniteSet(In(B)) /\ \A x \in In(B) : f[x] \in Int
    BY FS_Subset
  <2> HIDE DEF In
  <2> QED
    BY <2>1, TotalType
<1>1. \A a \in A : part[a] = In({a}) /\ h[a] \in Int /\ h[a] = Total(f, In({a}))
  <2> SUFFICES ASSUME NEW a \in A PROVE part[a] = In({a}) /\ h[a] \in Int /\ h[a] = Total(f, In({a}))
    OBVIOUS
  <2>1. part[a] = In({a}) /\ {a} \in SUBSET A
    OBVIOUS
  <2> HIDE DEF In
  <2> QED
    BY <1>0, <2>1
<1>2. W = {}
  <2> SUFFICES ASSUME W # {} PROVE FALSE
    OBVIOUS
  <2>1. W \in SUBSET (SUBSET A)
    OBVIOUS
  <2> HIDE DEF W
  <2>2. PICK B \in W : \A R \in W : R \subseteq B => R = B
    BY <2>1, SmallestSet
  <2>3. B \in SUBSET A /\ Total(h, B) # Total(f, In(B))
    BY DEF W
  <2>4. B # {}
    <3>1. In({}) = {}
      OBVIOUS
    <3> HIDE DEF In
    <3> QED
      BY <2>3, <3>1, TotalOfNone
  <2>5. PICK a \in B : TRUE
    BY <2>4
  <2>6. PICK R : R = B \ {a} /\ R \in SUBSET A /\ R # B
    <3>1. B \ {a} \in SUBSET A /\ B \ {a} # B
      BY <2>3, <2>5
    <3> QED
      BY <3>1
  <2>7. R \notin W
    BY <2>2, <2>6
  <2>8. Total(h, R) = Total(f, In(R))
    BY <2>6, <2>7 DEF W
  <2>9. In(B) = In({a}) \cup In(R) /\ In({a}) \cap In(R) = {} /\ {a} \in SUBSET A /\ a \in A
        /\ \A x \in In({a}) \cup In(R) : f[x] \in Int
    BY <2>3, <2>5, <2>6
  <2> HIDE DEF In
  <2>10. Total(f, In(B)) = Total(f, In({a})) + Total(f, In(R))
    <3>1. PICK P, Q : P = In({a}) /\ Q = In(R)
      OBVIOUS
    <3>2. IsFiniteSet(P) /\ IsFiniteSet(Q) /\ P \cap Q = {} /\ (\A x \in P \cup Q : f[x] \in Int) /\ In(B) = P \cup Q
      BY <1>0, <2>6, <2>9, <3>1
    <3>3. Total(f, P \cup Q) = Total(f, P) + Total(f, Q)
      BY <3>2, TotalOfUnion
    <3> QED
      BY <3>1, <3>2, <3>3
  <2>11. Total(h, B) = h[a] + Total(h, R)
    <3>1. \A b \in B : h[b] \in Int
      BY <1>1, <2>3
    <3> QED
      BY <1>0, <2>3, <2>5, <2>6, <3>1, TotalOfMore
  <2>12. h[a] = Total(f, In({a}))
    BY <1>1, <2>9
  <2> QED
    BY <2>3, <2>8, <2>10, <2>11, <2>12
<1>3. In(A) = S
  OBVIOUS
<1>4. Total(h, A) = Total(f, In(A))
  BY <1>2
<1> QED
  BY <1>3, <1>4
=============================================================================
