----------------------------- MODULE OrderLemmas ----------------------------
(***************************************************************************)
(* What the other proofs need of the order of the natural numbers.  The    *)
(* induction principles of the library take an operator as a parameter;    *)
(* that the strict subsets of a finite set are well-founded does not, and  *)
(* it gives every set of natural numbers its least element.  From that     *)
(* follows what ORDER BY ... LIMIT n OFFSET k returns of a finite table,   *)
(* and that a sum over a finite set is defined and counts what it should.  *)
(***************************************************************************)
EXTENDS Integers, FiniteSets, FiniteSetTheorems, TLAPS

(* A set of natural numbers that is not empty has a least element.         *)
LEMMA LeastNumber ==
    ASSUME NEW T \in SUBSET Nat, T # {}
    PROVE  \E n \in T : \A m \in T : n <= m
<1>1. PICK k \in T : TRUE
  OBVIOUS
<1>. DEFINE S == 0 .. k
            R == StrictSubsetOrdering(S)
            X == {0 .. m : m \in {i \in T : i <= k}}
<1>2. IsFiniteSet(S)
  BY FS_Interval
<1>3. IsWellFoundedOn(R, SUBSET S)
  <2>1. FiniteSubsetsOf(S) = SUBSET S
    BY <1>2, FS_FiniteSubsetsOfFinite
  <2>2. IsWellFoundedOn(R, FiniteSubsetsOf(S))
    BY FS_StrictSubsetOrderingWellFounded
  <2>. QED BY <2>1, <2>2
<1>4. X \subseteq SUBSET S /\ X # {}
  OBVIOUS
<1>5. \E x \in X : \A y \in X : ~ (<<y, x>> \in R)
  <2>. HIDE DEF R, X, S
  <2>. QED BY <1>3, <1>4, WFMin
<1>6. PICK n \in T : n <= k /\ \A y \in X : ~ (<<y, 0 .. n>> \in R)
  BY <1>5
<1>7. ASSUME NEW m \in T, m < n PROVE FALSE
  <2>1. 0 .. m \in X
    BY <1>6, <1>7
  <2>2. n \in 0 .. n /\ n \notin 0 .. m
    BY <1>7
  <2>3. 0 .. m \subseteq 0 .. n /\ 0 .. m # 0 .. n
    BY <2>2, <1>7
  <2>4. <<0 .. m, 0 .. n>> \in R
    BY <2>3, <1>6, <1>7 DEF StrictSubsetOrdering
  <2>. QED BY <2>1, <2>4, <1>6
<1>. QED BY <1>7

(* One that is bounded has a greatest element.                             *)
LEMMA GreatestNumber ==
    ASSUME NEW T \in SUBSET Nat, T # {}, NEW b \in Nat, \A n \in T : n <= b
    PROVE  \E n \in T : \A m \in T : m <= n
<1>. DEFINE U == {b - n : n \in T}
<1>1. U \in SUBSET Nat /\ U # {}
  <2>1. \A n \in T : b - n \in Nat
    OBVIOUS
  <2>. QED BY <2>1
<1>2. PICK u \in U : \A v \in U : u <= v
  <2>. HIDE DEF U
  <2>. QED BY <1>1, LeastNumber
<1>3. PICK n \in T : u = b - n
  OBVIOUS
<1>4. \A m \in T : b - n <= b - m
  BY <1>2, <1>3
<1>. QED BY <1>4

(* A set in which any two elements are equal has at most one.              *)
LEMMA AtMostOne ==
    ASSUME NEW S, \A x, y \in S : x = y
    PROVE  IsFiniteSet(S) /\ Cardinality(S) <= 1
<1>1. CASE S = {}
  BY <1>1, FS_EmptySet
<1>2. CASE S # {}
  <2>1. PICK x \in S : TRUE
    BY <1>2
  <2>2. \A y \in S : y = x
    OBVIOUS
  <2>3. S = {x}
    BY <2>2
  <2>4. IsFiniteSet({x}) /\ Cardinality({x}) = 1
    BY FS_Singleton
  <2>. QED BY <2>3, <2>4
<1>. QED BY <1>1, <1>2

-----------------------------------------------------------------------------
(* Rows of a finite set S in an order R, a set of pairs.                   *)

Orders(R, S) ==
    /\ IsFiniteSet(S)
    /\ \A r \in S : <<r, r>> \notin R
    /\ \A r, s \in S : r = s \/ <<r, s>> \in R \/ <<s, r>> \in R
    /\ \A r, s, t \in S : <<r, s>> \in R /\ <<s, t>> \in R => <<r, t>> \in R

(* The rows before s, and how many they are.                               *)
Ahead(R, S, s) == {t \in S : <<t, s>> \in R}

Place(R, S, s) == Cardinality(Ahead(R, S, s))

(* ORDER BY R LIMIT n OFFSET k                                             *)
Cut(R, S, k, n) == {s \in S : k <= Place(R, S, s) /\ Place(R, S, s) < k + n}

(* A place is a number.                                                    *)
LEMMA PlaceType ==
    ASSUME NEW R, NEW S, IsFiniteSet(S), NEW s
    PROVE  IsFiniteSet(Ahead(R, S, s)) /\ Place(R, S, s) \in Nat
<1>1. Ahead(R, S, s) \in SUBSET S
  BY DEF Ahead
<1>. QED BY <1>1, FS_Subset, FS_CardinalityType DEF Place

(* It is below the number of rows.                                         *)
LEMMA PlaceIsBelowCount ==
    ASSUME NEW R, NEW S, Orders(R, S), NEW s \in S
    PROVE  Place(R, S, s) < Cardinality(S)
<1>1. Ahead(R, S, s) \in SUBSET S /\ s \notin Ahead(R, S, s)
  BY DEF Ahead, Orders
<1>2. /\ Place(R, S, s) <= Cardinality(S) /\ Place(R, S, s) # Cardinality(S)
      /\ Place(R, S, s) \in Nat /\ Cardinality(S) \in Nat
  BY <1>1, FS_Subset, FS_CardinalityType, PlaceType DEF Place, Orders
<1>. QED BY <1>2

(* Later rows have higher places.                                          *)
LEMMA PlacesAscend ==
    ASSUME NEW R, NEW S, Orders(R, S), NEW s \in S, NEW t \in S, <<t, s>> \in R
    PROVE  Place(R, S, t) < Place(R, S, s)
<1>1. Ahead(R, S, t) \cup {t} \in SUBSET Ahead(R, S, s) /\ t \notin Ahead(R, S, t)
  BY DEF Ahead, Orders
<1>2. /\ IsFiniteSet(Ahead(R, S, t) \cup {t})
      /\ Cardinality(Ahead(R, S, t) \cup {t}) = Place(R, S, t) + 1
  BY <1>1, PlaceType, FS_AddElement DEF Place, Orders
<1>3. Cardinality(Ahead(R, S, t) \cup {t}) <= Place(R, S, s)
  BY <1>1, PlaceType, FS_Subset DEF Place, Orders
<1>. QED BY <1>2, <1>3, PlaceType DEF Orders

(* A row before which more rows come is pushed back, never forward.        *)
LEMMA PlaceNeverShrinks ==
    ASSUME NEW Q, NEW R, NEW S, NEW T, IsFiniteSet(T), NEW s,
           Ahead(Q, S, s) \subseteq Ahead(R, T, s)
    PROVE  Place(Q, S, s) <= Place(R, T, s)
BY PlaceType, FS_Subset DEF Place

(* At most m rows have a place below m.                                    *)
LEMMA FirstRowsAtMost ==
    ASSUME NEW R, NEW S, Orders(R, S), NEW m \in Nat
    PROVE  LET T == {t \in S : Place(R, S, t) < m}
           IN  IsFiniteSet(T) /\ Cardinality(T) <= m /\ Cardinality(T) \in Nat
<1>. DEFINE T == {t \in S : Place(R, S, t) < m}
            f == [t \in T |-> Place(R, S, t)]
<1>1. IsFiniteSet(T) /\ Cardinality(T) \in Nat
  <2>1. T \in SUBSET S
    OBVIOUS
  <2>. HIDE DEF T
  <2>. QED BY <2>1, FS_Subset, FS_CardinalityType DEF Orders
<1>2. f \in [T -> 0 .. m - 1]
  BY PlaceType DEF Orders
<1>3. ASSUME NEW t \in T, NEW u \in T, f[t] = f[u] PROVE t = u
  <2>1. t \in S /\ u \in S /\ Place(R, S, t) = Place(R, S, u)
    BY <1>3
  <2>2. <<t, u>> \notin R /\ <<u, t>> \notin R
    BY <2>1, PlacesAscend, PlaceType DEF Orders
  <2>. QED BY <2>1, <2>2 DEF Orders
<1>4. f \in Injection(T, 0 .. m - 1)
  <2>1. DOMAIN f = T
    OBVIOUS
  <2>. HIDE DEF f, T
  <2>. QED BY <1>2, <1>3, <2>1 DEF Injection, IsInjective
<1>5. IsFiniteSet(0 .. m - 1) /\ Cardinality(0 .. m - 1) = m
  <2>1. 0 \in Int /\ m - 1 \in Int /\ (0 > m - 1 <=> m = 0)
    OBVIOUS
  <2>. QED BY <2>1, FS_Interval
<1>6. Cardinality(T) <= m
  <2>. HIDE DEF f, T
  <2>. QED BY <1>4, <1>5, FS_Injection
<1>. HIDE DEF T
<1>. QED BY <1>1, <1>6 DEF T

(* If some row comes after the first m, they are m rows.                   *)
LEMMA FirstRows ==
    ASSUME NEW R, NEW S, Orders(R, S), NEW m \in Nat, NEW s \in S, m <= Place(R, S, s)
    PROVE  LET T == {t \in S : Place(R, S, t) < m}
           IN  IsFiniteSet(T) /\ Cardinality(T) = m
<1>. DEFINE T == {t \in S : Place(R, S, t) < m}
            L == {t \in S : m <= Place(R, S, t)}
            P == {Place(R, S, t) : t \in L}
<1>0. \A t \in S : Place(R, S, t) \in Nat
  BY PlaceType DEF Orders
<1>1. IsFiniteSet(T) /\ Cardinality(T) \in Nat /\ Cardinality(T) <= m
  BY FirstRowsAtMost
<1>2. P \in SUBSET Nat /\ P # {}
  BY <1>0
<1>3. PICK l \in L : \A u \in L : Place(R, S, l) <= Place(R, S, u)
  <2>1. PICK n \in P : \A i \in P : n <= i
    <3>. HIDE DEF P
    <3>. QED BY <1>2, LeastNumber
  <2>. QED BY <2>1
<1>4. Ahead(R, S, l) \subseteq T
  <2>1. ASSUME NEW u \in Ahead(R, S, l) PROVE u \in T
    <3>1. u \in S /\ l \in S /\ Place(R, S, u) < Place(R, S, l)
      BY PlacesAscend DEF Ahead
    <3>2. u \notin L
      BY <1>0, <1>3, <3>1
    <3>. QED BY <1>0, <3>1, <3>2
  <2>. QED BY <2>1
<1>5. m <= Place(R, S, l) /\ Place(R, S, l) \in Nat
  BY <1>0
<1>. HIDE DEF T, L, P
<1>6. Place(R, S, l) <= Cardinality(T)
  BY <1>1, <1>4, FS_Subset DEF Place
<1>7. Cardinality(T) = m
  BY <1>1, <1>5, <1>6
<1>. QED BY <1>1, <1>7 DEF T

(* A page and the rows before it are all rows below its end.               *)
LEMMA CutSplits ==
    ASSUME NEW R, NEW S, Orders(R, S), NEW k \in Nat, NEW n \in Nat
    PROVE  LET A == {t \in S : Place(R, S, t) < k}
               B == {t \in S : Place(R, S, t) < k + n}
           IN  /\ Cut(R, S, k, n) = B \ A /\ A \subseteq B
               /\ IsFiniteSet(A) /\ IsFiniteSet(B)
               /\ Cardinality(Cut(R, S, k, n)) = Cardinality(B) - Cardinality(A)
<1>. DEFINE A == {t \in S : Place(R, S, t) < k}
            B == {t \in S : Place(R, S, t) < k + n}
<1>1. \A t \in S : Place(R, S, t) \in Nat
  BY PlaceType DEF Orders
<1>2. Cut(R, S, k, n) = B \ A /\ A \subseteq B /\ B \cap A = A
  BY <1>1 DEF Cut
<1>3. IsFiniteSet(A)
  BY FirstRowsAtMost
<1>4. IsFiniteSet(B)
  <2>1. k + n \in Nat
    OBVIOUS
  <2>. QED BY <2>1, FirstRowsAtMost
<1>5. Cardinality(B \ A) = Cardinality(B) - Cardinality(A)
  <2>. HIDE DEF A, B
  <2>. QED BY <1>2, <1>4, FS_Difference
<1>. QED BY <1>2, <1>3, <1>4, <1>5

(* A row from the offset on that a page does not hold comes after a full   *)
(* page.                                                                   *)
LEMMA RowAfterThePage ==
    ASSUME NEW R, NEW S, Orders(R, S), NEW k \in Nat, NEW n \in Nat,
           NEW s \in S, k <= Place(R, S, s), s \notin Cut(R, S, k, n)
    PROVE  Cardinality(Cut(R, S, k, n)) = n /\ k + n <= Place(R, S, s)
<1>1. k + n \in Nat /\ k + n <= Place(R, S, s)
  BY PlaceType DEF Cut, Orders
<1>. DEFINE A == {t \in S : Place(R, S, t) < k}
            B == {t \in S : Place(R, S, t) < k + n}
<1>2. Cardinality(A) = k
  BY FirstRows
<1>3. Cardinality(B) = k + n
  <2>. DEFINE m == k + n
  <2>1. m \in Nat /\ m <= Place(R, S, s)
    BY <1>1
  <2>. HIDE DEF m
  <2>2. Cardinality({t \in S : Place(R, S, t) < m}) = m
    BY <2>1, FirstRows
  <2>. QED BY <2>2 DEF m
<1>4. Cardinality(Cut(R, S, k, n)) = Cardinality(B) - Cardinality(A)
  BY CutSplits
<1>. HIDE DEF A, B
<1>. QED BY <1>1, <1>2, <1>3, <1>4

(* A page that is not empty ends within the table.                         *)
LEMMA PageFits ==
    ASSUME NEW R, NEW S, Orders(R, S), NEW k \in Nat, NEW n \in Nat,
           Cut(R, S, k, n) # {}
    PROVE  k + Cardinality(Cut(R, S, k, n)) <= Cardinality(S)
<1>. DEFINE B == {t \in S : Place(R, S, t) < k + n}
<1>1. PICK s \in S : k <= Place(R, S, s)
  BY DEF Cut
<1>2. Cardinality({t \in S : Place(R, S, t) < k}) = k
  BY <1>1, FirstRows
<1>3. Cardinality(Cut(R, S, k, n)) = Cardinality(B) - k
  BY <1>2, CutSplits
<1>4. Cardinality(B) <= Cardinality(S) /\ Cardinality(B) \in Nat /\ Cardinality(S) \in Nat
  <2>1. B \in SUBSET S
    OBVIOUS
  <2>. HIDE DEF B
  <2>. QED BY <2>1, FS_Subset, FS_CardinalityType DEF Orders
<1>. HIDE DEF B
<1>. QED BY <1>3, <1>4

(* The rows before a page and those of the page are the rows before the    *)
(* offset moved on by the length of the page.                              *)
LEMMA PagesAdd ==
    ASSUME NEW R, NEW S, Orders(R, S), NEW k \in Nat, NEW n \in Nat
    PROVE  LET A == {t \in S : Place(R, S, t) < k}
               P == Cut(R, S, k, n)
           IN  /\ A \cup P = {t \in S : Place(R, S, t) < k + Cardinality(P)}
               /\ Cardinality(A \cup P) = Cardinality(A) + Cardinality(P)
               /\ Cardinality(A) \in Nat /\ Cardinality(P) \in Nat
<1>. DEFINE A == {t \in S : Place(R, S, t) < k}
            B == {t \in S : Place(R, S, t) < k + n}
            P == Cut(R, S, k, n)
<1>1. /\ P = B \ A /\ A \subseteq B /\ IsFiniteSet(A) /\ IsFiniteSet(B)
      /\ Cardinality(P) = Cardinality(B) - Cardinality(A)
  <2>0. k + n \in Nat /\ \A t \in S : Place(R, S, t) \in Nat
    BY PlaceType DEF Orders
  <2>1. P = B \ A /\ A \subseteq B
    BY <2>0 DEF Cut
  <2>2. IsFiniteSet(A) /\ IsFiniteSet(B)
    BY <2>0, FirstRowsAtMost
  <2>3. Cardinality(P) = Cardinality(B) - Cardinality(A)
    BY CutSplits
  <2>. QED BY <2>1, <2>2, <2>3
<1>2. A \cup P = B
  BY <1>1
<1>3. Cardinality(A) \in Nat /\ Cardinality(B) \in Nat /\ Cardinality(P) \in Nat
  <2>. HIDE DEF A, B, P
  <2>1. IsFiniteSet(P)
    BY <1>1, FS_Difference
  <2>. QED BY <1>1, <2>1, FS_CardinalityType
<1>4. B = {t \in S : Place(R, S, t) < k + Cardinality(P)}
  <2>1. CASE Cardinality(P) = n
    BY <2>1
  <2>2. CASE Cardinality(P) # n
    <3>1. \A t \in S : k <= Place(R, S, t) => t \in P
      BY <2>2, RowAfterThePage
    <3>2. \A t \in S : Place(R, S, t) \in Nat
      BY PlaceType DEF Orders
    <3>3. B = S
      BY <3>1, <3>2, <1>1
    <3>4. Cardinality(A) <= k
      BY FirstRowsAtMost
    <3>5. \A t \in S : Place(R, S, t) < Cardinality(B)
      BY <3>3, PlaceIsBelowCount
    <3>6. \A t \in S : Place(R, S, t) < k + Cardinality(P)
      <4>. HIDE DEF A, B, P
      <4>. QED BY <1>1, <1>3, <3>2, <3>4, <3>5
    <3>. QED BY <3>3, <3>6
  <2>. QED BY <2>1, <2>2
<1>5. Cardinality(A \cup P) = Cardinality(A) + Cardinality(P)
  <2>1. Cardinality(A \cup P) = Cardinality(B)
    BY <1>2
  <2>. HIDE DEF A, B, P
  <2>. QED BY <1>1, <1>3, <2>1
<1>. QED BY <1>2, <1>3, <1>4, <1>5

-----------------------------------------------------------------------------
(* Sums over the elements of a finite set.                                 *)

(* A set is empty, or one element less leaves one number less.             *)
LEMMA OneLess ==
    ASSUME NEW T, IsFiniteSet(T), NEW x \in T
    PROVE  /\ T \ {x} \in SUBSET T /\ IsFiniteSet(T \ {x})
           /\ Cardinality(T) \in Nat \ {0} /\ Cardinality(T \ {x}) \in Nat
           /\ Cardinality(T \ {x}) = Cardinality(T) - 1
<1>1. IsFiniteSet(T \ {x}) /\ Cardinality(T \ {x}) = Cardinality(T) - 1
  BY FS_RemoveElement
<1>2. Cardinality(T) \in Nat /\ Cardinality(T \ {x}) \in Nat
  BY <1>1, FS_CardinalityType
<1>. QED BY <1>1, <1>2

(* g sums c over the subsets of S, of which h takes out one element after  *)
(* the other.                                                              *)
Sums(g, S, h, c) ==
    g = [T \in SUBSET S |-> IF T = {} THEN 0 ELSE c[h[T]] + g[T \ {h[T]}]]

(* Over a finite set there is such a function: if it may be defined on the *)
(* subsets below a size, it may be on those of that size.                  *)
LEMMA SumIsDefined ==
    ASSUME NEW S, IsFiniteSet(S), NEW h, NEW c, \A T \in (SUBSET S) \ {{}} : h[T] \in T
    PROVE  \E g : Sums(g, S, h, c)
<1>. DEFINE D(n) == {T \in SUBSET S : Cardinality(T) <= n}
            Fits(g, n) == g = [T \in D(n) |-> IF T = {} THEN 0 ELSE c[h[T]] + g[T \ {h[T]}]]
            Bad == {n \in Nat : \A g : ~Fits(g, n)}
<1>1. ASSUME NEW T \in SUBSET S
      PROVE  /\ IsFiniteSet(T) /\ Cardinality(T) \in Nat
             /\ Cardinality(T) = 0 <=> T = {}
             /\ T # {} => /\ T \ {h[T]} \in SUBSET S
                          /\ Cardinality(T \ {h[T]}) \in Nat
                          /\ Cardinality(T \ {h[T]}) = Cardinality(T) - 1
  <2>1. IsFiniteSet(T)
    BY FS_Subset
  <2>2. Cardinality(T) \in Nat /\ (Cardinality(T) = 0 <=> T = {})
    BY <2>1, FS_CardinalityType, FS_EmptySet
  <2>3. ASSUME T # {}
        PROVE  /\ T \ {h[T]} \in SUBSET S /\ Cardinality(T \ {h[T]}) \in Nat
               /\ Cardinality(T \ {h[T]}) = Cardinality(T) - 1
    <3>1. h[T] \in T
      BY <2>3
    <3>. QED BY <2>1, <3>1, OneLess
  <2>. QED BY <2>1, <2>2, <2>3
<1>2. ASSUME NEW n \in Nat, n \in Bad, \A m \in Bad : n <= m PROVE FALSE
  <2>1. CASE n = 0
    <3>1. ASSUME NEW T \in D(0) PROVE T = {}
      <4>1. T \in SUBSET S /\ Cardinality(T) <= 0
        OBVIOUS
      <4>2. Cardinality(T) \in Nat /\ (Cardinality(T) = 0 <=> T = {})
        BY <1>1, <4>1
      <4>. QED BY <4>1, <4>2
    <3>. DEFINE g == [T \in D(0) |-> 0]
    <3>2. g = [T \in D(0) |-> IF T = {} THEN 0 ELSE c[h[T]] + g[T \ {h[T]}]]
      <4>. HIDE DEF D
      <4>. QED BY <3>1
    <3>3. Fits(g, 0)
      BY <3>2
    <3>. QED BY <1>2, <2>1, <3>3
  <2>2. CASE n # 0
    <3>1. n - 1 \in Nat /\ n - 1 \notin Bad
      <4>. HIDE DEF Bad
      <4>. QED BY <1>2, <2>2
    <3>2. PICK f : Fits(f, n - 1)
      BY <3>1
    <3>. DEFINE g == [T \in D(n) |-> IF T = {} THEN 0 ELSE c[h[T]] + f[T \ {h[T]}]]
    <3>3. ASSUME NEW T \in D(n), T # {} PROVE g[T \ {h[T]}] = f[T \ {h[T]}]
      <4>. DEFINE U == T \ {h[T]}
      <4>1. U \in D(n - 1) /\ U \in D(n)
        <5>1. T \in SUBSET S /\ Cardinality(T) <= n
          OBVIOUS
        <5>2. /\ U \in SUBSET S /\ Cardinality(U) \in Nat /\ Cardinality(T) \in Nat
              /\ Cardinality(U) = Cardinality(T) - 1
          BY <1>1, <3>3, <5>1
        <5>3. Cardinality(U) <= n - 1 /\ Cardinality(U) <= n
          <6>. HIDE DEF U
          <6>. QED BY <5>1, <5>2
        <5>. HIDE DEF U
        <5>. QED BY <5>2, <5>3
      <4>2. g[U] = IF U = {} THEN 0 ELSE c[h[U]] + f[U \ {h[U]}]
        BY <4>1
      <4>3. f[U] = IF U = {} THEN 0 ELSE c[h[U]] + f[U \ {h[U]}]
        <5>. HIDE DEF U, D
        <5>. QED BY <3>2, <4>1
      <4>. QED BY <4>2, <4>3
    <3>4. g = [T \in D(n) |-> IF T = {} THEN 0 ELSE c[h[T]] + g[T \ {h[T]}]]
      <4>. DEFINE G == g
      <4>1. \A T \in D(n) : (IF T = {} THEN 0 ELSE c[h[T]] + f[T \ {h[T]}])
                              = IF T = {} THEN 0 ELSE c[h[T]] + G[T \ {h[T]}]
        <5>. HIDE DEF G, D
        <5>. QED BY <3>3 DEF G
      <4>2. G = [T \in D(n) |-> IF T = {} THEN 0 ELSE c[h[T]] + f[T \ {h[T]}]]
        OBVIOUS
      <4>. HIDE DEF G, D
      <4>3. G = [T \in D(n) |-> IF T = {} THEN 0 ELSE c[h[T]] + G[T \ {h[T]}]]
        BY <4>1, <4>2
      <4>. QED BY <4>3 DEF G
    <3>5. Fits(g, n)
      BY <3>4
    <3>. QED BY <1>2, <3>5
  <2>. QED BY <2>1, <2>2
<1>3. Bad = {}
  <2>1. Bad \in SUBSET Nat
    OBVIOUS
  <2>2. Bad # {} => \E n \in Bad : \A m \in Bad : n <= m
    <3>. HIDE DEF Bad
    <3>. QED BY <2>1, LeastNumber
  <2>. HIDE DEF Bad
  <2>. QED BY <1>2, <2>1, <2>2
<1>4. Cardinality(S) \in Nat /\ \A T \in SUBSET S : Cardinality(T) <= Cardinality(S)
  BY FS_CardinalityType, FS_Subset
<1>5. D(Cardinality(S)) = SUBSET S
  BY <1>4
<1>6. PICK g : Fits(g, Cardinality(S))
  <2>1. Cardinality(S) \notin Bad
    <3>. HIDE DEF Bad
    <3>. QED BY <1>3
  <2>. QED BY <1>4, <2>1
<1>7. g = [T \in SUBSET S |-> IF T = {} THEN 0 ELSE c[h[T]] + g[T \ {h[T]}]]
  <2>. HIDE DEF D
  <2>. QED BY <1>5, <1>6
<1>. QED BY <1>7 DEF Sums

(* The sets p[x], one for each x in S, are the parts of R.                 *)
Splits(p, S, R) ==
    /\ \A x \in S : p[x] \in SUBSET R
    /\ \A x, y \in S : x # y => p[x] \cap p[y] = {}
    /\ \A r \in R : \E x \in S : r \in p[x]

(* The sizes of the parts add up to that of the set.                       *)
LEMMA SumOfParts ==
    ASSUME NEW S, IsFiniteSet(S), NEW R, IsFiniteSet(R), NEW p, Splits(p, S, R),
           NEW g, NEW h, NEW c, Sums(g, S, h, c),
           \A T \in (SUBSET S) \ {{}} : h[T] \in T,
           \A x \in S : c[x] = Cardinality(p[x])
    PROVE  g[S] = Cardinality(R)
<1>. DEFINE Part(T) == {r \in R : \E x \in T : r \in p[x]}
            Bad == {T \in SUBSET S : g[T] # Cardinality(Part(T))}
            Sizes == {Cardinality(T) : T \in Bad}
<1>1. ASSUME NEW T \in SUBSET S PROVE IsFiniteSet(T) /\ Cardinality(T) \in Nat
  BY FS_Subset, FS_CardinalityType
<1>2. ASSUME NEW T \in Bad, \A U \in Bad : Cardinality(T) <= Cardinality(U) PROVE FALSE
  <2>1. CASE T = {}
    <3>1. g[T] = 0
      BY <2>1 DEF Sums
    <3>2. Part(T) = {}
      BY <2>1
    <3>. QED BY <1>2, <3>1, <3>2, FS_EmptySet
  <2>2. CASE T # {}
    <3>. DEFINE x == h[T]
                U == T \ {x}
    <3>1. T \in SUBSET S /\ x \in T /\ U \in SUBSET S
      BY <2>2
    <3>2. /\ Cardinality(U) = Cardinality(T) - 1
          /\ Cardinality(U) \in Nat /\ Cardinality(T) \in Nat
      <4>. HIDE DEF x
      <4>. QED BY <1>1, <3>1, OneLess
    <3>3. U \notin Bad
      <4>. HIDE DEF Bad, U
      <4>. QED BY <1>2, <3>2
    <3>4. g[U] = Cardinality(Part(U))
      BY <3>1, <3>3
    <3>5. g[T] = Cardinality(p[x]) + g[U]
      <4>1. g[T] = c[x] + g[U]
        BY <2>2, <3>1 DEF Sums
      <4>2. c[x] = Cardinality(p[x])
        BY <3>1
      <4>. QED BY <4>1, <4>2
    <3>6. /\ Part(T) = Part(U) \cup p[x] /\ Part(U) \cap p[x] = {}
          /\ Part(U) \in SUBSET R /\ p[x] \in SUBSET R
      <4>. HIDE DEF x
      <4>. QED BY <3>1 DEF Splits
    <3>7. Cardinality(Part(T)) = Cardinality(Part(U)) + Cardinality(p[x])
      <4>. DEFINE A == Part(U)
                  B == p[x]
      <4>1. IsFiniteSet(A) /\ IsFiniteSet(B) /\ A \cap B = {}
        <5>. HIDE DEF Part, x
        <5>. QED BY <3>6, FS_Subset
      <4>. HIDE DEF A, B
      <4>2. /\ Cardinality(A \cap B) = 0
            /\ Cardinality(A) \in Nat /\ Cardinality(B) \in Nat
        BY <4>1, FS_EmptySet, FS_CardinalityType
      <4>3. Cardinality(A \cup B) = Cardinality(A) + Cardinality(B)
        <5>1. Cardinality(A \cup B) = Cardinality(A) + Cardinality(B) - Cardinality(A \cap B)
          BY <4>1, FS_Union
        <5>. QED BY <4>2, <5>1
      <4>. QED BY <3>6, <4>3 DEF A, B
    <3>8. Cardinality(Part(U)) \in Nat /\ Cardinality(p[x]) \in Nat
      <4>. HIDE DEF Part, x
      <4>. QED BY <3>6, FS_Subset, FS_CardinalityType
    <3>9. g[T] = Cardinality(Part(T))
      <4>. HIDE DEF Part, x, U
      <4>. QED BY <3>4, <3>5, <3>7, <3>8
    <3>. QED BY <3>9
  <2>. QED BY <2>1, <2>2
<1>3. Bad = {}
  <2>1. Sizes \in SUBSET Nat
    <3>1. \A T \in Bad : Cardinality(T) \in Nat
      BY <1>1
    <3>. HIDE DEF Bad
    <3>. QED BY <3>1
  <2>2. Sizes # {} => \E n \in Sizes : \A m \in Sizes : n <= m
    <3>. HIDE DEF Sizes
    <3>. QED BY <2>1, LeastNumber
  <2>. HIDE DEF Bad
  <2>. QED BY <1>2, <2>2
<1>4. S \notin Bad
  BY <1>3
<1>5. Part(S) = R
  BY DEF Splits
<1>. QED BY <1>4, <1>5
=============================================================================
