--------------------------- MODULE DetectionProofs --------------------------
(***************************************************************************)
(* The test of a host against the allowlist agrees with the tree of domain *)
(* names, for every allowlist and every host; so, with one agent, a request *)
(* behind the cursor has the alert it should have and no other, for any    *)
(* number of runners, events and failures.                                 *)
(***************************************************************************)
EXTENDS DetectedAnalysis, AnalysisProofs, SequenceTheorems

-----------------------------------------------------------------------------
(* Cutting a text.                                                         *)

Ascending(C) == {j \in C \X C : j[1] < j[2]}

(* Numbers are ordered.                                                    *)
LEMMA NumbersAscend ==
    ASSUME NEW C \in SUBSET Nat, IsFiniteSet(C)
    PROVE  /\ Orders(Ascending(C), C)
           /\ \A i \in C : Place(Ascending(C), C, i) = Cardinality({j \in C : j < i})
<1>1. \A i, j \in C : <<i, j>> \in Ascending(C) <=> i < j
  BY DEF Ascending
<1>. HIDE DEF Ascending
<1>2. Orders(Ascending(C), C)
  BY <1>1 DEF Orders
<1>3. ASSUME NEW i \in C PROVE Ahead(Ascending(C), C, i) = {j \in C : j < i}
  BY <1>1 DEF Ahead
<1>. QED BY <1>2, <1>3 DEF Place

(* Cuts are numbered in ascending order, without a gap.                    *)
LEMMA NthCuts ==
    ASSUME NEW C \in SUBSET Nat, IsFiniteSet(C)
    PROVE  /\ Cardinality(C) \in Nat
           /\ \A k \in 0 .. Cardinality(C) - 1 : NthCut(C, k) \in C
           /\ \A j, k \in 0 .. Cardinality(C) - 1 : j < k => NthCut(C, j) < NthCut(C, k)
           /\ \A i \in C : \E k \in 0 .. Cardinality(C) - 1 : NthCut(C, k) = i
<1>. DEFINE R == Ascending(C)
            n == Cardinality(C)
<1>1. Orders(R, C) /\ \A i \in C : Place(R, C, i) = Cardinality({j \in C : j < i})
  BY NumbersAscend
<1>2. n \in Nat /\ \A i \in C : Place(R, C, i) \in 0 .. n - 1
  <2>. HIDE DEF R
  <2>1. n \in Nat /\ \A i \in C : Place(R, C, i) \in Nat /\ Place(R, C, i) < Cardinality(C)
    BY <1>1, PlaceType, PlaceIsBelowCount, FS_CardinalityType
  <2>. QED BY <2>1
<1>3. \A k : NthCut(C, k) = CHOOSE i \in C : Place(R, C, i) = k
  BY <1>1 DEF NthCut
<1>. HIDE DEF R, n
<1>4. ASSUME NEW i \in C, NEW j \in C, Place(R, C, i) < Place(R, C, j) PROVE i < j
  <2>1. <<j, i>> \notin R /\ i # j
    BY <1>1, <1>2, <1>4, PlacesAscend
  <2>2. <<i, j>> \in R
    BY <1>1, <2>1 DEF Orders
  <2>. QED BY <2>2 DEF R, Ascending
<1>5. ASSUME NEW k \in 0 .. n - 1 PROVE \E i \in C : Place(R, C, i) = k
  <2>1. PICK i \in C : k <= Place(R, C, i)
    <3>. DEFINE T == {t \in C : Place(R, C, t) < k}
    <3>0. k \in Nat /\ k < n
      BY <1>2, <1>5
    <3>1. Cardinality(T) <= k /\ Cardinality(T) \in Nat
      BY <1>1, <3>0, FirstRowsAtMost
    <3>2. T # C
      <4>. HIDE DEF T
      <4>. QED BY <1>2, <3>0, <3>1 DEF n
    <3>3. \E i \in C : ~ Place(R, C, i) < k
      BY <3>2
    <3>. QED BY <1>2, <3>0, <3>3
  <2>2. Cut(R, C, k, 1) # {}
    <3>1. i \in Cut(R, C, k, 1) \/ Cardinality(Cut(R, C, k, 1)) = 1
      BY <1>1, <2>1, RowAfterThePage
    <3>. QED BY <3>1, FS_EmptySet
  <2>3. PICK j \in C : k <= Place(R, C, j) /\ Place(R, C, j) < k + 1
    BY <2>2 DEF Cut
  <2>4. k \in Int /\ Place(R, C, j) \in Int
    BY <1>2
  <2>. QED BY <2>3, <2>4
<1>6. \A k \in 0 .. n - 1 : NthCut(C, k) \in C /\ Place(R, C, NthCut(C, k)) = k
  BY <1>3, <1>5
<1>7. ASSUME NEW j \in 0 .. n - 1, NEW k \in 0 .. n - 1, j < k PROVE NthCut(C, j) < NthCut(C, k)
  <2>. DEFINE x == NthCut(C, j)
              y == NthCut(C, k)
  <2>1. x \in C /\ y \in C /\ Place(R, C, x) < Place(R, C, y)
    BY <1>6, <1>7
  <2>. HIDE DEF x, y
  <2>2. x < y
    BY <1>4, <2>1
  <2>. QED BY <2>2 DEF x, y
<1>8. ASSUME NEW i \in C PROVE \E k \in 0 .. n - 1 : NthCut(C, k) = i
  <2>1. PICK k \in 0 .. n - 1 : Place(R, C, i) = k
    BY <1>2
  <2>2. NthCut(C, k) \in C /\ Place(R, C, NthCut(C, k)) = Place(R, C, i)
    BY <1>6, <2>1
  <2>3. ~ NthCut(C, k) < i /\ ~ i < NthCut(C, k)
    <3>1. /\ <<i, NthCut(C, k)>> \notin R /\ <<NthCut(C, k), i>> \notin R
      BY <1>1, <1>2, <2>2, PlacesAscend
    <3>. QED BY <2>2, <3>1 DEF R, Ascending
  <2>4. i \in Nat /\ NthCut(C, k) \in Nat
    BY <2>2
  <2>. QED BY <2>3, <2>4
<1>. QED BY <1>2, <1>6, <1>7, <1>8 DEF n

(* A text is cut in front, behind and at its separators.                   *)
LEMMA CutsType ==
    ASSUME NEW F, NEW t \in Seq(F), NEW sep
    PROVE  LET C == Cuts(t, sep)
               n == Cardinality(C)
           IN  /\ C \in SUBSET Nat /\ IsFiniteSet(C)
               /\ n \in Nat /\ n >= 2
               /\ \A i \in C : i \in 0 .. Len(t) + 1
               /\ \A k \in 0 .. n - 1 : NthCut(C, k) \in C
               /\ \A j, k \in 0 .. n - 1 : j < k => NthCut(C, j) < NthCut(C, k)
               /\ \A i \in C : \E k \in 0 .. n - 1 : NthCut(C, k) = i
               /\ NthCut(C, 0) = 0 /\ NthCut(C, n - 1) = Len(t) + 1
<1>. DEFINE C == Cuts(t, sep)
            n == Cardinality(C)
<1>1. Len(t) \in Nat /\ DOMAIN t = 1 .. Len(t)
  OBVIOUS
<1>2. C \in SUBSET (0 .. Len(t) + 1) /\ 0 \in C /\ Len(t) + 1 \in C
  BY <1>1 DEF Cuts
<1>. HIDE DEF C
<1>3. IsFiniteSet(C) /\ C \in SUBSET Nat
  <2>. DEFINE I == 0 .. Len(t) + 1
  <2>1. IsFiniteSet(I) /\ I \in SUBSET Nat
    BY <1>1, FS_Interval
  <2>2. C \in SUBSET I
    BY <1>2
  <2>. HIDE DEF I
  <2>. QED BY <2>1, <2>2, FS_Subset
<1>4. /\ n \in Nat
      /\ \A k \in 0 .. n - 1 : NthCut(C, k) \in C
      /\ \A j, k \in 0 .. n - 1 : j < k => NthCut(C, j) < NthCut(C, k)
      /\ \A i \in C : \E k \in 0 .. n - 1 : NthCut(C, k) = i
  BY <1>3, NthCuts
<1>. HIDE DEF n
<1>5. PICK a \in 0 .. n - 1 : NthCut(C, a) = 0
  BY <1>2, <1>4
<1>6. PICK z \in 0 .. n - 1 : NthCut(C, z) = Len(t) + 1
  BY <1>2, <1>4
<1>7. n >= 2
  BY <1>1, <1>4, <1>5, <1>6
<1>8. \A k \in 0 .. n - 1 : NthCut(C, k) \in 0 .. Len(t) + 1
  BY <1>2, <1>4
<1>9. a = 0
  <2>. SUFFICES ASSUME a # 0 PROVE FALSE
    OBVIOUS
  <2>1. 0 \in 0 .. n - 1 /\ 0 < a
    BY <1>4
  <2>2. NthCut(C, 0) < NthCut(C, a) /\ NthCut(C, 0) \in 0 .. Len(t) + 1
    BY <1>4, <1>8, <2>1
  <2>. QED BY <1>5, <2>2
<1>10. z = n - 1
  <2>. SUFFICES ASSUME z # n - 1 PROVE FALSE
    OBVIOUS
  <2>. DEFINE y == n - 1
  <2>1. y \in 0 .. n - 1 /\ z < y
    BY <1>4
  <2>. HIDE DEF y
  <2>2. NthCut(C, z) < NthCut(C, y) /\ NthCut(C, y) \in 0 .. Len(t) + 1
    BY <1>4, <1>8, <2>1
  <2>. QED BY <1>1, <1>6, <2>2
<1>. QED BY <1>2, <1>3, <1>4, <1>5, <1>6, <1>7, <1>9, <1>10 DEF C, n

(* Cuts and their numbers grow together.                                   *)
LEMMA CutOrder ==
    ASSUME NEW F, NEW t \in Seq(F), NEW sep,
           NEW j \in 0 .. Cardinality(Cuts(t, sep)) - 1,
           NEW k \in 0 .. Cardinality(Cuts(t, sep)) - 1
    PROVE  /\ NthCut(Cuts(t, sep), j) \in 0 .. Len(t) + 1
           /\ NthCut(Cuts(t, sep), k) \in 0 .. Len(t) + 1
           /\ j <= k <=> NthCut(Cuts(t, sep), j) <= NthCut(Cuts(t, sep), k)
           /\ j < k <=> NthCut(Cuts(t, sep), j) < NthCut(Cuts(t, sep), k)
<1>. DEFINE n == Cardinality(Cuts(t, sep))
            x == NthCut(Cuts(t, sep), j)
            y == NthCut(Cuts(t, sep), k)
<1>1. /\ n \in Nat /\ j \in 0 .. n - 1 /\ k \in 0 .. n - 1
      /\ x \in 0 .. Len(t) + 1 /\ y \in 0 .. Len(t) + 1
      /\ j < k => x < y
      /\ k < j => y < x
  BY CutsType
<1>2. j = k => x = y
  OBVIOUS
<1>3. Len(t) \in Nat
  OBVIOUS
<1>. HIDE DEF n, x, y
<1>4. j <= k <=> x <= y
  BY <1>1, <1>2, <1>3
<1>5. j < k <=> x < y
  BY <1>1, <1>2, <1>3
<1>. QED BY <1>1, <1>4, <1>5 DEF x, y

(* A part of a text.                                                       *)
LEMMA PartType ==
    ASSUME NEW F, NEW t \in Seq(F), NEW sep, NEW k \in 1 .. Cardinality(Cuts(t, sep)) - 1
    PROVE  LET x == NthCut(Cuts(t, sep), k - 1)
               y == NthCut(Cuts(t, sep), k)
               part == Parts(t, sep)[k]
           IN  /\ x \in 0 .. Len(t) + 1 /\ y \in 0 .. Len(t) + 1 /\ x < y
               /\ part \in Seq(F) /\ Len(part) = y - x - 1
               /\ \A i \in 1 .. y - x - 1 : part[i] = t[x + i]
<1>. DEFINE C == Cuts(t, sep)
            n == Cardinality(C)
            P == Parts(t, sep)
            x == NthCut(C, k - 1)
            y == NthCut(C, k)
<1>1. k - 1 \in 0 .. n - 1 /\ k \in 0 .. n - 1 /\ k - 1 < k
  BY CutsType
<1>2. x \in 0 .. Len(t) + 1 /\ y \in 0 .. Len(t) + 1 /\ x < y
  <2>. DEFINE l == k - 1
  <2>1. l \in 0 .. n - 1 /\ l < k
    BY <1>1
  <2>. HIDE DEF l
  <2>2. NthCut(C, l) \in 0 .. Len(t) + 1 /\ y \in 0 .. Len(t) + 1 /\ NthCut(C, l) < y
    BY <1>1, <2>1, CutOrder
  <2>. QED BY <2>2 DEF l
<1>3. P[k] = SubSeq(t, x + 1, y - 1)
  BY DEF Parts
<1>. HIDE DEF x, y, P
<1>4. Len(t) \in Nat /\ \A i \in 1 .. Len(t) : t[i] \in F
  OBVIOUS
<1>. DEFINE a == x + 1
            b == y - 1
<1>5. a \in Int /\ b \in Int /\ b - a + 1 = y - x - 1 /\ y - x - 1 >= 0
      /\ \A i \in a .. b : t[i] \in F
  BY <1>2, <1>4
<1>6. /\ SubSeq(t, a, b) \in Seq(F)
      /\ Len(SubSeq(t, a, b)) = IF a <= b THEN b - a + 1 ELSE 0
      /\ \A i \in 1 .. b - a + 1 : SubSeq(t, a, b)[i] = t[a + i - 1]
  <2>. HIDE DEF a, b
  <2>. QED BY <1>5, SubSeqProperties
<1>7. Len(SubSeq(t, a, b)) = y - x - 1
  BY <1>2, <1>5, <1>6
<1>8. \A i \in 1 .. y - x - 1 : SubSeq(t, a, b)[i] = t[x + i]
  <2>1. \A i \in 1 .. y - x - 1 : a + i - 1 = x + i
    BY <1>2
  <2>. QED BY <1>5, <1>6, <2>1
<1>9. P[k] \in Seq(F) /\ Len(P[k]) = y - x - 1 /\ \A i \in 1 .. y - x - 1 : P[k][i] = t[x + i]
  BY <1>3, <1>6, <1>7, <1>8
<1>. QED BY <1>2, <1>9 DEF x, y, P

(* A text has one part less than it has cuts.                              *)
LEMMA PartsType ==
    ASSUME NEW F, NEW t \in Seq(F), NEW sep
    PROVE  /\ Parts(t, sep) \in Seq(Seq(F))
           /\ Len(Parts(t, sep)) = Cardinality(Cuts(t, sep)) - 1
<1>. DEFINE C == Cuts(t, sep)
            m == Cardinality(C) - 1
            P == Parts(t, sep)
<1>1. m \in Nat
  BY CutsType
<1>2. P = [k \in 1 .. m |-> SubSeq(t, NthCut(C, k - 1) + 1, NthCut(C, k) - 1)]
  BY DEF Parts
<1>3. \A k \in 1 .. m : P[k] \in Seq(F)
  BY PartType
<1>4. P \in [1 .. m -> Seq(F)]
  BY <1>2, <1>3
<1>. HIDE DEF m, P
<1>5. P \in Seq(Seq(F)) /\ Len(P) = m
  BY <1>1, <1>4
<1>. QED BY <1>5 DEF m, P

(* A suffix, element by element.                                           *)
LEMMA SuffixMeans ==
    ASSUME NEW F, NEW s \in Seq(F), NEW t \in Seq(F)
    PROVE  IsSuffix(s, t) <=>
              Len(s) <= Len(t) /\ \A i \in 1 .. Len(s) : s[i] = t[Len(t) - Len(s) + i]
<1>. DEFINE u == Reverse(s)
            v == Reverse(t)
            n == Len(s)
            m == Len(t)
<1>1. n \in Nat /\ m \in Nat
  OBVIOUS
<1>2. /\ u \in Seq(F) /\ Len(u) = n /\ \A i \in 1 .. n : u[i] = s[n - i + 1]
      /\ v \in Seq(F) /\ Len(v) = m /\ \A i \in 1 .. m : v[i] = t[m - i + 1]
  BY <1>1 DEF Reverse
<1>. HIDE DEF u, v, n, m
<1>3. IsSuffix(s, t) <=> n <= m /\ SubSeq(u, 1, n) = SubSeq(v, 1, n)
  BY <1>2 DEF IsSuffix, IsPrefix, u, v
<1>4. ASSUME n <= m
      PROVE  SubSeq(u, 1, n) = SubSeq(v, 1, n) <=> \A i \in 1 .. n : u[i] = v[i]
  <2>1. /\ SubSeq(u, 1, n) \in Seq(F) /\ Len(SubSeq(u, 1, n)) = n
        /\ \A i \in 1 .. n : SubSeq(u, 1, n)[i] = u[i]
    BY <1>1, <1>2, <1>4
  <2>2. /\ SubSeq(v, 1, n) \in Seq(F) /\ Len(SubSeq(v, 1, n)) = n
        /\ \A i \in 1 .. n : SubSeq(v, 1, n)[i] = v[i]
    BY <1>1, <1>2, <1>4
  <2>. QED BY <2>1, <2>2
<1>5. ASSUME n <= m
      PROVE  (\A i \in 1 .. n : u[i] = v[i]) <=> \A i \in 1 .. n : s[i] = t[m - n + i]
  <2>1. \A i \in 1 .. n : /\ n - i + 1 \in 1 .. n /\ n - (n - i + 1) + 1 = i
                          /\ m - (n - i + 1) + 1 = m - n + i /\ i \in 1 .. m
                          /\ m - n + (n - i + 1) = m - i + 1
    BY <1>1, <1>5
  <2>2. ASSUME \A i \in 1 .. n : u[i] = v[i], NEW i \in 1 .. n PROVE s[i] = t[m - n + i]
    <3>. DEFINE j == n - i + 1
    <3>1. j \in 1 .. n /\ j \in 1 .. m /\ n - j + 1 = i /\ m - j + 1 = m - n + i
      BY <2>1
    <3>. HIDE DEF j
    <3>. QED BY <1>2, <2>2, <3>1
  <2>3. ASSUME \A i \in 1 .. n : s[i] = t[m - n + i], NEW i \in 1 .. n PROVE u[i] = v[i]
    <3>. DEFINE j == n - i + 1
    <3>1. j \in 1 .. n /\ i \in 1 .. m /\ m - n + j = m - i + 1
      BY <2>1
    <3>2. u[i] = s[j] /\ v[i] = t[m - i + 1]
      BY <1>2, <3>1
    <3>. HIDE DEF j
    <3>. QED BY <2>3, <3>1, <3>2
  <2>. QED BY <2>2, <2>3
<1>. QED BY <1>3, <1>4, <1>5 DEF n, m

(* Where a text is cut.                                                    *)
LEMMA CutsMean ==
    ASSUME NEW F, NEW t \in Seq(F), NEW sep, NEW x \in 0 .. Len(t) + 1
    PROVE  x \in Cuts(t, sep) <=> x = 0 \/ x = Len(t) + 1 \/ t[x] = sep
<1>1. Len(t) \in Nat /\ DOMAIN t = 1 .. Len(t)
  OBVIOUS
<1>2. x = 0 \/ x = Len(t) + 1 \/ (x # 0 /\ x # Len(t) + 1 /\ x \in DOMAIN t)
  BY <1>1
<1>. QED BY <1>2 DEF Cuts

(* The last cuts of h are those of e, moved to where its tail begins.      *)
Aligned(e, h, sep) ==
    LET n == Cardinality(Cuts(h, sep))
        m == Cardinality(Cuts(e, sep))
    IN  /\ m <= n
        /\ \A j \in 0 .. m - 1 :
             NthCut(Cuts(h, sep), n - m + j) = Len(h) - Len(e) + NthCut(Cuts(e, sep), j)

(* h ends with e, which begins it or follows a separator.                  *)
EndsWith(e, h, sep) ==
    LET b == Len(h) - Len(e)
    IN  /\ 0 <= b /\ \A i \in 1 .. Len(e) : e[i] = h[b + i]
        /\ b = 0 \/ h[b] = sep

(* A tail is cut where the text is.                                        *)
LEMMA TailIsAligned ==
    ASSUME NEW F, NEW e \in Seq(F), NEW h \in Seq(F), NEW sep, EndsWith(e, h, sep)
    PROVE  Aligned(e, h, sep)
<1>. DEFINE C == Cuts(h, sep)
            D == Cuts(e, sep)
            n == Cardinality(C)
            m == Cardinality(D)
            b == Len(h) - Len(e)
            Fits(i) == i <= n - 1 /\ NthCut(C, n - 1 - i) = b + NthCut(D, m - 1 - i)
            Bad == {i \in 0 .. m - 1 : ~ Fits(i)}
<1>1. /\ Len(e) \in Nat /\ Len(h) \in Nat /\ b \in Nat /\ Len(h) = b + Len(e)
      /\ \A i \in 1 .. Len(e) : e[i] = h[b + i]
      /\ b = 0 \/ h[b] = sep
  BY DEF EndsWith
<1>2. /\ n \in Nat /\ n >= 2 /\ m \in Nat /\ m >= 2
      /\ \A k \in 0 .. n - 1 : NthCut(C, k) \in C
      /\ \A k \in 0 .. m - 1 : NthCut(D, k) \in D
      /\ \A x \in C : \E k \in 0 .. n - 1 : NthCut(C, k) = x
      /\ \A x \in D : \E k \in 0 .. m - 1 : NthCut(D, k) = x
      /\ NthCut(C, n - 1) = Len(h) + 1 /\ NthCut(D, m - 1) = Len(e) + 1
  BY CutsType
<1>3. \A x \in 0 .. Len(e) + 1 : x \in D <=> b + x \in C
  <2>. SUFFICES ASSUME NEW x \in 0 .. Len(e) + 1 PROVE x \in D <=> b + x \in C
    OBVIOUS
  <2>1. x \in D <=> x = 0 \/ x = Len(e) + 1 \/ e[x] = sep
    BY CutsMean
  <2>2. b + x \in C <=> b + x = 0 \/ b + x = Len(h) + 1 \/ h[b + x] = sep
    <3>. DEFINE y == b + x
    <3>1. y \in 0 .. Len(h) + 1
      BY <1>1
    <3>. HIDE DEF y
    <3>2. y \in C <=> y = 0 \/ y = Len(h) + 1 \/ h[y] = sep
      BY <3>1, CutsMean
    <3>. QED BY <3>2 DEF y
  <2>. HIDE DEF C, D, b, n, m
  <2>3. CASE x = 0
    BY <1>1, <2>1, <2>2, <2>3
  <2>4. CASE x = Len(e) + 1
    BY <1>1, <2>1, <2>2, <2>4
  <2>5. CASE x \in 1 .. Len(e)
    BY <1>1, <2>1, <2>2, <2>5
  <2>. QED BY <1>1, <2>3, <2>4, <2>5
<1>4. \A j, k \in 0 .. n - 1 :
         /\ NthCut(C, j) \in 0 .. Len(h) + 1
         /\ j < k <=> NthCut(C, j) < NthCut(C, k)
         /\ j <= k <=> NthCut(C, j) <= NthCut(C, k)
  BY CutOrder
<1>5. \A j, k \in 0 .. m - 1 :
         /\ NthCut(D, j) \in 0 .. Len(e) + 1
         /\ j < k <=> NthCut(D, j) < NthCut(D, k)
         /\ j <= k <=> NthCut(D, j) <= NthCut(D, k)
  BY CutOrder
<1>. HIDE DEF C, D, n, m, b
<1>6. ASSUME NEW i \in Bad, \A l \in Bad : i <= l PROVE FALSE
  <2>1. i \in 0 .. m - 1 /\ ~ Fits(i)
    OBVIOUS
  <2>2. i # 0
    <3>1. Fits(0)
      BY <1>1, <1>2
    <3>. QED BY <2>1, <3>1
  <2>. DEFINE p == n - i
              q == m - i
              r == n - 1 - i
              u == m - 1 - i
  <2>3. Fits(i - 1)
    <3>1. i - 1 \in 0 .. m - 1 /\ ~ i <= i - 1
      BY <1>2, <2>1, <2>2
    <3>. HIDE DEF Fits
    <3>. QED BY <1>6, <3>1
  <2>4. /\ p \in 0 .. n - 1 /\ q \in 0 .. m - 1 /\ u \in 0 .. m - 1 /\ u < q
        /\ NthCut(C, p) = b + NthCut(D, q)
    BY <1>2, <2>1, <2>2, <2>3
  <2>. DEFINE x == NthCut(D, u)
              y == NthCut(C, r)
  <2>5. x \in 0 .. Len(e) + 1 /\ x \in D /\ x < NthCut(D, q) /\ NthCut(D, q) \in 0 .. Len(e) + 1
    <3>. HIDE DEF u, q
    <3>. QED BY <1>2, <1>5, <2>4
  <2>6. PICK k \in 0 .. n - 1 : NthCut(C, k) = b + x
    BY <1>2, <1>3, <2>5
  <2>7. k < p
    <3>1. NthCut(C, k) < NthCut(C, p)
      BY <1>1, <2>4, <2>5, <2>6
    <3>. HIDE DEF p
    <3>. QED BY <1>4, <2>4, <3>1
  <2>8. r \in 0 .. n - 1 /\ k <= r /\ r < p
    BY <1>2, <2>4, <2>7
  <2>9. y \in 0 .. Len(h) + 1 /\ b + x <= y /\ y < NthCut(C, p) /\ y \in C
    <3>1. k \in 0 .. n - 1 /\ r \in 0 .. n - 1 /\ p \in 0 .. n - 1 /\ k <= r /\ r < p
          /\ NthCut(C, k) = b + x
      BY <2>4, <2>6, <2>8
    <3>. HIDE DEF r, p, x
    <3>2. NthCut(C, k) <= y /\ y < NthCut(C, p) /\ y \in 0 .. Len(h) + 1
      BY <1>4, <3>1
    <3>3. y \in C
      BY <1>2, <3>1
    <3>. QED BY <3>1, <3>2, <3>3
  <2>. DEFINE z == y - b
  <2>10. z \in 0 .. Len(e) + 1 /\ b + z = y /\ z < NthCut(D, q)
    <3>. HIDE DEF x, y
    <3>. QED BY <1>1, <2>4, <2>5, <2>9
  <2>11. PICK l \in 0 .. m - 1 : NthCut(D, l) = z
    BY <1>2, <1>3, <2>9, <2>10
  <2>12. l < q
    <3>. HIDE DEF q, z
    <3>. QED BY <1>5, <2>4, <2>10, <2>11
  <2>13. l <= u
    BY <1>2, <2>1, <2>4, <2>12
  <2>14. z <= x
    <3>. HIDE DEF u, z
    <3>. QED BY <1>5, <2>4, <2>11, <2>13
  <2>15. y = b + x
    <3>. HIDE DEF x, y
    <3>. QED BY <1>1, <2>5, <2>9, <2>10, <2>14
  <2>16. Fits(i)
    BY <1>2, <2>1, <2>8, <2>15
  <2>. QED BY <2>1, <2>16
<1>7. Bad = {}
  <2>1. Bad \in SUBSET Nat
    BY <1>2
  <2>2. Bad # {} => \E i \in Bad : \A l \in Bad : i <= l
    <3>. HIDE DEF Bad
    <3>. QED BY <2>1, LeastNumber
  <2>. HIDE DEF Bad
  <2>. QED BY <1>6, <2>2
<1>8. m <= n
  <2>1. m - 1 \in 0 .. m - 1
    BY <1>2
  <2>2. Fits(m - 1)
    <3>. HIDE DEF Fits
    <3>. QED BY <1>7, <2>1
  <2>. QED BY <1>2, <2>2
<1>9. ASSUME NEW j \in 0 .. m - 1 PROVE NthCut(C, n - m + j) = b + NthCut(D, j)
  <2>. DEFINE i == m - 1 - j
  <2>1. i \in 0 .. m - 1 /\ n - 1 - i = n - m + j /\ m - 1 - i = j
    BY <1>2
  <2>2. Fits(i)
    <3>. HIDE DEF Fits, i
    <3>. QED BY <1>7, <2>1
  <2>. QED BY <2>1, <2>2
<1>. QED BY <1>8, <1>9 DEF Aligned, C, D, n, m, b

(* So its parts are the last parts of the text.                            *)
LEMMA TailHasLastParts ==
    ASSUME NEW F, NEW e \in Seq(F), NEW h \in Seq(F), NEW sep, EndsWith(e, h, sep)
    PROVE  IsSuffix(Parts(e, sep), Parts(h, sep))
<1>. DEFINE C == Cuts(h, sep)
            D == Cuts(e, sep)
            n == Cardinality(C)
            m == Cardinality(D)
            b == Len(h) - Len(e)
            P == Parts(e, sep)
            Q == Parts(h, sep)
<1>1. /\ Len(e) \in Nat /\ Len(h) \in Nat /\ b \in Nat /\ Len(h) = b + Len(e)
      /\ \A i \in 1 .. Len(e) : e[i] = h[b + i]
  BY DEF EndsWith
<1>2. /\ n \in Nat /\ n >= 2 /\ m \in Nat /\ m >= 2 /\ m <= n
      /\ \A j \in 0 .. m - 1 : NthCut(C, n - m + j) = b + NthCut(D, j)
  BY CutsType, TailIsAligned DEF Aligned
<1>3. /\ P \in Seq(Seq(F)) /\ Len(P) = m - 1
      /\ Q \in Seq(Seq(F)) /\ Len(Q) = n - 1
  BY PartsType
<1>6. ASSUME NEW k \in 1 .. m - 1 PROVE P[k] = Q[n - m + k]
  <2>. DEFINE l == n - m + k
              x == NthCut(D, k - 1)
              y == NthCut(D, k)
              v == NthCut(C, l - 1)
              w == NthCut(C, l)
              p == P[k]
              q == Q[l]
  <2>1. l \in 1 .. n - 1 /\ k - 1 \in 0 .. m - 1 /\ k \in 0 .. m - 1 /\ l - 1 = n - m + (k - 1)
    BY <1>2
  <2>2. w = b + y /\ v = b + x
    BY <1>2, <2>1
  <2>3. /\ x \in 0 .. Len(e) + 1 /\ y \in 0 .. Len(e) + 1
        /\ p \in Seq(F) /\ Len(p) = y - x - 1
        /\ \A i \in 1 .. y - x - 1 : p[i] = e[x + i]
    <3>1. k \in 1 .. Cardinality(Cuts(e, sep)) - 1
      OBVIOUS
    <3>. HIDE DEF l, m, n, b, C, v, w, q, Q
    <3>. QED BY <3>1, PartType
  <2>4. /\ q \in Seq(F) /\ Len(q) = w - v - 1
        /\ \A i \in 1 .. w - v - 1 : q[i] = h[v + i]
    <3>. HIDE DEF l
    <3>. QED BY <2>1, PartType
  <2>. HIDE DEF x, y, v, w, p, q, n, m, b
  <2>5. w - v - 1 = y - x - 1
    BY <1>1, <2>2, <2>3
  <2>6. ASSUME NEW i \in 1 .. y - x - 1 PROVE p[i] = q[i]
    <3>1. x + i \in 1 .. Len(e) /\ v + i = b + (x + i)
      BY <1>1, <2>2, <2>3
    <3>2. q[i] = h[b + (x + i)] /\ e[x + i] = h[b + (x + i)]
      BY <1>1, <2>4, <2>5, <3>1
    <3>. QED BY <2>3, <3>2
  <2>7. p = q
    <3>1. Len(p) = Len(q) /\ \A i \in 1 .. Len(p) : p[i] = q[i]
      BY <2>3, <2>4, <2>5, <2>6
    <3>2. p \in Seq(F) /\ q \in Seq(F)
      BY <2>3, <2>4
    <3>. QED BY <3>1, <3>2
  <2>. QED BY <2>7 DEF p, q
<1>. HIDE DEF C, D, n, m, b, P, Q
<1>7. Len(P) <= Len(Q) /\ Len(Q) - Len(P) = n - m
  BY <1>2, <1>3
<1>8. \A k \in 1 .. Len(P) : P[k] = Q[Len(Q) - Len(P) + k]
  BY <1>3, <1>6, <1>7
<1>9. IsSuffix(P, Q)
  BY <1>3, <1>7, <1>8, SuffixMeans
<1>. QED BY <1>9 DEF P, Q

(* Texts whose last parts are equal are cut alike from the end.            *)
LEMMA LastPartsAreAligned ==
    ASSUME NEW F, NEW e \in Seq(F), NEW h \in Seq(F), NEW sep,
           IsSuffix(Parts(e, sep), Parts(h, sep))
    PROVE  /\ Aligned(e, h, sep)
           /\ \A k \in 1 .. Cardinality(Cuts(e, sep)) - 1 :
                Parts(e, sep)[k] = Parts(h, sep)[Cardinality(Cuts(h, sep))
                                                 - Cardinality(Cuts(e, sep)) + k]
<1>. DEFINE C == Cuts(h, sep)
            D == Cuts(e, sep)
            n == Cardinality(C)
            m == Cardinality(D)
            b == Len(h) - Len(e)
            P == Parts(e, sep)
            Q == Parts(h, sep)
            Fits(i) == NthCut(C, n - 1 - i) = b + NthCut(D, m - 1 - i)
            Bad == {i \in 0 .. m - 1 : ~ Fits(i)}
<1>1. /\ n \in Nat /\ n >= 2 /\ m \in Nat /\ m >= 2 /\ Len(e) \in Nat /\ Len(h) \in Nat
      /\ NthCut(C, n - 1) = Len(h) + 1 /\ NthCut(D, m - 1) = Len(e) + 1
  BY CutsType
<1>2. /\ P \in Seq(Seq(F)) /\ Len(P) = m - 1
      /\ Q \in Seq(Seq(F)) /\ Len(Q) = n - 1
  BY PartsType
<1>3. /\ Len(P) <= Len(Q)
      /\ \A k \in 1 .. Len(P) : P[k] = Q[Len(Q) - Len(P) + k]
  <2>. HIDE DEF P, Q
  <2>. QED BY <1>2, SuffixMeans DEF P, Q
<1>4. /\ m <= n /\ \A k \in 1 .. m - 1 : P[k] = Q[n - m + k]
  <2>. HIDE DEF P, Q, m, n
  <2>. QED BY <1>1, <1>2, <1>3
<1>5. ASSUME NEW i \in Bad, \A l \in Bad : i <= l PROVE FALSE
  <2>1. i \in 0 .. m - 1 /\ ~ Fits(i)
    OBVIOUS
  <2>2. i # 0
    <3>1. Fits(0)
      <4>. HIDE DEF C, D, m, n
      <4>. QED BY <1>1
    <3>. QED BY <2>1, <3>1
  <2>3. Fits(i - 1)
    <3>1. i - 1 \in 0 .. m - 1 /\ ~ i <= i - 1
      <4>. HIDE DEF m, Fits
      <4>. QED BY <1>1, <2>1, <2>2
    <3>. HIDE DEF Fits
    <3>. QED BY <1>5, <3>1
  <2>. DEFINE k == m - i
              l == n - i
              x == NthCut(D, k - 1)
              y == NthCut(D, k)
              v == NthCut(C, l - 1)
              w == NthCut(C, l)
  <2>4. /\ k \in 1 .. m - 1 /\ l \in 1 .. n - 1 /\ l = n - m + k
        /\ n - 1 - (i - 1) = l /\ m - 1 - (i - 1) = k
        /\ n - 1 - i = l - 1 /\ m - 1 - i = k - 1
    <3>. HIDE DEF C, D, m, n
    <3>. QED BY <1>1, <1>4, <2>1, <2>2
  <2>5. w = b + y
    BY <2>3, <2>4
  <2>6. P[k] = Q[l]
    <3>. HIDE DEF P, Q, m, n, k, l
    <3>. QED BY <1>4, <2>4
  <2>7. /\ x \in 0 .. Len(e) + 1 /\ y \in 0 .. Len(e) + 1 /\ Len(P[k]) = y - x - 1
    <3>. HIDE DEF k
    <3>. QED BY <2>4, PartType
  <2>8. /\ v \in 0 .. Len(h) + 1 /\ w \in 0 .. Len(h) + 1 /\ Len(Q[l]) = w - v - 1
    <3>. HIDE DEF l
    <3>. QED BY <2>4, PartType
  <2>9. v = b + x
    <3>. HIDE DEF P, Q, x, y, v, w, k, l, n, m, C, D
    <3>1. y - x - 1 = w - v - 1
      BY <2>6, <2>7, <2>8
    <3>2. b \in Int
      BY <1>1
    <3>3. x \in Int /\ y \in Int /\ v \in Int /\ w \in Int
      BY <1>1, <2>7, <2>8
    <3>. HIDE DEF b
    <3>. QED BY <2>5, <3>1, <3>2, <3>3
  <2>10. Fits(i)
    BY <2>4, <2>9
  <2>. QED BY <2>1, <2>10
<1>6. Bad = {}
  <2>1. Bad \in SUBSET Nat
    OBVIOUS
  <2>2. Bad # {} => \E i \in Bad : \A l \in Bad : i <= l
    <3>. HIDE DEF Bad
    <3>. QED BY <2>1, LeastNumber
  <2>. HIDE DEF Bad
  <2>. QED BY <1>5, <2>2
<1>. HIDE DEF C, D, n, m, b
<1>7. ASSUME NEW j \in 0 .. m - 1 PROVE NthCut(C, n - m + j) = b + NthCut(D, j)
  <2>. DEFINE i == m - 1 - j
  <2>1. i \in 0 .. m - 1 /\ n - 1 - i = n - m + j /\ m - 1 - i = j
    BY <1>1
  <2>2. Fits(i)
    <3>. HIDE DEF Fits, i
    <3>. QED BY <1>6, <2>1
  <2>. QED BY <2>1, <2>2
<1>. QED BY <1>4, <1>7 DEF Aligned, C, D, n, m, b

(* So one text ends with the other, at its beginning or behind a           *)
(* separator.                                                              *)
LEMMA LastPartsMakeTail ==
    ASSUME NEW F, NEW e \in Seq(F), NEW h \in Seq(F), NEW sep,
           IsSuffix(Parts(e, sep), Parts(h, sep))
    PROVE  EndsWith(e, h, sep)
<1>. DEFINE C == Cuts(h, sep)
            D == Cuts(e, sep)
            n == Cardinality(C)
            m == Cardinality(D)
            b == Len(h) - Len(e)
            P == Parts(e, sep)
            Q == Parts(h, sep)
<1>1. /\ n \in Nat /\ n >= 2 /\ m \in Nat /\ m >= 2 /\ Len(e) \in Nat /\ Len(h) \in Nat
      /\ NthCut(D, 0) = 0 /\ NthCut(D, m - 1) = Len(e) + 1
      /\ \A k \in 0 .. n - 1 : NthCut(C, k) \in C
      /\ \A k \in 0 .. m - 1 : NthCut(D, k) \in D
  BY CutsType
<1>2. /\ m <= n /\ \A j \in 0 .. m - 1 : NthCut(C, n - m + j) = b + NthCut(D, j)
      /\ \A k \in 1 .. m - 1 : P[k] = Q[n - m + k]
  BY LastPartsAreAligned DEF Aligned
<1>3. b \in 0 .. Len(h) + 1 /\ b \in C
  <2>1. n - m \in 0 .. n - 1 /\ 0 \in 0 .. m - 1 /\ n - m + 0 = n - m
    <3>. HIDE DEF C, D, n, m
    <3>. QED BY <1>1, <1>2
  <2>2. NthCut(C, n - m) = b + NthCut(D, 0)
    <3>. HIDE DEF C, D, n, m, b
    <3>. QED BY <1>2, <2>1
  <2>3. NthCut(C, n - m) \in 0 .. Len(h) + 1 /\ NthCut(C, n - m) \in C
    <3>. DEFINE a == n - m
    <3>. HIDE DEF a
    <3>1. a \in 0 .. n - 1
      BY <2>1 DEF a
    <3>2. NthCut(C, a) \in 0 .. Len(h) + 1 /\ NthCut(C, a) \in C
      BY <1>1, <3>1, CutOrder
    <3>. QED BY <3>2 DEF a
  <2>4. b \in Int
    BY <1>1
  <2>. HIDE DEF b, C
  <2>. QED BY <1>1, <2>2, <2>3, <2>4
<1>4. 0 <= b /\ (b = 0 \/ h[b] = sep)
  <2>1. b # Len(h) + 1
    BY <1>1
  <2>2. b = 0 \/ b = Len(h) + 1 \/ h[b] = sep
    <3>. HIDE DEF b
    <3>. QED BY <1>3, CutsMean
  <2>. QED BY <1>1, <1>3, <2>1, <2>2
<1>5. ASSUME NEW i \in 1 .. Len(e) PROVE e[i] = h[b + i]
  <2>. DEFINE K == {k \in 0 .. m - 1 : i <= NthCut(D, k)}
  <2>1. K \in SUBSET Nat
    OBVIOUS
  <2>2. m - 1 \in K
    <3>. HIDE DEF C, D, m, n
    <3>. QED BY <1>1
  <2>3. PICK k \in K : \A l \in K : k <= l
    <3>. HIDE DEF K
    <3>. QED BY <2>1, <2>2, LeastNumber
  <2>4. k \in 0 .. m - 1 /\ i <= NthCut(D, k)
    OBVIOUS
  <2>5. k \in 1 .. m - 1
    <3>1. k # 0
      BY <1>1, <2>4
    <3>. HIDE DEF K
    <3>. QED BY <1>1, <2>4, <3>1
  <2>. DEFINE x == NthCut(D, k - 1)
              y == NthCut(D, k)
              l == n - m + k
              v == NthCut(C, l - 1)
              w == NthCut(C, l)
  <2>6. /\ l \in 1 .. n - 1 /\ l \in 0 .. n - 1 /\ l - 1 = n - m + (k - 1)
        /\ k - 1 \in 0 .. m - 1 /\ ~ k <= k - 1
    <3>. HIDE DEF C, D, m, n, K
    <3>. QED BY <1>1, <1>2, <2>5
  <2>7. w = b + y /\ v = b + x
    <3>. HIDE DEF C, D, m, n, b
    <3>. QED BY <1>2, <2>4, <2>6
  <2>8. /\ x \in 0 .. Len(e) + 1 /\ y \in 0 .. Len(e) + 1
        /\ \A j \in 1 .. y - x - 1 : P[k][j] = e[x + j]
    BY <2>5, PartType
  <2>9. \A j \in 1 .. w - v - 1 : Q[l][j] = h[v + j]
    <3>. HIDE DEF l
    <3>. QED BY <2>6, PartType
  <2>10. x < i /\ i <= y
    <3>1. k - 1 \notin K
      <4>. HIDE DEF K
      <4>. QED BY <2>3, <2>6
    <3>2. ~ i <= x
      BY <2>6, <3>1
    <3>. HIDE DEF x, y
    <3>. QED BY <1>1, <2>4, <2>8, <3>2 DEF y
  <2>11. P[k] = Q[l]
    <3>. HIDE DEF P, Q, m, n, l
    <3>. QED BY <1>2, <2>5 DEF l
  <2>12. y \in D /\ w \in C /\ w \in 0 .. Len(h) + 1
    <3>1. y \in D
      BY <1>1, <2>4
    <3>2. w \in C /\ w \in 0 .. Len(h) + 1
      <4>. HIDE DEF l
      <4>. QED BY <1>1, <2>6, CutOrder
    <3>. QED BY <3>1, <3>2
  <2>13. y = 0 \/ y = Len(e) + 1 \/ e[y] = sep
    <3>. HIDE DEF y
    <3>. QED BY <2>8, <2>12, CutsMean
  <2>14. w = 0 \/ w = Len(h) + 1 \/ h[w] = sep
    <3>. HIDE DEF w
    <3>. QED BY <2>12, CutsMean
  <2>15. Len(h) = b + Len(e) /\ b \in Nat
    <3>. QED BY <1>1, <1>4
  <2>. HIDE DEF x, y, v, w, l, b, P, Q
  <2>16. CASE i = y
    BY <1>1, <2>7, <2>8, <2>13, <2>14, <2>15, <2>16
  <2>17. CASE i < y
    <3>. DEFINE j == i - x
    <3>1. j \in 1 .. y - x - 1 /\ j \in 1 .. w - v - 1 /\ x + j = i /\ v + j = b + i
      BY <1>1, <2>7, <2>8, <2>10, <2>15, <2>17
    <3>. HIDE DEF j
    <3>2. P[k][j] = e[i]
      BY <2>8, <3>1
    <3>3. Q[l][j] = h[b + i]
      BY <2>9, <3>1
    <3>. QED BY <2>11, <3>2, <3>3
  <2>. QED BY <1>1, <2>8, <2>10, <2>16, <2>17
<1>. QED BY <1>4, <1>5 DEF EndsWith

-----------------------------------------------------------------------------
(* The allowlist.                                                          *)

(* Text in lower case has as many fragments.                               *)
LEMMA LowerType ==
    ASSUME NEW text \in Seq(Fragments)
    PROVE  Lower(text) \in Seq(Fragments)
BY DetectionAssumption DEF Lower

(* is_allowed's test of one entry: the host is the entry, or ends with a   *)
(* dot and the entry.                                                      *)
LEMMA DotAndEntry ==
    ASSUME NEW F, NEW e \in Seq(F), NEW h \in Seq(F), NEW sep
    PROVE  EndsWith(e, h, sep) <=> (h = e \/ IsSuffix(<<sep>> \o e, h))
<1>. DEFINE G == F \cup {sep}
            d == <<sep>> \o e
            n == Len(e)
            m == Len(h)
<1>1. d \in Seq(G) /\ h \in Seq(G) /\ e \in Seq(G) /\ n \in Nat /\ m \in Nat
  OBVIOUS
<1>2. Len(d) = n + 1 /\ d[1] = sep /\ \A i \in 1 .. n : d[i + 1] = e[i]
  OBVIOUS
<1>. HIDE DEF d, G
<1>3. IsSuffix(d, h) <=> n + 1 <= m /\ \A i \in 1 .. n + 1 : d[i] = h[m - (n + 1) + i]
  <2>1. IsSuffix(d, h) <=> Len(d) <= m /\ \A i \in 1 .. Len(d) : d[i] = h[m - Len(d) + i]
    BY <1>1, SuffixMeans
  <2>. QED BY <1>2, <2>1
<1>4. ASSUME h = e PROVE EndsWith(e, h, sep)
  BY <1>1, <1>4 DEF EndsWith
<1>5. ASSUME IsSuffix(d, h) PROVE EndsWith(e, h, sep)
  <2>1. h[m - n] = sep
    <3>1. 1 \in 1 .. n + 1 /\ m - (n + 1) + 1 = m - n
      BY <1>1
    <3>. QED BY <1>2, <1>3, <1>5, <3>1
  <2>2. ASSUME NEW i \in 1 .. n PROVE e[i] = h[m - n + i]
    <3>1. i + 1 \in 1 .. n + 1 /\ m - (n + 1) + (i + 1) = m - n + i
      BY <1>1
    <3>2. d[i + 1] = h[m - (n + 1) + (i + 1)]
      BY <1>3, <1>5, <3>1
    <3>. QED BY <1>2, <3>1, <3>2
  <2>3. 0 <= m - n
    BY <1>1, <1>3, <1>5
  <2>. QED BY <2>1, <2>2, <2>3 DEF EndsWith
<1>6. ASSUME EndsWith(e, h, sep) PROVE h = e \/ IsSuffix(d, h)
  <2>1. 0 <= m - n /\ (m - n = 0 \/ h[m - n] = sep) /\ \A i \in 1 .. n : e[i] = h[m - n + i]
    BY <1>6 DEF EndsWith
  <2>2. CASE m - n = 0
    <3>1. m = n /\ \A i \in 1 .. n : e[i] = h[i]
      BY <1>1, <2>1, <2>2
    <3>. QED BY <3>1
  <2>3. CASE m - n # 0
    <3>1. n + 1 <= m /\ h[m - n] = sep
      BY <1>1, <2>1, <2>3
    <3>2. ASSUME NEW i \in 1 .. n + 1 PROVE d[i] = h[m - (n + 1) + i]
      <4>1. CASE i = 1
        <5>1. m - (n + 1) + i = m - n
          BY <1>1, <4>1
        <5>. QED BY <1>2, <3>1, <4>1, <5>1
      <4>2. CASE i # 1
        <5>. DEFINE j == i - 1
        <5>1. j \in 1 .. n /\ i = j + 1 /\ m - (n + 1) + i = m - n + j
          BY <1>1, <4>2
        <5>. HIDE DEF j
        <5>2. d[j + 1] = e[j] /\ e[j] = h[m - n + j]
          BY <1>2, <2>1, <5>1
        <5>. QED BY <5>1, <5>2
      <4>. QED BY <4>1, <4>2
    <3>. QED BY <1>3, <3>1, <3>2
  <2>. QED BY <2>2, <2>3
<1>. QED BY <1>4, <1>5, <1>6 DEF d

(* "An allowlist entry covers that host and its subdomains": is_allowed,   *)
(* which compares ends of texts, says of every host and every entry what   *)
(* the tree of domain names says, label by label.                          *)
THEOREM EntriesCoverSubdomains ==
    ASSUME NEW host \in Seq(Fragments), NEW allowlist \in SUBSET Seq(Fragments)
    PROVE  IsAllowed(host, allowlist) <=>
              \/ allowlist = {}
              \/ \E entry \in allowlist : Covers(entry, host)
<1>1. ASSUME NEW entry \in allowlist
      PROVE  Covers(entry, host) <=>
                \/ Lower(host) = Lower(entry)
                \/ IsSuffix(<<".">> \o Lower(entry), Lower(host))
  <2>. DEFINE e == Lower(entry)
              h == Lower(host)
  <2>1. e \in Seq(Fragments) /\ h \in Seq(Fragments)
    BY LowerType
  <2>. HIDE DEF e, h
  <2>2. EndsWith(e, h, ".") <=> (h = e \/ IsSuffix(<<".">> \o e, h))
    BY <2>1, DotAndEntry
  <2>3. EndsWith(e, h, ".") <=> IsSuffix(Parts(e, "."), Parts(h, "."))
    BY <2>1, TailHasLastParts, LastPartsMakeTail
  <2>. QED BY <2>2, <2>3 DEF Covers, e, h
<1>. QED BY <1>1 DEF IsAllowed

(* Stripping an entry of its blanks leaves a text.                         *)
LEMMA StripType ==
    ASSUME NEW F, NEW text \in Seq(F)
    PROVE  Strip(text) \in Seq(F)
<1>. DEFINE solid == {i \in DOMAIN text : text[i] # Blank}
            n == Len(text)
            left == {n - i : i \in solid}
<1>1. n \in Nat /\ DOMAIN text = 1 .. n
  OBVIOUS
<1>2. CASE solid = {}
  BY <1>2 DEF Strip
<1>3. CASE solid # {}
  <2>1. solid \in SUBSET Nat /\ left \in SUBSET Nat /\ left # {}
    BY <1>1, <1>3
  <2>2. \E i \in solid : \A j \in solid : i <= j
    <3>. HIDE DEF solid
    <3>. QED BY <1>3, <2>1, LeastNumber
  <2>3. \E i \in solid : \A j \in solid : i >= j
    <3>1. \E k \in left : \A l \in left : k <= l
      <4>. HIDE DEF left
      <4>. QED BY <2>1, LeastNumber
    <3>2. PICK i \in solid : \A j \in solid : n - i <= n - j
      BY <3>1
    <3>. QED BY <1>1, <3>2
  <2>4. Min(solid) \in 1 .. n /\ Max(solid) \in 1 .. n
    <3>1. Min(solid) \in solid
      <4>. HIDE DEF solid
      <4>. QED BY <2>2 DEF Min
    <3>2. Max(solid) \in solid
      <4>. HIDE DEF solid
      <4>. QED BY <2>3 DEF Max
    <3>. QED BY <1>1, <3>1, <3>2
  <2>5. Strip(text) = SubSeq(text, Min(solid), Max(solid))
    BY <1>3 DEF Strip
  <2>. HIDE DEF solid
  <2>. QED BY <2>4, <2>5, SubSeqProperties
<1>. QED BY <1>2, <1>3

(* The setting is a set of texts.                                          *)
LEMMA AllowedDomainsType == AllowedDomains \in SUBSET Seq(Fragments)
<1>. DEFINE entries == Parts(ALLOWED_DOMAINS, ",")
<1>1. entries \in Seq(Seq(Fragments))
  BY DetectionAssumption, PartsType
<1>. HIDE DEF entries
<1>2. \A k \in DOMAIN entries : Strip(entries[k]) \in Seq(Fragments)
  BY <1>1, StripType
<1>. QED BY <1>2 DEF AllowedDomains, SplitCsv, entries

-----------------------------------------------------------------------------
(* The alerts.                                                             *)

(* Whatever is stored or about to be is what a rule found in the event.    *)
OnlyFindings ==
    /\ \A k \in alerts : k[2] \in Finds[k[1]]
    /\ \A p \in Runners : \A k \in todo[p] \cup fresh[p] : k[2] \in Finds[k[1]]

(* A draft is a finding of its rule.                                       *)
LEMMA DraftsAreFindings ==
    ASSUME NEW p, NEW S, NEW k \in KeysOf(p, S)
    PROVE  k[2] \in Finds[k[1]]
BY DEF KeysOf, Drafts

(* No step stores, or prepares to store, anything else.                    *)
LEMMA OnlyFindingsStep ==
    AnalysisTypes /\ OnlyFindings /\ [AnalysisNext]_vars => OnlyFindings'
<1>. SUFFICES ASSUME AnalysisTypes, OnlyFindings, [AnalysisNext]_vars
              PROVE  OnlyFindings'
  OBVIOUS
<1>. USE DEF AnalysisTypes, TypeOK, OnlyFindings
<1>1. CASE UNCHANGED <<alerts, todo, fresh>>
  BY <1>1
<1>2. ASSUME NEW p \in Runners, FetchBatch(p) \/ FetchPage(p) PROVE OnlyFindings'
  <2>1. PICK S : /\ todo' = [todo EXCEPT ![p] = KeysOf(p, S)]
                 /\ alerts' = alerts /\ fresh' = fresh
    BY <1>2 DEF FetchBatch, FetchPage
  <2>2. \A k \in KeysOf(p, S) : k[2] \in Finds[k[1]]
    BY DraftsAreFindings
  <2>. QED BY <2>1, <2>2
<1>3. ASSUME NEW p \in Runners, InsertAlert(p) PROVE OnlyFindings'
  <2>1. PICK k \in todo[p] : /\ todo' = [todo EXCEPT ![p] = @ \ {k}]
                             /\ fresh' = [fresh EXCEPT ![p] = @ \cup ({k} \ alerts)]
                             /\ alerts' = alerts
    BY <1>3 DEF InsertAlert
  <2>. QED BY <2>1
<1>4. ASSUME NEW p \in Runners, Forget(p), alerts' \in {alerts, alerts \cup fresh[p]}
      PROVE  OnlyFindings'
  BY <1>4 DEF Forget
<1>5. ASSUME NEW p \in Runners, CommitBatch(p) \/ CommitPage(p) PROVE OnlyFindings'
  <2>1. alerts' = alerts \cup fresh[p]
    BY <1>5 DEF CommitBatch, Publish, CommitPage
  <2>2. CASE Forget(p)
    BY <1>4, <2>1, <2>2
  <2>3. CASE ~Forget(p)
    <3>1. todo' = todo /\ fresh' = [fresh EXCEPT ![p] = {}]
      BY <1>5, <2>3 DEF CommitBatch, CommitPage
    <3>. QED BY <2>1, <3>1
  <2>. QED BY <2>2, <2>3
<1>6. ASSUME NEW p \in Runners,
             FetchNothing(p) \/ FetchNoPage(p) \/ Fail(p) \/ CommitReplyLost(p)
      PROVE  OnlyFindings'
  <2>1. Forget(p) /\ alerts' \in {alerts, alerts \cup fresh[p]}
    BY <1>6 DEF FetchNothing, FetchNoPage, Fail, CommitReplyLost, Publish
  <2>. QED BY <1>4, <2>1
<1>7. ASSUME NEW p \in Runners,
             StartLive(p) \/ StartBackfill(p) \/ GetCursor(p) \/ UpsertCursor(p)
      PROVE  UNCHANGED <<alerts, todo, fresh>>
  BY <1>7 DEF StartLive, StartBackfill, GetCursor, UpsertCursor, runVars
<1>8. UNCHANGED vars \/ Ingest => UNCHANGED <<alerts, todo, fresh>>
  BY DEF vars, Ingest, runVars
<1>. QED
  BY <1>1, <1>2, <1>3, <1>5, <1>6, <1>7, <1>8 DEF AnalysisNext, Step

(* The first rule finds something in a request to a host that no listed    *)
(* domain covers.                                                          *)
LEMMA UncoveredHostsAreFound ==
    ASSUME NEW s \in Requested
    PROVE  /\ EventOf[s].subject \in Seq(Fragments)
           /\ 1 \in Finds[s] <=> ~IsAllowed(EventOf[s].subject, AllowedDomains)
<1>1. /\ s \in Seqs /\ EventOf[s].type = "http_request"
      /\ EventOf[s].subject \notin {NotText, <<>>}
  BY DEF Requested
<1>2. EventOf[s].subject \in Seq(Fragments)
  BY <1>1, DetectedAssumption
<1>3. UnlistedDomain(EventOf[s]) <=> ~IsAllowed(EventOf[s].subject, AllowedDomains)
  BY <1>1 DEF UnlistedDomain
<1>4. 1 \in Detects(EventOf[s]) <=> UnlistedDomain(EventOf[s])
  BY DEF Detects
<1>5. Finds[s] = Detects(EventOf[s])
  BY <1>1, DetectedAssumption
<1>. QED BY <1>2, <1>3, <1>4, <1>5

(* With one agent, a request behind the cursor is reported exactly if no   *)
(* listed domain covers its host, whatever runs beside the poller, fails   *)
(* or is lost, and every entry alone would be applied as it should.        *)
THEOREM RequestsAreReported ==
    ASSUME NEW a, Agents = {a}
    PROVE  AnalysisSpec => []EntryCoversSubdomains
<1>. DEFINE Inv == AnalysisTypes /\ OnlyFindings
<1>1. AnalysisInit => Inv
  BY TypesInit DEF AnalysisInit, OnlyFindings
<1>2. Inv /\ [AnalysisNext]_vars => Inv'
  BY TypesStep, OnlyFindingsStep
<1>3. AnalysisSpec => []NoSkip
  BY OneAgentNoSkip
<1>4. Inv /\ NoSkip => EntryCoversSubdomains
  <2>. SUFFICES ASSUME Inv, NoSkip, NEW s \in visible \cap Requested
                PROVE  /\ s \in Consistent
                       /\ s <= cursor =>
                            (<<s, 1>> \notin alerts <=>
                               \/ AllowedDomains = {}
                               \/ \E domain \in AllowedDomains :
                                    Covers(domain, EventOf[s].subject))
    BY DEF EntryCoversSubdomains
  <2>. DEFINE host == EventOf[s].subject
  <2>1. /\ s \in Seqs /\ \A p \in Runners : 1 \notin Raises[p][s]
        /\ host \in Seq(Fragments)
        /\ 1 \in Finds[s] <=> ~IsAllowed(host, AllowedDomains)
    BY UncoveredHostsAreFound DEF Requested
  <2>2. s \in Consistent
    <3>1. ASSUME NEW entry \in Entries
          PROVE  IsAllowed(host, {entry}) <=> Covers(entry, host)
      <4>1. {entry} \in SUBSET Seq(Fragments) /\ {entry} # {}
        BY DetectedAssumption
      <4>. HIDE DEF host
      <4>. QED BY <2>1, <4>1, EntriesCoverSubdomains
    <3>. QED BY <3>1 DEF Consistent
  <2>3. ASSUME s <= cursor PROVE <<s, 1>> \in alerts <=> 1 \in Finds[s]
    <3>1. ASSUME 1 \in Finds[s] PROVE <<s, 1>> \in alerts
      <4>1. 1 \in Due(s)
        BY <2>1, <3>1 DEF Due
      <4>2. Alerted(s)
        BY <2>3 DEF NoSkip
      <4>. QED BY <2>1, <4>1, <4>2, AlertedMeans
    <3>2. ASSUME <<s, 1>> \in alerts PROVE 1 \in Finds[s]
      BY <3>2 DEF OnlyFindings
    <3>. QED BY <3>1, <3>2
  <2>4. IsAllowed(host, AllowedDomains) <=>
           \/ AllowedDomains = {}
           \/ \E domain \in AllowedDomains : Covers(domain, host)
    <3>. HIDE DEF host
    <3>. QED BY <2>1, AllowedDomainsType, EntriesCoverSubdomains
  <2>. QED BY <2>1, <2>2, <2>3, <2>4
<1>. QED BY <1>1, <1>2, <1>3, <1>4, PTL DEF AnalysisSpec
=============================================================================
