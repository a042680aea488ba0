------------------------ MODULE HistoryPages_proofs ------------------------
(***************************************************************************)
(* Theorems about HistoryPages, for any clients, sources, days, page size  *)
(* and number of inserts and deletions: a walk over the pages misses no    *)
(* row, entries of the statistics have their spends, revenue is the same   *)
(* difference inside a page and over the table, and the prices of the      *)
(* incentives are those of the nearest entry.                              *)
(***************************************************************************)
EXTENDS HistoryPages, FiniteSetTheorems, WellFoundedInduction, TLAPS

(***************************************************************************)
(* Numbers.  A set of natural numbers has a least element: this is what    *)
(* stands in for induction below, a property of every place of a sequence  *)
(* being proved at the first place where it could fail.                    *)
(***************************************************************************)
LEMMA LeastNat ==
    ASSUME NEW T, T \subseteq Nat, T # {}
    PROVE  \E n \in T : \A m \in T : n <= m
<1>1. PICK t \in T : t \in Nat
  OBVIOUS
<1> DEFINE S == 0 .. t
           F == {0 .. m : m \in {x \in T : x <= t}}
           R == StrictSubsetOrdering(S)
<1>2. IsFiniteSet(S)
  BY <1>1, FS_Interval
<1>3. IsWellFoundedOn(R, SUBSET S)
  BY <1>2, FS_StrictSubsetOrderingWellFounded, FS_FiniteSubsetsOfFinite
<1>4. F \subseteq SUBSET S
  BY <1>1
<1>5. F # {}
  <2>1. 0 .. t \in F
    BY <1>1
  <2> QED BY <2>1
<1>6. PICK M \in F : \A y \in F : ~ (<<y, M>> \in R)
  <2> HIDE DEF F, R, S
  <2> QED BY <1>3, <1>4, <1>5, WFMin
<1>7. PICK n \in T : n <= t /\ M = 0 .. n
  BY <1>6
<1>8. ASSUME NEW m \in T, m < n PROVE FALSE
  <2>1. m \in Nat /\ n \in Nat /\ t \in Nat /\ m <= t
    BY <1>1, <1>7, <1>8
  <2>2. 0 .. m \in F
    BY <2>1
  <2>3. 0 .. m \subseteq 0 .. n /\ n \in 0 .. n /\ n \notin 0 .. m /\ 0 .. n \subseteq S
    BY <2>1, <1>8, <1>7
  <2>4. <<0 .. m, M>> \in R
    BY <2>3, <1>7 DEF StrictSubsetOrdering
  <2> QED BY <2>2, <2>4, <1>6
<1> QED
  BY <1>8

(* A bounded set of natural numbers has a greatest element.                *)
LEMMA GreatestNat ==
    ASSUME NEW b \in Nat, NEW T, T \subseteq 0 .. b, T # {}
    PROVE  \E n \in T : \A m \in T : m <= n
<1> DEFINE U == {b - m : m \in T}
<1>1. U \subseteq Nat /\ U # {}
  <2>1. \A m \in T : m \in 0 .. b /\ b - m \in Nat
    OBVIOUS
  <2>2. PICK t \in T : TRUE
    OBVIOUS
  <2>3. b - t \in U
    OBVIOUS
  <2> QED BY <2>1, <2>3
<1>2. PICK u \in U : \A v \in U : u <= v
  <2> HIDE DEF U
  <2> QED BY <1>1, LeastNat
<1>3. PICK n \in T : u = b - n
  BY <1>2
<1>4. \A m \in T : b - n <= b - m
  BY <1>2, <1>3
<1> QED
  BY <1>3, <1>4

(* Places that come with all the places before them are the first ones.    *)
LEMMA FirstPlaces ==
    ASSUME NEW n \in Nat, NEW D, D \subseteq 1 .. n,
           \A j \in D : \A i \in 1 .. n : i < j => i \in D
    PROVE  D = 1 .. Cardinality(D) /\ Cardinality(D) \in Nat
<1>1. CASE D = 1 .. n
  <2>1. Cardinality(1 .. n) = n
    BY FS_Interval
  <2> QED BY <1>1, <2>1
<1>2. CASE D # 1 .. n
  <2> DEFINE G == {i \in 1 .. n : i \notin D}
  <2>1. G \subseteq Nat /\ G # {}
    <3>1. PICK g \in 1 .. n : g \notin D
      BY <1>2
    <3>2. g \in G
      BY <3>1
    <3>3. \A i \in 1 .. n : i \in Nat
      OBVIOUS
    <3> QED BY <3>2, <3>3
  <2>2. PICK m \in G : \A i \in G : m <= i
    <3> HIDE DEF G
    <3> QED BY <2>1, LeastNat
  <2>3. m \in 1 .. n /\ m \notin D /\ \A i \in 1 .. n : i < m => i \in D
    BY <2>2
  <2>4. \A i \in D : i \in 1 .. n /\ i < m
    BY <2>3
  <2>5. m - 1 \in Nat /\ D \subseteq 1 .. (m - 1)
    BY <2>3, <2>4
  <2>6. \A i \in 1 .. (m - 1) : i \in D
    BY <2>3
  <2>7. D = 1 .. (m - 1)
    BY <2>5, <2>6
  <2>8. Cardinality(1 .. (m - 1)) = m - 1
    BY <2>5, FS_Interval
  <2> QED BY <2>5, <2>7, <2>8
<1> QED
  BY <1>1, <1>2

(* A one-to-one image has the same size.                                   *)
LEMMA SameSize ==
    ASSUME NEW S, NEW T, IsFiniteSet(S), NEW f \in [S -> T],
           \A x, y \in S : f[x] = f[y] => x = y,
           \A t \in T : \E x \in S : f[x] = t
    PROVE  IsFiniteSet(T) /\ Cardinality(T) = Cardinality(S)
<1>1. f \in Bijection(S, T)
  BY DEF Bijection, Injection, Surjection, IsInjective
<1>2. ExistsBijection(S, T)
  BY <1>1 DEF ExistsBijection
<1> QED
  BY <1>2, FS_Bijection

(***************************************************************************)
(* Listings.  A listing holds every row once; the rows of a day follow     *)
(* those ahead of it without a gap.                                        *)
(***************************************************************************)
LEMMA ListingHoldsRows ==
    ASSUME NEW table, IsFiniteSet(table), NEW s \in Listings(table)
    PROVE  /\ Len(s) = Cardinality(table) /\ Cardinality(table) \in Nat
           /\ s \in Seq(table) /\ s \in [1 .. Len(s) -> table]
           /\ \A i, j \in 1 .. Len(s) : s[i] = s[j] => i = j
           /\ \A r \in table : \E i \in 1 .. Len(s) : s[i] = r
<1> DEFINE N == Cardinality(table)
<1>1. N \in Nat
  BY FS_CardinalityType
<1>2. s \in [1 .. N -> table] /\ \A i, j \in 1 .. N : i # j => s[i] # s[j]
  BY DEF Listings, SetToSeqs
<1>3. s \in Seq(table) /\ Len(s) = N
  BY <1>1, <1>2
<1>4. s \in Injection(1 .. N, table)
  BY <1>2 DEF Injection, IsInjective
<1>5. IsFiniteSet(1 .. N) /\ Cardinality(1 .. N) = N
  BY <1>1, FS_Interval
<1>6. s \in Surjection(1 .. N, table)
  BY <1>4, <1>5, FS_Injection
<1>7. \A r \in table : \E i \in 1 .. N : s[i] = r
  BY <1>6 DEF Surjection
<1> QED
  BY <1>1, <1>2, <1>3, <1>7

LEMMA ListingIsSorted ==
    ASSUME NEW table, IsFiniteSet(table), \A r \in table : r.date \in Nat,
           NEW s \in Listings(table)
    PROVE  \A i, j \in 1 .. Len(s) : i < j => Before(s[i], s[j])
<1>1. Len(s) \in Nat /\ \A i \in 1 .. Len(s) : s[i] \in table /\ s[i].date \in Nat
  BY ListingHoldsRows
<1>2. \A i \in 1 .. Len(s) - 1 : Before(s[i], s[i + 1])
  BY DEF Listings
<1> SUFFICES ASSUME NEW i \in 1 .. Len(s), NEW k \in 1 .. Len(s), i < k, ~ Before(s[i], s[k])
             PROVE  FALSE
  OBVIOUS
<1> DEFINE G == {j \in 1 .. Len(s) : i < j /\ ~ Before(s[i], s[j])}
<1>3. G \subseteq Nat /\ G # {}
  BY <1>1
<1>4. PICK m \in G : \A j \in G : m <= j
  <2> HIDE DEF G
  <2> QED BY <1>3, LeastNat
<1>5. m \in 2 .. Len(s) /\ i < m /\ ~ Before(s[i], s[m])
  BY <1>1, <1>4
<1>6. m - 1 \in 1 .. Len(s) - 1 /\ (m - 1) + 1 = m
  BY <1>1, <1>5
<1>7. Before(s[m - 1], s[m])
  <2>1. Before(s[m - 1], s[(m - 1) + 1])
    BY <1>2, <1>6
  <2> QED BY <2>1, <1>6
<1>8. i # m - 1
  BY <1>7, <1>5
<1>9. i < m - 1 /\ m - 1 \in 1 .. Len(s)
  BY <1>8, <1>5, <1>1
<1>10. m - 1 \notin G
  BY <1>4, <1>5, <1>1
<1>11. Before(s[i], s[m - 1])
  BY <1>10, <1>9
<1>12. s[i].date \in Nat /\ s[m - 1].date \in Nat /\ s[m].date \in Nat
  BY <1>1, <1>9, <1>5
<1> QED
  BY <1>11, <1>7, <1>5, <1>12 DEF Before

(* A set of rows has as many places in a listing as it has rows.           *)
LEMMA PlacesOfRows ==
    ASSUME IsFiniteSet(rows), NEW s \in Listings(rows), NEW A, A \subseteq rows
    PROVE  Cardinality({i \in 1 .. Len(s) : s[i] \in A}) = Cardinality(A)
<1> DEFINE D == {i \in 1 .. Len(s) : s[i] \in A}
           f == [i \in D |-> s[i]]
<1>1. /\ Len(s) \in Nat
      /\ \A i, j \in 1 .. Len(s) : s[i] = s[j] => i = j
      /\ \A r \in rows : \E i \in 1 .. Len(s) : s[i] = r
  BY ListingHoldsRows
<1>2. IsFiniteSet(D)
  <2>1. IsFiniteSet(1 .. Len(s))
    BY <1>1, FS_Interval
  <2> QED BY <2>1, FS_Subset
<1>3. f \in [D -> A] /\ \A i \in D : f[i] = s[i]
  OBVIOUS
<1>4. \A i, j \in D : f[i] = f[j] => i = j
  BY <1>1
<1>5. \A r \in A : \E i \in D : f[i] = r
  <2> SUFFICES ASSUME NEW r \in A PROVE \E i \in D : f[i] = r
    OBVIOUS
  <2>1. PICK i \in 1 .. Len(s) : s[i] = r
    BY <1>1
  <2>2. i \in D
    BY <2>1
  <2> QED BY <2>1, <2>2
<1> QED
  <2> HIDE DEF f, D
  <2>1. Cardinality(A) = Cardinality(D)
    BY <1>2, <1>3, <1>4, <1>5, SameSize
  <2> QED BY <2>1 DEF D

(* The counts of a day's rows, and of those ahead of it, are natural       *)
(* numbers, and no more than the table has together.                       *)
LEMMA DayCounts ==
    ASSUME IsFiniteSet(rows), NEW d \in Nat, \A r \in rows : r.date \in Nat
    PROVE  /\ Cardinality(rows) \in Nat
           /\ Cardinality(AheadOf(d)) \in Nat /\ Cardinality(OfDay(d)) \in Nat
           /\ Cardinality(AheadOf(d) \cup OfDay(d)) = Cardinality(AheadOf(d)) + Cardinality(OfDay(d))
           /\ Cardinality(AheadOf(d)) + Cardinality(OfDay(d)) <= Cardinality(rows)
<1>1. AheadOf(d) \subseteq rows /\ OfDay(d) \subseteq rows /\ AheadOf(d) \cap OfDay(d) = {}
  BY DEF AheadOf, OfDay
<1>2. IsFiniteSet(AheadOf(d)) /\ IsFiniteSet(OfDay(d))
  BY <1>1, FS_Subset
<1>3. Cardinality(rows) \in Nat /\ Cardinality(AheadOf(d)) \in Nat /\ Cardinality(OfDay(d)) \in Nat
  BY <1>2, FS_CardinalityType
<1>4. /\ Cardinality(AheadOf(d) \cup OfDay(d))
           = Cardinality(AheadOf(d)) + Cardinality(OfDay(d)) - Cardinality(AheadOf(d) \cap OfDay(d))
      /\ Cardinality(AheadOf(d) \cap OfDay(d)) = 0
  BY <1>1, <1>2, FS_Union, FS_EmptySet
<1>5. AheadOf(d) \cup OfDay(d) \in SUBSET rows
  BY <1>1
<1>6. Cardinality(AheadOf(d) \cup OfDay(d)) <= Cardinality(rows)
  BY <1>5, FS_Subset
<1> QED
  BY <1>3, <1>4, <1>6

(* The rows of a day stand right after those ahead of the day.             *)
LEMMA PlacesOfDay ==
    ASSUME IsFiniteSet(rows), NEW d \in Nat, \A r \in rows : r.date \in Nat,
           order \in {"ASC", "DESC"}, NEW s \in Listings(rows)
    PROVE  \A i \in 1 .. Len(s) :
              s[i].date = d <=> /\ Cardinality(AheadOf(d)) < i
                                /\ i <= Cardinality(AheadOf(d)) + Cardinality(OfDay(d))
<1> DEFINE A == Cardinality(AheadOf(d))
           B == Cardinality(AheadOf(d)) + Cardinality(OfDay(d))
           D == {i \in 1 .. Len(s) : s[i] \in AheadOf(d)}
           E == {i \in 1 .. Len(s) : s[i] \in AheadOf(d) \cup OfDay(d)}
<1>1. Len(s) \in Nat /\ \A i \in 1 .. Len(s) : s[i] \in rows /\ s[i].date \in Nat
  BY ListingHoldsRows
<1>2. \A i, j \in 1 .. Len(s) : i < j => Before(s[i], s[j])
  BY ListingIsSorted
<1>3. D = 1 .. A /\ A \in Nat
  <2>1. \A j \in D : \A i \in 1 .. Len(s) : i < j => i \in D
    BY <1>1, <1>2 DEF Before, AheadOf
  <2>2. D = 1 .. Cardinality(D) /\ Cardinality(D) \in Nat
    <3> HIDE DEF D
    <3>1. D \subseteq 1 .. Len(s)
      BY DEF D
    <3> QED BY <1>1, <2>1, <3>1, FirstPlaces
  <2>3. Cardinality(D) = A
    <3>1. AheadOf(d) \subseteq rows
      BY DEF AheadOf
    <3> QED BY <3>1, PlacesOfRows
  <2> QED BY <2>2, <2>3
<1>4. E = 1 .. B /\ B \in Nat
  <2>1. \A j \in E : \A i \in 1 .. Len(s) : i < j => i \in E
    BY <1>1, <1>2 DEF Before, AheadOf, OfDay
  <2>2. E = 1 .. Cardinality(E) /\ Cardinality(E) \in Nat
    <3> HIDE DEF E
    <3>1. E \subseteq 1 .. Len(s)
      BY DEF E
    <3> QED BY <1>1, <2>1, <3>1, FirstPlaces
  <2>3. Cardinality(E) = Cardinality(AheadOf(d) \cup OfDay(d))
    <3>1. AheadOf(d) \cup OfDay(d) \subseteq rows
      BY DEF AheadOf, OfDay
    <3> QED BY <3>1, PlacesOfRows
  <2> QED BY <2>2, <2>3, DayCounts
<1>5. \A i \in 1 .. Len(s) : s[i].date = d <=> i \in E /\ i \notin D
  BY <1>1 DEF AheadOf, OfDay
<1> QED
  <2> HIDE DEF A, B, D, E
  <2>1. \A i \in 1 .. Len(s) : s[i].date = d <=> A < i /\ i <= B
    BY <1>1, <1>3, <1>4, <1>5
  <2> QED BY <2>1 DEF A, B

-----------------------------------------------------------------------------
(***************************************************************************)
(* Prices.  The recursive functions of FillPrices exist: each has a        *)
(* definition that is not recursive, by the last and the first entry with  *)
(* a price.                                                                *)
(***************************************************************************)
LEMMA PreviousPriceRecurs ==
    ASSUME NEW n \in Nat, NEW data, Len(data) = n, \A j \in 1 .. n : data[j].price \in Nat
    PROVE  /\ PreviousPrice(data)[0] = 0
           /\ \A i \in 1 .. n : PreviousPrice(data)[i] =
                IF data[i].price # 0 THEN data[i].price ELSE PreviousPrice(data)[i - 1]
<1> DEFINE IsLast(i, j) == j \in 1 .. i /\ data[j].price # 0 /\ \A k \in j + 1 .. i : data[k].price = 0
           g == [i \in 0 .. n |->
                   IF \A j \in 1 .. i : data[j].price = 0 THEN 0
                   ELSE data[CHOOSE j \in Nat : IsLast(i, j)].price]
           Body(f) == [i \in 0 .. n |-> IF i = 0 THEN 0
                         ELSE IF data[i].price # 0 THEN data[i].price ELSE f[i - 1]]
<1>1. \A i \in 0 .. n : (\E j \in 1 .. i : data[j].price # 0) => \E j \in Nat : IsLast(i, j)
  <2> SUFFICES ASSUME NEW i \in 0 .. n, \E j \in 1 .. i : data[j].price # 0
               PROVE  \E j \in Nat : IsLast(i, j)
    OBVIOUS
  <2> DEFINE T == {j \in 1 .. i : data[j].price # 0}
  <2>1. T \subseteq 0 .. i /\ T # {} /\ i \in Nat
    OBVIOUS
  <2>2. PICK m \in T : \A j \in T : j <= m
    <3> HIDE DEF T
    <3> QED BY <2>1, GreatestNat
  <2>3. m \in Nat /\ m \in 1 .. i /\ data[m].price # 0
    BY <2>2
  <2>4. ASSUME NEW k \in m + 1 .. i PROVE data[k].price = 0
    BY <2>2, <2>3
  <2> QED BY <2>3, <2>4
<1>2. \A i \in 0 .. n : \A j, k \in Nat : IsLast(i, j) /\ IsLast(i, k) => j = k
  OBVIOUS
<1>3. ASSUME NEW i \in 0 .. n, NEW j \in Nat, IsLast(i, j)
      PROVE  g[i] = data[j].price
  <2>1. (CHOOSE k \in Nat : IsLast(i, k)) = j
    <3> HIDE DEF IsLast
    <3> QED BY <1>2, <1>3
  <2>2. ~ \A k \in 1 .. i : data[k].price = 0
    BY <1>3
  <2> HIDE DEF IsLast
  <2> QED BY <2>1, <2>2
<1>4. ASSUME NEW i \in 0 .. n, \A j \in 1 .. i : data[j].price = 0
      PROVE  g[i] = 0
  BY <1>4
<1>5. \A i \in 0 .. n : g[i] = IF i = 0 THEN 0
                         ELSE IF data[i].price # 0 THEN data[i].price ELSE g[i - 1]
  <2> SUFFICES ASSUME NEW i \in 0 .. n
               PROVE  g[i] = IF i = 0 THEN 0
                         ELSE IF data[i].price # 0 THEN data[i].price ELSE g[i - 1]
    OBVIOUS
  <2>1. CASE i = 0
    <3>1. \A j \in 1 .. i : data[j].price = 0
      BY <2>1
    <3> HIDE DEF g
    <3> QED BY <3>1, <1>4, <2>1
  <2>2. CASE i # 0 /\ data[i].price # 0
    <3>1. IsLast(i, i) /\ i \in Nat
      BY <2>2
    <3> HIDE DEF g, IsLast
    <3> QED BY <3>1, <1>3, <2>2
  <2>3. CASE i # 0 /\ data[i].price = 0
    <3>1. i - 1 \in 0 .. n
      BY <2>3
    <3>2. CASE \A j \in 1 .. i : data[j].price = 0
      <4>1. \A j \in 1 .. i - 1 : data[j].price = 0
        BY <3>2
      <4> HIDE DEF g
      <4> QED BY <3>1, <3>2, <4>1, <1>4, <2>3
    <3>3. CASE \E j \in 1 .. i : data[j].price # 0
      <4>1. PICK j \in Nat : IsLast(i, j)
        BY <1>1, <3>3
      <4>2. IsLast(i - 1, j)
        BY <4>1, <2>3
      <4> HIDE DEF g, IsLast
      <4> QED BY <3>1, <4>1, <4>2, <1>3, <2>3
    <3> QED BY <3>2, <3>3
  <2> QED BY <2>1, <2>2, <2>3
<1>6. g = Body(g)
  <2>1. g = [i \in 0 .. n |-> g[i]]
    OBVIOUS
  <2> HIDE DEF g
  <2> QED BY <1>5, <2>1
<1>7. PreviousPrice(data) = CHOOSE f : f = Body(f)
  BY DEF PreviousPrice
<1>8. PreviousPrice(data) = Body(PreviousPrice(data))
  <2> HIDE DEF g, Body
  <2> QED BY <1>6, <1>7
<1>9. PICK f : f = PreviousPrice(data)
  OBVIOUS
<1>10. f = Body(f)
  <2> HIDE DEF Body
  <2> QED BY <1>8, <1>9
<1>11. f[0] = 0 /\ \A i \in 1 .. n : f[i] = IF data[i].price # 0 THEN data[i].price ELSE f[i - 1]
  BY <1>10
<1> QED
  BY <1>9, <1>11

LEMMA FirstPriceRecurs ==
    ASSUME NEW n \in Nat, NEW data, Len(data) = n, \A j \in 1 .. n : data[j].price \in Nat
    PROVE  /\ FirstPrice(data)[0] = 0
           /\ \A i \in 1 .. n : FirstPrice(data)[i] =
                IF FirstPrice(data)[i - 1] # 0 THEN FirstPrice(data)[i - 1] ELSE data[i].price
<1> DEFINE IsFirst(i, j) == j \in 1 .. i /\ data[j].price # 0 /\ \A k \in 1 .. j - 1 : data[k].price = 0
           g == [i \in 0 .. n |->
                   IF \A j \in 1 .. i : data[j].price = 0 THEN 0
                   ELSE data[CHOOSE j \in Nat : IsFirst(i, j)].price]
           Body(f) == [i \in 0 .. n |-> IF i = 0 THEN 0
                         ELSE IF f[i - 1] # 0 THEN f[i - 1] ELSE data[i].price]
<1>1. \A i \in 0 .. n : (\E j \in 1 .. i : data[j].price # 0) => \E j \in Nat : IsFirst(i, j)
  <2> SUFFICES ASSUME NEW i \in 0 .. n, \E j \in 1 .. i : data[j].price # 0
               PROVE  \E j \in Nat : IsFirst(i, j)
    OBVIOUS
  <2> DEFINE T == {j \in 1 .. i : data[j].price # 0}
  <2>1. T \subseteq Nat /\ T # {} /\ i \in Nat
    <3>1. \A j \in 1 .. i : j \in Nat
      OBVIOUS
    <3> QED BY <3>1
  <2>2. PICK m \in T : \A j \in T : m <= j
    <3> HIDE DEF T
    <3> QED BY <2>1, LeastNat
  <2>3. m \in Nat /\ m \in 1 .. i /\ data[m].price # 0
    BY <2>2
  <2>4. ASSUME NEW k \in 1 .. m - 1 PROVE data[k].price = 0
    BY <2>2, <2>3
  <2> QED BY <2>3, <2>4
<1>2. \A i \in 0 .. n : \A j, k \in Nat : IsFirst(i, j) /\ IsFirst(i, k) => j = k
  OBVIOUS
<1>3. ASSUME NEW i \in 0 .. n, NEW j \in Nat, IsFirst(i, j)
      PROVE  g[i] = data[j].price
  <2>1. (CHOOSE k \in Nat : IsFirst(i, k)) = j
    <3> HIDE DEF IsFirst
    <3> QED BY <1>2, <1>3
  <2>2. ~ \A k \in 1 .. i : data[k].price = 0
    BY <1>3
  <2> HIDE DEF IsFirst
  <2> QED BY <2>1, <2>2
<1>4. ASSUME NEW i \in 0 .. n, \A j \in 1 .. i : data[j].price = 0
      PROVE  g[i] = 0
  BY <1>4
<1>5. \A i \in 0 .. n : g[i] = IF i = 0 THEN 0
                         ELSE IF g[i - 1] # 0 THEN g[i - 1] ELSE data[i].price
  <2> SUFFICES ASSUME NEW i \in 0 .. n
               PROVE  g[i] = IF i = 0 THEN 0
                         ELSE IF g[i - 1] # 0 THEN g[i - 1] ELSE data[i].price
    OBVIOUS
  <2>1. CASE i = 0
    <3>1. \A j \in 1 .. i : data[j].price = 0
      BY <2>1
    <3> HIDE DEF g
    <3> QED BY <3>1, <1>4, <2>1
  <2>2. CASE i # 0 /\ \E j \in 1 .. i - 1 : data[j].price # 0
    <3>1. i - 1 \in 0 .. n
      BY <2>2
    <3>2. PICK j \in Nat : IsFirst(i - 1, j)
      BY <1>1, <3>1, <2>2
    <3>3. IsFirst(i, j) /\ data[j].price # 0
      BY <3>2
    <3> HIDE DEF g, IsFirst
    <3> QED BY <3>1, <3>2, <3>3, <1>3, <2>2
  <2>3. CASE i # 0 /\ \A j \in 1 .. i - 1 : data[j].price = 0
    <3>1. i - 1 \in 0 .. n /\ i \in 1 .. n
      BY <2>3
    <3>2. g[i - 1] = 0
      <4> HIDE DEF g
      <4> QED BY <3>1, <2>3, <1>4
    <3>3. CASE data[i].price = 0
      <4>1. \A j \in 1 .. i : data[j].price = 0
        BY <3>3, <2>3
      <4>2. g[i] = 0
        <5> HIDE DEF g
        <5> QED BY <4>1, <1>4
      <4> HIDE DEF g
      <4> QED BY <3>2, <3>3, <4>2, <2>3
    <3>4. CASE data[i].price # 0
      <4>1. IsFirst(i, i) /\ i \in Nat
        BY <3>4, <2>3, <3>1
      <4> HIDE DEF g, IsFirst
      <4> QED BY <4>1, <1>3, <2>3, <3>2
    <3> QED BY <3>3, <3>4
  <2> QED BY <2>1, <2>2, <2>3
<1>6. g = Body(g)
  <2>1. g = [i \in 0 .. n |-> g[i]]
    OBVIOUS
  <2> HIDE DEF g
  <2> QED BY <1>5, <2>1
<1>7. FirstPrice(data) = CHOOSE f : f = Body(f)
  BY DEF FirstPrice
<1>8. FirstPrice(data) = Body(FirstPrice(data))
  <2> HIDE DEF g, Body
  <2> QED BY <1>6, <1>7
<1>9. PICK f : f = FirstPrice(data)
  OBVIOUS
<1>10. f = Body(f)
  <2> HIDE DEF Body
  <2> QED BY <1>8, <1>9
<1>11. f[0] = 0 /\ \A i \in 1 .. n : f[i] = IF f[i - 1] # 0 THEN f[i - 1] ELSE data[i].price
  BY <1>10
<1> QED
  BY <1>9, <1>11

(* Each place has the price of the last entry with one, if there is one.   *)
LEMMA PreviousPriceIsNearest ==
    ASSUME NEW n \in Nat, NEW data, Len(data) = n, \A j \in 1 .. n : data[j].price \in Nat
    PROVE  \A i \in 0 .. n :
              IF PreviousPrice(data)[i] = 0 THEN \A j \in 1 .. i : data[j].price = 0
              ELSE \E j \in 1 .. i : /\ data[j].price = PreviousPrice(data)[i]
                                     /\ \A k \in j + 1 .. i : data[k].price = 0
<1>1. PICK f : f = PreviousPrice(data)
  OBVIOUS
<1>2. f[0] = 0 /\ \A i \in 1 .. n : f[i] = IF data[i].price # 0 THEN data[i].price ELSE f[i - 1]
  BY <1>1, PreviousPriceRecurs
<1> DEFINE Nearest(i) == IF f[i] = 0 THEN \A j \in 1 .. i : data[j].price = 0
                         ELSE \E j \in 1 .. i : /\ data[j].price = f[i]
                                                /\ \A k \in j + 1 .. i : data[k].price = 0
           G == {i \in 0 .. n : ~ Nearest(i)}
<1> SUFFICES ASSUME G # {} PROVE FALSE
  BY <1>1
<1>3. PICK m \in G : \A i \in G : m <= i
  <2>1. G \subseteq Nat
    <3>1. \A i \in 0 .. n : i \in Nat
      OBVIOUS
    <3> QED BY <3>1
  <2> HIDE DEF G
  <2> QED BY <2>1, LeastNat
<1>4. m \in 0 .. n /\ ~ Nearest(m)
  BY <1>3
<1>5. m # 0
  <2>1. Nearest(0)
    BY <1>2
  <2> HIDE DEF Nearest
  <2> QED BY <2>1, <1>4
<1>6. m - 1 \in 0 .. n /\ m \in 1 .. n /\ m - 1 < m
  BY <1>4, <1>5
<1>7. Nearest(m - 1)
  <2> HIDE DEF Nearest
  <2> QED BY <1>3, <1>4, <1>6
<1>8. f[m] = IF data[m].price # 0 THEN data[m].price ELSE f[m - 1]
  BY <1>2, <1>6
<1>9. CASE data[m].price # 0
  <2>1. f[m] = data[m].price /\ f[m] # 0
    BY <1>8, <1>9
  <2>2. \A k \in m + 1 .. m : data[k].price = 0
    BY <1>6
  <2>3. Nearest(m)
    BY <2>1, <2>2, <1>6
  <2> QED BY <2>3, <1>4
<1>10. CASE data[m].price = 0
  <2>1. f[m] = f[m - 1]
    BY <1>8, <1>10
  <2>2. Nearest(m)
    BY <2>1, <1>7, <1>10, <1>6
  <2> QED BY <2>2, <1>4
<1> QED
  BY <1>9, <1>10

(* And the first price is that of the first entry with one.                *)
LEMMA FirstPriceIsFirst ==
    ASSUME NEW n \in Nat, NEW data, Len(data) = n, \A j \in 1 .. n : data[j].price \in Nat
    PROVE  \A i \in 0 .. n :
              IF FirstPrice(data)[i] = 0 THEN \A j \in 1 .. i : data[j].price = 0
              ELSE \E j \in 1 .. i : /\ data[j].price = FirstPrice(data)[i]
                                     /\ \A k \in 1 .. j - 1 : data[k].price = 0
<1>1. PICK f : f = FirstPrice(data)
  OBVIOUS
<1>2. f[0] = 0 /\ \A i \in 1 .. n : f[i] = IF f[i - 1] # 0 THEN f[i - 1] ELSE data[i].price
  BY <1>1, FirstPriceRecurs
<1> DEFINE First(i) == IF f[i] = 0 THEN \A j \in 1 .. i : data[j].price = 0
                       ELSE \E j \in 1 .. i : /\ data[j].price = f[i]
                                              /\ \A k \in 1 .. j - 1 : data[k].price = 0
           G == {i \in 0 .. n : ~ First(i)}
<1> SUFFICES ASSUME G # {} PROVE FALSE
  BY <1>1
<1>3. PICK m \in G : \A i \in G : m <= i
  <2>1. G \subseteq Nat
    <3>1. \A i \in 0 .. n : i \in Nat
      OBVIOUS
    <3> QED BY <3>1
  <2> HIDE DEF G
  <2> QED BY <2>1, LeastNat
<1>4. m \in 0 .. n /\ ~ First(m)
  BY <1>3
<1>5. m # 0
  <2>1. First(0)
    BY <1>2
  <2> HIDE DEF First
  <2> QED BY <2>1, <1>4
<1>6. m - 1 \in 0 .. n /\ m \in 1 .. n /\ m - 1 < m
  BY <1>4, <1>5
<1>7. First(m - 1)
  <2> HIDE DEF First
  <2> QED BY <1>3, <1>4, <1>6
<1>8. f[m] = IF f[m - 1] # 0 THEN f[m - 1] ELSE data[m].price
  BY <1>2, <1>6
<1>9. CASE f[m - 1] # 0
  <2>1. f[m] = f[m - 1]
    BY <1>8, <1>9
  <2>2. First(m)
    BY <2>1, <1>7, <1>9, <1>6
  <2> QED BY <2>2, <1>4
<1>10. CASE f[m - 1] = 0
  <2>1. f[m] = data[m].price /\ \A j \in 1 .. m - 1 : data[j].price = 0
    BY <1>8, <1>10, <1>7
  <2>2. First(m)
    BY <2>1, <1>6
  <2> QED BY <2>2, <1>4
<1> QED
  BY <1>9, <1>10

(* Filling in prices changes nothing else of an entry; an entry without a  *)
(* price takes that of the nearest entry before it with one, or else that  *)
(* of the first entry with one.                                            *)
LEMMA FilledPrices ==
    ASSUME NEW data \in Seq(Shape)
    PROVE  /\ FillPrices(data) \in Seq(Shape) /\ Len(FillPrices(data)) = Len(data)
           /\ \A i \in 1 .. Len(data) :
                 LET e == FillPrices(data)[i]
                 IN  /\ e.id = data[i].id /\ e.source = data[i].source /\ e.date = data[i].date
                     /\ e.since = data[i].since /\ e.spends = data[i].spends
                     /\ IF \A j \in 1 .. Len(data) : data[j].price = 0 THEN e.price = 0
                        ELSE \E j \in 1 .. Len(data) :
                               /\ data[j].price # 0 /\ e.price = data[j].price
                               /\ \/ j <= i /\ \A k \in j + 1 .. i : data[k].price = 0
                                  \/ j > i /\ \A k \in 1 .. j - 1 : data[k].price = 0
<1>1. PICK n \in Nat : n = Len(data) /\ DOMAIN data = 1 .. n
  OBVIOUS
<1>2. \A j \in 1 .. n : data[j] \in Shape /\ data[j].price \in Nat
  <2>1. \A j \in 1 .. n : data[j] \in Shape
    BY <1>1
  <2> QED BY <2>1 DEF Shape
<1>3. PICK f, g : f = PreviousPrice(data) /\ g = FirstPrice(data)[n]
  OBVIOUS
<1>4. \A i \in 1 .. n : FillPrices(data)[i] = [data[i] EXCEPT !.price = IF f[i] # 0 THEN f[i] ELSE g]
  BY <1>1, <1>3 DEF FillPrices
<1>5. \A i \in 0 .. n :
         IF f[i] = 0 THEN \A j \in 1 .. i : data[j].price = 0
         ELSE \E j \in 1 .. i : data[j].price = f[i] /\ \A k \in j + 1 .. i : data[k].price = 0
  BY <1>1, <1>2, <1>3, PreviousPriceIsNearest
<1>6. IF g = 0 THEN \A j \in 1 .. n : data[j].price = 0
      ELSE \E j \in 1 .. n : data[j].price = g /\ \A k \in 1 .. j - 1 : data[k].price = 0
  BY <1>1, <1>2, <1>3, FirstPriceIsFirst
<1>7. PICK fill : fill = FillPrices(data)
  OBVIOUS
<1>8. fill = [i \in 1 .. n |-> fill[i]]
  BY <1>1, <1>7 DEF FillPrices
<1>9. ASSUME NEW i \in 1 .. n
      PROVE  /\ fill[i] \in Shape /\ fill[i].price = IF f[i] # 0 THEN f[i] ELSE g
             /\ fill[i].id = data[i].id /\ fill[i].source = data[i].source
             /\ fill[i].date = data[i].date /\ fill[i].since = data[i].since
             /\ fill[i].spends = data[i].spends
  <2>1. PICK p : p = IF f[i] # 0 THEN f[i] ELSE g
    OBVIOUS
  <2>2. fill[i] = [data[i] EXCEPT !.price = p]
    BY <1>4, <1>7, <2>1
  <2>3. i \in 0 .. n /\ data[i] \in Shape
    BY <1>2
  <2>4. p \in Nat
    <3>1. CASE f[i] # 0
      BY <3>1, <2>1, <1>5, <2>3, <1>2
    <3>2. CASE f[i] = 0 /\ g # 0
      BY <3>2, <2>1, <1>6, <1>2
    <3>3. CASE f[i] = 0 /\ g = 0
      BY <3>3, <2>1
    <3> QED BY <3>1, <3>2, <3>3
  <2>5. /\ fill[i] \in Shape /\ fill[i].price = p
        /\ fill[i].id = data[i].id /\ fill[i].source = data[i].source
        /\ fill[i].date = data[i].date /\ fill[i].since = data[i].since
        /\ fill[i].spends = data[i].spends
    BY <2>2, <2>3, <2>4 DEF Shape
  <2> QED BY <2>1, <2>5
<1> DEFINE Near(i) == \E j \in 1 .. n :
                         /\ data[j].price # 0 /\ fill[i].price = data[j].price
                         /\ \/ j <= i /\ \A k \in j + 1 .. i : data[k].price = 0
                            \/ j > i /\ \A k \in 1 .. j - 1 : data[k].price = 0
           none == \A j \in 1 .. n : data[j].price = 0
<1>10. ASSUME NEW i \in 1 .. n
       PROVE  IF none THEN fill[i].price = 0 ELSE Near(i)
  <2>1. i \in 0 .. n /\ fill[i].price = IF f[i] # 0 THEN f[i] ELSE g
    BY <1>9
  <2>2. CASE none
    <3>1. f[i] = 0 /\ g = 0
      BY <1>5, <1>6, <2>1, <2>2
    <3> QED BY <3>1, <2>1, <2>2
  <2>3. CASE ~ none /\ f[i] # 0
    <3>1. PICK j \in 1 .. i : data[j].price = f[i] /\ \A k \in j + 1 .. i : data[k].price = 0
      BY <1>5, <2>1, <2>3
    <3>2. j \in 1 .. n /\ j <= i /\ data[j].price # 0 /\ fill[i].price = data[j].price
      BY <3>1, <2>1, <2>3
    <3>3. Near(i)
      BY <3>1, <3>2
    <3> QED BY <3>3, <2>3
  <2>4. CASE ~ none /\ f[i] = 0
    <3>1. g # 0
      BY <1>6, <2>4
    <3>2. PICK j \in 1 .. n : data[j].price = g /\ \A k \in 1 .. j - 1 : data[k].price = 0
      BY <1>6, <3>1
    <3>3. \A k \in 1 .. i : data[k].price = 0
      BY <1>5, <2>1, <2>4
    <3>4. j > i
      BY <3>1, <3>2, <3>3
    <3>5. data[j].price # 0 /\ fill[i].price = data[j].price
      BY <3>1, <3>2, <2>1, <2>4
    <3>6. Near(i)
      BY <3>2, <3>4, <3>5
    <3> QED BY <3>6, <2>4
  <2> HIDE DEF Near, none
  <2> QED BY <2>2, <2>3, <2>4
<1>11. fill \in Seq(Shape) /\ Len(fill) = n
  BY <1>8, <1>9
<1> QED
  <2>1. \A i \in 1 .. n :
             /\ fill[i].id = data[i].id /\ fill[i].source = data[i].source
             /\ fill[i].date = data[i].date /\ fill[i].since = data[i].since
             /\ fill[i].spends = data[i].spends
             /\ IF \A j \in 1 .. n : data[j].price = 0 THEN fill[i].price = 0
                ELSE \E j \in 1 .. n :
                       /\ data[j].price # 0 /\ fill[i].price = data[j].price
                       /\ \/ j <= i /\ \A k \in j + 1 .. i : data[k].price = 0
                          \/ j > i /\ \A k \in 1 .. j - 1 : data[k].price = 0
    BY <1>9, <1>10
  <2> QED BY <1>1, <1>7, <1>11, <2>1

-----------------------------------------------------------------------------
(***************************************************************************)
(* Pages.  A page is the listing from its offset on, and its entries are   *)
(* typed.                                                                  *)
(***************************************************************************)
LEMMA WindowOfListing ==
    ASSUME NEW T, NEW s \in Seq(T), NEW o \in Nat
    PROVE  /\ Window(s, o) \in Seq(T)
           /\ Len(Window(s, o)) = IF o + PageSize < Len(s) THEN PageSize
                                  ELSE IF o < Len(s) THEN Len(s) - o ELSE 0
           /\ \A j \in 1 .. Len(Window(s, o)) :
                 o + j \in 1 .. Len(s) /\ Window(s, o)[j] = s[o + j]
<1>1. PageSize \in Nat /\ PageSize # 0
  BY PagesAssumption
<1>2. PICK e : e = IF o + PageSize < Len(s) THEN o + PageSize ELSE Len(s)
  OBVIOUS
<1>3. Window(s, o) = SubSeq(s, o + 1, e)
  BY <1>2 DEF Window
<1>4. PICK n \in Nat : n = Len(s) /\ e \in Nat /\ e <= n
  BY <1>1, <1>2
<1>5. PICK w : w = SubSeq(s, o + 1, e)
  OBVIOUS
<1>6. CASE o < e
  <2>1. Len(w) = e - o
    BY <1>4, <1>5, <1>6
  <2>2. w \in Seq(T)
    BY <1>4, <1>5, <1>6
  <2>3. \A j \in 1 .. e - o : w[j] = s[o + j]
    BY <1>4, <1>5, <1>6
  <2>4. \A j \in 1 .. e - o : o + j \in 1 .. n
    BY <1>4
  <2>5. e - o = IF o + PageSize < n THEN PageSize ELSE IF o < n THEN n - o ELSE 0
    BY <1>1, <1>2, <1>4, <1>6
  <2> QED BY <1>3, <1>4, <1>5, <2>1, <2>2, <2>3, <2>4, <2>5
<1>7. CASE ~ (o < e)
  <2>1. w = << >>
    BY <1>4, <1>5, <1>7
  <2>2. ~ (o + PageSize < n) /\ ~ (o < n)
    BY <1>1, <1>2, <1>4, <1>7
  <2> QED BY <1>3, <1>4, <1>5, <2>1, <2>2
<1> QED
  BY <1>4, <1>6, <1>7

Tables == rows \in SUBSET Row /\ spends \in SUBSET Spent /\ compPrices \in SUBSET Days

LEMMA OwnPriceIsNat ==
    ASSUME Tables, NEW r, r.date \in Days
    PROVE  OwnPrice(r) \in Nat /\ OwnPrice(r) \in {0, r.date}
<1>1. r.date \in Nat
  BY PagesAssumption DEF Days
<1> QED
  BY <1>1 DEF OwnPrice

LEMMA LatestOfIsNat ==
    ASSUME NEW T, \A x \in T : x.id \in Nat
    PROVE  LatestOf(T) \in SUBSET Nat
BY DEF LatestOf

(* An entry has the identity of its row.                                   *)
LEMMA EntryOfRow ==
    ASSUME Tables, NEW w \in Seq(rows), NEW i \in 1 .. Len(w)
    PROVE  /\ EntryOf(w, i) \in Shape
           /\ EntryOf(w, i).id = w[i].id /\ EntryOf(w, i).source = w[i].source
           /\ EntryOf(w, i).date = w[i].date
           /\ endpoint = "v2/incentives" => EntryOf(w, i).price = OwnPrice(w[i])
           /\ endpoint \in {"revenue", "v2/revenue"} => EntryOf(w, i).since = DifferenceOnPage(w, i)
<1>1. PICK r \in rows : r = w[i]
  OBVIOUS
<1>2. r.id \in Nat /\ r.source \in Sources /\ r.date \in Days
  BY <1>1 DEF Tables, Row
<1>3. ASSUME NEW since \in SUBSET Nat, NEW spent \in SUBSET Nat, NEW price \in Nat, NEW e,
             e = Entry(r, since, spent, price)
      PROVE  /\ e \in Shape /\ e.id = r.id /\ e.source = r.source /\ e.date = r.date
             /\ e.price = price /\ e.since = since
  BY <1>2, <1>3 DEF Shape, Entry
<1>4. CASE endpoint = "v2/incentives"
  <2>1. Lag(r) \in SUBSET Nat
    BY LatestOfIsNat DEF Lag, Tables, Row
  <2>2. LatestOf(SpendsOf(r)) \in SUBSET Nat
    BY LatestOfIsNat DEF SpendsOf, Tables, Spent
  <2>3. OwnPrice(r) \in Nat
    BY <1>2, OwnPriceIsNat
  <2>4. EntryOf(w, i) = Entry(r, Lag(r), LatestOf(SpendsOf(r)), OwnPrice(r))
    BY <1>1, <1>4 DEF EntryOf
  <2>5. PICK since \in SUBSET Nat, spent \in SUBSET Nat, price \in Nat :
            since = Lag(r) /\ spent = LatestOf(SpendsOf(r)) /\ price = OwnPrice(r)
    BY <2>1, <2>2, <2>3
  <2> QED BY <1>1, <1>3, <1>4, <2>4, <2>5
<1>5. CASE endpoint \in {"revenue", "v2/revenue"}
  <2>1. DifferenceOnPage(w, i) \in SUBSET Nat
    <3>1. \A j \in DOMAIN w : w[j].id \in Nat
      BY DEF Tables, Row
    <3> QED BY <3>1 DEF DifferenceOnPage
  <2>2. EntryOf(w, i) = Entry(r, DifferenceOnPage(w, i), {}, 0)
    BY <1>1, <1>5 DEF EntryOf
  <2>3. PICK since \in SUBSET Nat : since = DifferenceOnPage(w, i)
    BY <2>1
  <2> QED BY <1>1, <1>3, <1>5, <2>2, <2>3
<1>6. CASE endpoint # "v2/incentives" /\ endpoint \notin {"revenue", "v2/revenue"}
  <2>1. EntryOf(w, i) = Entry(r, {}, {}, 0)
    BY <1>1, <1>6 DEF EntryOf
  <2> QED BY <1>1, <1>3, <1>6, <2>1
<1> QED
  BY <1>4, <1>5, <1>6

(* What ReadRows makes of a listing.                                       *)
LEMMA DataOfListing ==
    ASSUME Tables, IsFiniteSet(rows), NEW s \in Listings(rows), NEW o \in Nat
    PROVE  /\ EntriesOf(s, o) \in Seq(Shape)
           /\ DataOf(s, o) \in Seq(Shape) /\ Len(DataOf(s, o)) = Len(Window(s, o))
           /\ Len(EntriesOf(s, o)) = Len(Window(s, o))
           /\ \A j \in 1 .. Len(Window(s, o)) :
                 /\ o + j \in 1 .. Len(s) /\ Window(s, o)[j] = s[o + j] /\ s[o + j] \in rows
                 /\ EntriesOf(s, o)[j] = EntryOf(Window(s, o), j)
                 /\ DataOf(s, o)[j].id = s[o + j].id
                 /\ DataOf(s, o)[j].source = s[o + j].source
                 /\ DataOf(s, o)[j].date = s[o + j].date
                 /\ DataOf(s, o)[j].since = EntriesOf(s, o)[j].since
<1>1. s \in Seq(rows) /\ \A j \in 1 .. Len(s) : s[j] \in rows
  BY ListingHoldsRows
<1>2. PICK w : w = Window(s, o)
  OBVIOUS
<1>3. /\ w \in Seq(rows)
      /\ \A j \in 1 .. Len(w) : o + j \in 1 .. Len(s) /\ w[j] = s[o + j]
  BY <1>1, <1>2, WindowOfListing
<1>4. PICK n \in Nat : n = Len(w) /\ DOMAIN w = 1 .. n
  BY <1>3
<1>5. PICK es : es = EntriesOf(s, o)
  OBVIOUS
<1>6. es = [i \in 1 .. n |-> EntryOf(w, i)]
  BY <1>2, <1>4, <1>5 DEF EntriesOf, Join
<1>7. \A i \in 1 .. n : /\ es[i] = EntryOf(w, i) /\ es[i] \in Shape
                        /\ es[i].id = w[i].id /\ es[i].source = w[i].source /\ es[i].date = w[i].date
  BY <1>3, <1>4, <1>6, EntryOfRow
<1>8. es \in Seq(Shape) /\ Len(es) = n
  <2>1. es = [i \in 1 .. n |-> es[i]]
    BY <1>6
  <2>2. \A i \in 1 .. n : es[i] \in Shape
    BY <1>7
  <2> QED BY <2>1, <2>2
<1>9. PICK data : data = DataOf(s, o)
  OBVIOUS
<1>10. /\ data \in Seq(Shape) /\ Len(data) = n
       /\ \A i \in 1 .. n : /\ data[i].id = es[i].id /\ data[i].source = es[i].source
                            /\ data[i].date = es[i].date /\ data[i].since = es[i].since
  <2>1. CASE endpoint = "v2/incentives"
    <3>1. data = FillPrices(es)
      BY <1>5, <1>9, <2>1 DEF DataOf
    <3> QED BY <1>8, <3>1, FilledPrices
  <2>2. CASE endpoint # "v2/incentives"
    BY <1>5, <1>8, <1>9, <2>2 DEF DataOf
  <2> QED BY <2>1, <2>2
<1>11. \A j \in 1 .. n :
                 /\ o + j \in 1 .. Len(s) /\ w[j] = s[o + j] /\ s[o + j] \in rows
                 /\ es[j] = EntryOf(w, j)
                 /\ data[j].id = s[o + j].id /\ data[j].source = s[o + j].source
                 /\ data[j].date = s[o + j].date /\ data[j].since = es[j].since
  BY <1>1, <1>3, <1>4, <1>7, <1>10
<1> QED
  BY <1>2, <1>4, <1>5, <1>8, <1>9, <1>10, <1>11

-----------------------------------------------------------------------------
(***************************************************************************)
(* Types.  The table has no more rows than were inserted.                  *)
(***************************************************************************)
RowsCounted == IsFiniteSet(rows) /\ Cardinality(rows) <= version
OffsetsInRange ==
    \A c \in Clients : client[c].pc \in {"ask", "read"} => client[c].offset \in Offsets
TypeInv == TypeOK /\ RowsCounted /\ OffsetsInRange

LEMMA TypedTables ==
    ASSUME TypeInv
    PROVE  /\ Tables /\ IsFiniteSet(rows) /\ \A r \in rows : r.date \in Nat
           /\ version \in Nat /\ clears \in Nat /\ Cardinality(rows) \in 0 .. MaxRows
           /\ MaxRows \in Nat /\ MaxClears \in Nat /\ PageSize \in Nat /\ PageSize >= 1 /\ Days \subseteq Nat
<1>0. MaxRows \in Nat /\ MaxClears \in Nat /\ PageSize \in Nat /\ PageSize >= 1 /\ Days \subseteq Nat
  BY PagesAssumption DEF Days
<1>1. MaxRows \in Nat /\ version \in 0 .. MaxRows /\ clears \in 0 .. MaxClears
  BY <1>0 DEF TypeInv, TypeOK
<1>2. PICK n \in Nat : n = Cardinality(rows) /\ n <= version /\ IsFiniteSet(rows)
  BY FS_CardinalityType DEF TypeInv, RowsCounted
<1>3. Tables /\ \A r \in rows : r.date \in Days
  BY DEF TypeInv, TypeOK, Tables, Row
<1>4. Cardinality(rows) \in 0 .. MaxRows
  BY <1>1, <1>2
<1>5. version \in Nat /\ clears \in Nat
  BY <1>1
<1>6. \A r \in rows : r.date \in Nat
  BY <1>0, <1>3
<1> QED
  BY <1>0, <1>1, <1>2, <1>3, <1>4, <1>5, <1>6

LEMMA CountsTyped ==
    ASSUME TypeInv
    PROVE  DayRows \in [Days -> Nat] /\ RowsAhead \in [Days -> Nat]
<1>1. \A d \in Days : Cardinality(OfDay(d)) \in Nat /\ Cardinality(AheadOf(d)) \in Nat
  BY TypedTables, DayCounts
<1> QED
  BY <1>1 DEF DayRows, RowsAhead

(* What ReadRows leaves of a client.                                       *)
LEMMA ReadRowsStep ==
    ASSUME TypeInv, NEW c \in Clients, ReadRows(c)
    PROVE  /\ client[c].pc = "read" /\ "rows" \in client[c].unread
           /\ UNCHANGED <<endpoint, order, tables, cache>>
           /\ \E s \in Listings(rows), q \in ClientState :
                 /\ client' = [client EXCEPT ![c] = q]
                 /\ q.pc = "read" /\ q.offset = client[c].offset /\ q.pages = client[c].pages
                 /\ q.found = client[c].found /\ q.unread = client[c].unread \ {"rows"}
                 /\ q.page.data = DataOf(s, client[c].offset)
                 /\ q.page.version = version /\ q.page.besides = client[c].page.besides
                 /\ q.page.clears = client[c].page.clears \cup {clears}
                 /\ q.page.total = IF endpoint = "v2/stats" THEN Cardinality(rows) ELSE client[c].page.total
                 /\ q.page.dates = DayRows /\ q.page.ahead = RowsAhead
<1>1. client[c].pc = "read" /\ "rows" \in client[c].unread /\ UNCHANGED <<endpoint, order, tables, cache>>
  BY DEF ReadRows, OnlyMoves
<1>2. PICK x : x = client[c]
  OBVIOUS
<1>3. x \in ClientState
  BY <1>2 DEF TypeInv, TypeOK
<1>4. x.page \in Page /\ x.offset \in Nat
  BY <1>3 DEF ClientState
<1>5. PICK nd \in [Days -> Nat], na \in [Days -> Nat] : nd = DayRows /\ na = RowsAhead
  BY CountsTyped
<1>6. PICK t \in 0 .. MaxRows : t = IF endpoint = "v2/stats" THEN Cardinality(rows) ELSE x.page.total
  BY <1>4, TypedTables DEF Page
<1>7. PICK s \in Listings(rows) :
        client' = [client EXCEPT ![c] =
           [x EXCEPT !.unread = x.unread \ {"rows"},
                     !.page = [x.page EXCEPT
                         !.data = DataOf(s, x.offset), !.version = version,
                         !.clears = x.page.clears \cup {clears}, !.total = t,
                         !.dates = nd, !.ahead = na]]]
  BY <1>2, <1>5, <1>6 DEF ReadRows, OnlyMoves, Move
<1>8. PICK data \in Seq(Shape) : data = DataOf(s, x.offset)
  BY <1>4, TypedTables, DataOfListing
<1>9. PICK p : p = [x.page EXCEPT !.data = data, !.version = version,
                                  !.clears = x.page.clears \cup {clears}, !.total = t,
                                  !.dates = nd, !.ahead = na]
  OBVIOUS
<1>10. /\ p.data = data /\ p.version = version /\ p.besides = x.page.besides
       /\ p.clears = x.page.clears \cup {clears} /\ p.total = t
       /\ p.dates = nd /\ p.ahead = na
  BY <1>4, <1>9 DEF Page
<1>11. p \in Page
  BY <1>4, <1>9, TypedTables DEF Page
<1>12. PICK q : q = [x EXCEPT !.unread = x.unread \ {"rows"}, !.page = p]
  OBVIOUS
<1>13. /\ q.pc = x.pc /\ q.offset = x.offset /\ q.pages = x.pages /\ q.found = x.found
       /\ q.unread = x.unread \ {"rows"} /\ q.page = p
  BY <1>3, <1>12 DEF ClientState
<1>14. q \in ClientState
  BY <1>3, <1>11, <1>12 DEF ClientState
<1>15. client' = [client EXCEPT ![c] = q]
  BY <1>7, <1>8, <1>9, <1>12
<1> QED
  BY <1>1, <1>2, <1>5, <1>6, <1>8, <1>10, <1>13, <1>14, <1>15

-----------------------------------------------------------------------------
(***************************************************************************)
(* The differences of revenue.  In a sorted listing the rows of a source   *)
(* between two of its rows on a page are on the page as well, so the last  *)
(* one before a row on the page is the last one before it in the table.    *)
(***************************************************************************)
LEMMA DifferenceIsLag ==
    ASSUME TypeInv, OncePerDay, NEW s \in Listings(rows), NEW o \in Nat,
           NEW i \in 1 .. Len(Window(s, o))
    PROVE  \/ DifferenceOnPage(Window(s, o), i) = Lag(Window(s, o)[i])
           \/ /\ DifferenceOnPage(Window(s, o), i) = {}
              /\ \A j \in 1 .. Len(Window(s, o)) :
                    Window(s, o)[j].source = Window(s, o)[i].source
                      => Window(s, o)[j].date >= Window(s, o)[i].date
<1>1. /\ IsFiniteSet(rows) /\ s \in Seq(rows) /\ Len(s) \in Nat
      /\ \A j, k \in 1 .. Len(s) : s[j] = s[k] => j = k
      /\ \A r \in rows : \E j \in 1 .. Len(s) : s[j] = r
      /\ \A j, k \in 1 .. Len(s) : j < k => Before(s[j], s[k])
  <2>1. IsFiniteSet(rows) /\ \A r \in rows : r.date \in Nat
    BY TypedTables
  <2>2. /\ Len(s) = Cardinality(rows) /\ Cardinality(rows) \in Nat /\ s \in Seq(rows)
        /\ \A j, k \in 1 .. Len(s) : s[j] = s[k] => j = k
        /\ \A r \in rows : \E j \in 1 .. Len(s) : s[j] = r
    BY <2>1, ListingHoldsRows
  <2>3. \A j, k \in 1 .. Len(s) : j < k => Before(s[j], s[k])
    BY <2>1, ListingIsSorted
  <2> QED BY <2>1, <2>2, <2>3
<1>2. PICK w, n : w = Window(s, o) /\ n = Len(w)
  OBVIOUS
<1>3. /\ w \in Seq(rows) /\ n \in Nat /\ DOMAIN w = 1 .. n
      /\ \A j \in 1 .. n : o + j \in 1 .. Len(s) /\ w[j] = s[o + j] /\ w[j] \in rows
  <2>1. w \in Seq(rows)
    BY <1>1, <1>2, WindowOfListing
  <2>2. \A j \in 1 .. Len(w) : o + j \in 1 .. Len(s) /\ w[j] = s[o + j]
    <3>1. \A j \in 1 .. Len(Window(s, o)) : o + j \in 1 .. Len(s) /\ Window(s, o)[j] = s[o + j]
      <4>1. s \in Seq(rows)
        BY <1>1
      <4> QED BY <4>1, WindowOfListing
    <3> QED BY <3>1, <1>2
  <2>3. n \in Nat /\ DOMAIN w = 1 .. n
    BY <1>2, <2>1
  <2>4. \A j \in 1 .. n : w[j] \in rows
    BY <1>2, <2>1
  <2> QED BY <1>2, <2>1, <2>2, <2>3, <2>4
<1>4. /\ \A r \in rows : r.id \in Nat /\ r.date \in Nat
      /\ \A r, q \in rows : r.source = q.source /\ r.date = q.date => r = q
  BY TypedTables DEF TypeInv, TypeOK, Row, OncePerDay
<1>5. \A j, k \in 1 .. n : w[j].source = w[k].source /\ w[j].date = w[k].date => j = k
  <2> SUFFICES ASSUME NEW j \in 1 .. n, NEW k \in 1 .. n,
                      w[j].source = w[k].source, w[j].date = w[k].date
               PROVE  j = k
    OBVIOUS
  <2>1. w[j] = w[k]
    BY <1>3, <1>4
  <2>2. s[o + j] = s[o + k] /\ o + j \in 1 .. Len(s) /\ o + k \in 1 .. Len(s)
    BY <1>3, <2>1
  <2>3. o + j = o + k
    BY <1>1, <2>2
  <2> QED BY <2>3
<1>6. PICK r \in rows : r = w[i] /\ i \in 1 .. n
  BY <1>2, <1>3
<1>7. r.id \in Nat /\ r.date \in Nat /\ \A j \in 1 .. n : w[j].date \in Nat /\ w[j].id \in Nat
  BY <1>3, <1>4
<1> DEFINE E == {j \in 1 .. n : w[j].source = r.source /\ w[j].date < r.date}
<1>8. DifferenceOnPage(w, i) = {w[j].id : j \in {k \in E : \A l \in E : ~ (w[k].date < w[l].date)}}
  <2> DEFINE precedes(j, k) == w[j].date < w[k].date \/ (w[j].date = w[k].date /\ j < k)
             earlier == {j \in 1 .. n : w[j].source = r.source /\ precedes(j, i)}
  <2>1. earlier = E
    <3>1. \A j \in 1 .. n : w[j].source = r.source =>
              (precedes(j, i) <=> w[j].date < r.date)
      <4> SUFFICES ASSUME NEW j \in 1 .. n, w[j].source = r.source, w[j].date = r.date
                   PROVE  ~ (j < i)
        BY <1>6
      <4>1. j = i
        BY <1>5, <1>6
      <4> QED BY <4>1, <1>3
    <3> QED BY <3>1
  <2>2. \A k, l \in E : precedes(k, l) <=> w[k].date < w[l].date
    <3> SUFFICES ASSUME NEW k \in E, NEW l \in E, w[k].date = w[l].date
                 PROVE  ~ (k < l)
      OBVIOUS
    <3>1. k = l
      BY <1>5
    <3> QED BY <3>1, <1>3
  <2>3. DifferenceOnPage(w, i) = {w[j].id : j \in {k \in earlier : \A l \in earlier : ~ precedes(k, l)}}
    BY <1>3, <1>6 DEF DifferenceOnPage
  <2>4. {k \in earlier : \A l \in earlier : ~ precedes(k, l)}
          = {k \in E : \A l \in E : ~ (w[k].date < w[l].date)}
    <3> HIDE DEF precedes, earlier, E
    <3> QED BY <2>1, <2>2
  <2> HIDE DEF precedes, earlier, E
  <2> QED BY <2>3, <2>4
<1>9. CASE E = {}
  <2>1. DifferenceOnPage(w, i) = {}
    <3> HIDE DEF E
    <3> QED BY <1>8, <1>9
  <2>2. \A j \in 1 .. n : w[j].source = r.source => w[j].date >= r.date
    BY <1>9, <1>7
  <2> QED BY <1>2, <1>6, <2>1, <2>2
<1>10. CASE E # {}
  <2>1. PICK k \in E : \A l \in E : w[l].date <= w[k].date
    <3> DEFINE T == {w[j].date : j \in E}
    <3>1. T \subseteq 0 .. r.date /\ T # {}
      BY <1>7, <1>10
    <3>2. PICK m \in T : \A x \in T : x <= m
      <4> HIDE DEF T
      <4> QED BY <1>7, <3>1, GreatestNat
    <3>3. PICK k \in E : m = w[k].date
      BY <3>2
    <3> QED BY <3>2, <3>3
  <2>2. k \in 1 .. n /\ w[k].source = r.source /\ w[k].date < r.date /\ w[k] \in rows
    BY <1>3
  <2>3. DifferenceOnPage(w, i) = {w[k].id}
    <3>1. {x \in E : \A l \in E : ~ (w[x].date < w[l].date)} = {k}
      <4>1. \A x \in E : (\A l \in E : ~ (w[x].date < w[l].date)) => x = k
        <5> SUFFICES ASSUME NEW x \in E, ~ (w[x].date < w[k].date)
                     PROVE  x = k
          OBVIOUS
        <5>1. w[x].date = w[k].date /\ w[x].source = w[k].source /\ x \in 1 .. n
          BY <2>1, <2>2, <1>7
        <5> QED BY <5>1, <2>2, <1>5
      <4>2. \A l \in E : ~ (w[k].date < w[l].date)
        BY <2>1, <2>2, <1>7
      <4> HIDE DEF E
      <4> QED BY <4>1, <4>2
    <3> HIDE DEF E
    <3> QED BY <3>1, <1>8
  <2> DEFINE Q == {q \in rows : q.source = r.source
                       /\ (q.date < r.date \/ (q.date = r.date /\ q.id < r.id))}
  <2>4. \A q \in Q : q \in rows /\ q.source = r.source /\ q.date < r.date
    <3> SUFFICES ASSUME NEW q \in rows, q.source = r.source, q.date = r.date
                 PROVE  ~ (q.id < r.id)
      OBVIOUS
    <3>1. q = r
      BY <1>4
    <3> QED BY <3>1, <1>7
  <2>5. ASSUME NEW q \in Q PROVE q.date <= w[k].date
    <3> SUFFICES ASSUME q.date > w[k].date PROVE FALSE
      BY <2>4, <1>4, <1>7, <2>2
    <3>1. q \in rows /\ q.source = r.source /\ q.date < r.date /\ q.date \in Nat
      BY <2>4, <1>4
    <3>2. PICK p \in 1 .. Len(s) : s[p] = q
      BY <1>1, <3>1
    <3>3. /\ o + k \in 1 .. Len(s) /\ s[o + k] = w[k]
          /\ o + i \in 1 .. Len(s) /\ s[o + i] = r
      BY <1>3, <1>6, <2>2
    <3>4. PICK a, b : a = o + k /\ b = o + i
      OBVIOUS
    <3>5. /\ a \in 1 .. Len(s) /\ s[a] = w[k] /\ b \in 1 .. Len(s) /\ s[b] = r
          /\ s[a].date < s[p].date /\ s[p].date < s[b].date
          /\ s[a].date \in Nat /\ s[p].date \in Nat /\ s[b].date \in Nat
      BY <3>1, <3>2, <3>3, <3>4, <1>7, <2>2
    <3>6. p # a /\ p # b
      BY <3>5
    <3>7. \/ a < p /\ p < b
          \/ b < p /\ p < a
      <4>1. /\ p < a => Before(s[p], s[a])
            /\ a < p => Before(s[a], s[p])
            /\ p < b => Before(s[p], s[b])
            /\ b < p => Before(s[b], s[p])
        BY <1>1, <3>5
      <4>2. \A x, y \in 1 .. Len(s) : x # y => x < y \/ y < x
        BY <1>1
      <4>3. (p < a \/ a < p) /\ (p < b \/ b < p)
        BY <4>2, <3>5, <3>6
      <4>4. CASE order = "ASC"
        <5>1. ~ (p < a) /\ ~ (b < p)
          BY <4>1, <4>4, <3>5 DEF Before
        <5> QED BY <5>1, <4>3
      <4>5. CASE order # "ASC"
        <5>1. ~ (a < p) /\ ~ (p < b)
          BY <4>1, <4>5, <3>5 DEF Before
        <5> QED BY <5>1, <4>3
      <4> QED BY <4>4, <4>5
    <3>8. p - o \in 1 .. n /\ o + (p - o) = p
      <4>1. o \in Nat /\ n \in Nat /\ p \in Nat /\ i \in 1 .. n /\ k \in 1 .. n
        BY <1>1, <1>3, <1>6, <2>2
      <4> HIDE DEF E, Q
      <4>2. a = o + k /\ b = o + i
        BY <3>4
      <4> QED BY ONLY <4>1, <4>2, <3>7
    <3>9. w[p - o] = q
      <4>1. w[p - o] = s[o + (p - o)]
        BY <1>3, <3>8
      <4> QED BY <4>1, <3>8, <3>2
    <3>10. p - o \in E
      BY <3>8, <3>9, <3>1
    <3>11. w[p - o].date <= w[k].date
      BY <2>1, <3>10
    <3>12. q.date <= w[k].date /\ q.date \in Nat /\ w[k].date \in Nat
      BY <3>11, <3>9, <3>1, <2>2, <1>4
    <3> QED BY <3>12
  <2>6. w[k] \in Q
    BY <2>2
  <2>7. LatestOf(Q) = {w[k].id}
    <3> DEFINE last(x) == \A q \in Q : q.date < x.date \/ (q.date = x.date /\ q.id <= x.id)
    <3>1. last(w[k])
      <4> SUFFICES ASSUME NEW q \in Q, q.date = w[k].date PROVE q.id <= w[k].id
        BY <2>5, <2>4, <1>4, <1>7, <2>2
      <4>1. q = w[k]
        BY <2>4, <2>2, <1>4
      <4> QED BY <4>1, <2>2, <1>7
    <3>2. ASSUME NEW x \in Q, last(x) PROVE x = w[k]
      <4>1. x.date = w[k].date
        BY <3>2, <2>5, <2>6, <2>4, <1>4, <1>7, <2>2
      <4> QED BY <4>1, <2>4, <2>2, <1>4
    <3>3. {x \in Q : last(x)} = {w[k]}
      <4> HIDE DEF Q, last
      <4> QED BY <3>1, <3>2, <2>6
    <3>4. LatestOf(Q) = {x.id : x \in {y \in Q : last(y)}}
      BY DEF LatestOf
    <3> HIDE DEF Q, last
    <3> QED BY <3>3, <3>4
  <2>8. Lag(r) = LatestOf(Q)
    BY DEF Lag
  <2> QED BY <1>2, <1>6, <2>3, <2>7, <2>8
<1> QED
  BY <1>9, <1>10

-----------------------------------------------------------------------------
(***************************************************************************)
(* Steps of a client: each lemma says what one action leaves of a client.  *)
(***************************************************************************)
LEMMA NoPageTyped == NoPage \in Page /\ IdleClient \in ClientState
<1>1. MaxRows \in Nat /\ NoCount \in [Days -> Nat]
  BY PagesAssumption DEF NoCount
<1>2. NoPage \in Page
  BY <1>1 DEF NoPage, Page
<1> QED
  BY <1>2 DEF IdleClient, ClientState

LEMMA StartWalkStep ==
    ASSUME NEW c \in Clients, StartWalk(c)
    PROVE  /\ UNCHANGED <<endpoint, order, tables, cache>>
           /\ \E q \in ClientState :
                 /\ client' = [client EXCEPT ![c] = q]
                 /\ q.pc = "ask" /\ q.offset = 0 /\ q.pages = << >> /\ q.page = NoPage
                 /\ q.found = {} /\ q.unread = {}
<1>1. PICK q : q = [IdleClient EXCEPT !.pc = "ask"]
  OBVIOUS
<1>2. q \in ClientState
  BY <1>1, NoPageTyped DEF ClientState
<1>3. /\ q.pc = "ask" /\ q.offset = 0 /\ q.pages = << >> /\ q.page = NoPage
      /\ q.found = {} /\ q.unread = {}
  BY <1>1 DEF IdleClient
<1> QED
  BY <1>1, <1>2, <1>3 DEF StartWalk, OnlyMoves, Move

LEMMA ComputeStep ==
    ASSUME TypeInv, NEW c \in Clients, Compute(c)
    PROVE  /\ UNCHANGED <<endpoint, order, tables, cache>> /\ client[c].pc = "ask"
           /\ \E q \in ClientState :
                 /\ client' = [client EXCEPT ![c] = q]
                 /\ q.pc = "read" /\ q.offset = client[c].offset /\ q.pages = client[c].pages
                 /\ q.page = client[c].page /\ q.found = client[c].found
                 /\ q.unread = {"rows", IF endpoint = "v2/stats" THEN "spends" ELSE "count"}
<1>1. PICK x \in ClientState : x = client[c]
  BY DEF TypeInv, TypeOK
<1>2. PICK u \in SUBSET {"rows", "count", "spends"} :
         u = {"rows", IF endpoint = "v2/stats" THEN "spends" ELSE "count"}
  OBVIOUS
<1>3. PICK q : q = [x EXCEPT !.pc = "read", !.unread = u]
  OBVIOUS
<1>4. q \in ClientState
  BY <1>1, <1>2, <1>3 DEF ClientState
<1>5. /\ q.pc = "read" /\ q.offset = x.offset /\ q.pages = x.pages /\ q.page = x.page
      /\ q.found = x.found /\ q.unread = u
  BY <1>1, <1>3 DEF ClientState
<1>6. client' = [client EXCEPT ![c] = q] /\ x.pc = "ask" /\ UNCHANGED <<endpoint, order, tables, cache>>
  BY <1>1, <1>2, <1>3 DEF Compute, OnlyMoves, Move
<1> QED
  BY <1>1, <1>2, <1>4, <1>5, <1>6

LEMMA ReadCountStep ==
    ASSUME TypeInv, NEW c \in Clients, ReadCount(c)
    PROVE  /\ UNCHANGED <<endpoint, order, tables, cache>>
           /\ client[c].pc = "read" /\ "count" \in client[c].unread
           /\ endpoint = "v2/incentives" \/ "rows" \notin client[c].unread
           /\ \E q \in ClientState :
                 /\ client' = [client EXCEPT ![c] = q]
                 /\ q.pc = "read" /\ q.offset = client[c].offset /\ q.pages = client[c].pages
                 /\ q.found = client[c].found /\ q.unread = client[c].unread \ {"count"}
                 /\ q.page.data = client[c].page.data /\ q.page.version = client[c].page.version
                 /\ q.page.dates = client[c].page.dates /\ q.page.ahead = client[c].page.ahead
                 /\ q.page.total = Cardinality(rows) /\ q.page.besides = version
                 /\ q.page.clears = client[c].page.clears \cup {clears}
<1>1. PICK x \in ClientState : x = client[c]
  BY DEF TypeInv, TypeOK
<1>2. x.page \in Page
  BY <1>1 DEF ClientState
<1>3. PICK t \in 0 .. MaxRows : t = Cardinality(rows)
  BY TypedTables
<1>4. PICK p : p = [x.page EXCEPT !.total = t, !.besides = version, !.clears = x.page.clears \cup {clears}]
  OBVIOUS
<1>5. p \in Page
  BY <1>2, <1>3, <1>4, TypedTables DEF Page
<1>6. /\ p.data = x.page.data /\ p.version = x.page.version /\ p.dates = x.page.dates
      /\ p.ahead = x.page.ahead /\ p.total = t /\ p.besides = version
      /\ p.clears = x.page.clears \cup {clears}
  BY <1>2, <1>4 DEF Page
<1>7. PICK q : q = [x EXCEPT !.unread = x.unread \ {"count"}, !.page = p]
  OBVIOUS
<1>8. q \in ClientState
  BY <1>1, <1>5, <1>7 DEF ClientState
<1>9. /\ q.pc = x.pc /\ q.offset = x.offset /\ q.pages = x.pages /\ q.page = p
      /\ q.found = x.found /\ q.unread = x.unread \ {"count"}
  BY <1>1, <1>7 DEF ClientState
<1>10. /\ client' = [client EXCEPT ![c] = q] /\ UNCHANGED <<endpoint, order, tables, cache>>
       /\ x.pc = "read" /\ "count" \in x.unread
       /\ endpoint = "v2/incentives" \/ "rows" \notin x.unread
  BY <1>1, <1>3, <1>4, <1>7 DEF ReadCount, OnlyMoves, Move
<1> QED
  BY <1>1, <1>3, <1>6, <1>8, <1>9, <1>10

LEMMA ReadSpendsStep ==
    ASSUME TypeInv, NEW c \in Clients, ReadSpends(c)
    PROVE  /\ UNCHANGED <<endpoint, order, tables, cache>>
           /\ client[c].pc = "read" /\ "spends" \in client[c].unread
           /\ \E q \in ClientState :
                 /\ client' = [client EXCEPT ![c] = q]
                 /\ q.found \subseteq spends
                 /\ \A s \in spends : Cardinality(q.found \cap SpendsOf(s)) = 1
                 /\ q.pc = "read" /\ q.offset = client[c].offset /\ q.pages = client[c].pages
                 /\ q.unread = client[c].unread \ {"spends"}
                 /\ q.page.data = client[c].page.data /\ q.page.version = client[c].page.version
                 /\ q.page.dates = client[c].page.dates /\ q.page.ahead = client[c].page.ahead
                 /\ q.page.total = client[c].page.total /\ q.page.besides = version
                 /\ q.page.clears = client[c].page.clears \cup {clears}
<1>1. PICK x \in ClientState : x = client[c]
  BY DEF TypeInv, TypeOK
<1>2. x.page \in Page
  BY <1>1 DEF ClientState
<1>3. PICK p : p = [x.page EXCEPT !.besides = version, !.clears = x.page.clears \cup {clears}]
  OBVIOUS
<1>4. p \in Page
  BY <1>2, <1>3, TypedTables DEF Page
<1>5. /\ p.data = x.page.data /\ p.version = x.page.version /\ p.dates = x.page.dates
      /\ p.ahead = x.page.ahead /\ p.total = x.page.total /\ p.besides = version
      /\ p.clears = x.page.clears \cup {clears}
  BY <1>2, <1>3 DEF Page
<1>6. PICK found \in SUBSET spends :
        /\ \A s \in spends : Cardinality(found \cap SpendsOf(s)) = 1
        /\ client' = [client EXCEPT ![c] =
             [x EXCEPT !.unread = x.unread \ {"spends"}, !.found = found, !.page = p]]
  BY <1>1, <1>3 DEF ReadSpends, OnlyMoves, Move
<1>7. found \in SUBSET Spent
  BY DEF TypeInv, TypeOK
<1>8. PICK q : q = [x EXCEPT !.unread = x.unread \ {"spends"}, !.found = found, !.page = p]
  OBVIOUS
<1>9. q \in ClientState
  BY <1>1, <1>4, <1>7, <1>8 DEF ClientState
<1>10. /\ q.pc = x.pc /\ q.offset = x.offset /\ q.pages = x.pages /\ q.page = p
       /\ q.found = found /\ q.unread = x.unread \ {"spends"}
  BY <1>1, <1>8 DEF ClientState
<1>11. /\ UNCHANGED <<endpoint, order, tables, cache>>
       /\ x.pc = "read" /\ "spends" \in x.unread
  BY <1>1 DEF ReadSpends, OnlyMoves
<1> QED
  BY <1>1, <1>5, <1>6, <1>8, <1>9, <1>10, <1>11

LEMMA NextOffset ==
    ASSUME NEW o \in Offsets, NEW m \in 0 .. MaxRows, o + PageSize < m
    PROVE  o + PageSize \in Offsets
<1>1. MaxRows \in Nat /\ PageSize \in Nat /\ PageSize >= 1
  BY PagesAssumption
<1>2. PICK i \in 0 .. MaxRows : o = i * PageSize
  BY DEF Offsets
<1>3. o + PageSize = (i + 1) * PageSize
  BY <1>1, <1>2
<1>4. i + 1 <= (i + 1) * PageSize
  BY <1>1, <1>2
<1>5. (i + 1) * PageSize \in Nat /\ m \in Nat /\ m <= MaxRows /\ (i + 1) * PageSize < m
  BY <1>1, <1>2, <1>3
<1>6. i + 1 \in 0 .. MaxRows
  BY <1>1, <1>2, <1>4, <1>5
<1> QED
  BY <1>3, <1>6 DEF Offsets

LEMMA OffsetsTyped == Offsets \subseteq Nat /\ 0 \in Offsets
<1>1. MaxRows \in Nat /\ PageSize \in Nat
  BY PagesAssumption
<1>2. \A i \in 0 .. MaxRows : i * PageSize \in Nat
  BY <1>1
<1>3. 0 \in 0 .. MaxRows /\ 0 * PageSize = 0
  BY <1>1
<1> QED
  BY <1>2, <1>3 DEF Offsets

(* A client that has taken a page.                                         *)
LEMMA TakenClient ==
    ASSUME TypeInv, NEW c \in Clients, NEW page \in Page
    PROVE  /\ Taken(c, page) \in ClientState
           /\ Taken(c, page).pc = IF client[c].offset + PageSize < page.total THEN "ask" ELSE "walked"
           /\ Taken(c, page).offset = client[c].offset + PageSize
           /\ Taken(c, page).pages = Append(client[c].pages, page)
           /\ Taken(c, page).page = NoPage /\ Taken(c, page).found = {}
           /\ Taken(c, page).unread = {}
           /\ client[c].offset \in Offsets =>
                (Taken(c, page).pc = "ask" => Taken(c, page).offset \in Offsets)
<1>1. PICK x \in ClientState : x = client[c]
  BY DEF TypeInv, TypeOK
<1>2. x.offset \in Nat /\ x.pages \in Seq(Page)
  BY <1>1 DEF ClientState
<1>3. PICK o \in Nat : o = x.offset + PageSize
  BY <1>2, PagesAssumption
<1>4. PICK ps \in Seq(Page) : ps = Append(x.pages, page)
  <2>1. PICK xs \in Seq(Page) : xs = x.pages
    BY <1>2
  <2>2. Append(xs, page) \in Seq(Page)
    OBVIOUS
  <2> QED BY <2>1, <2>2
<1>5. PICK pc \in {"ask", "walked"} : pc = IF x.offset + PageSize < page.total THEN "ask" ELSE "walked"
  OBVIOUS
<1>6. PICK q : q = [IdleClient EXCEPT !.pc = pc, !.offset = o, !.pages = ps]
  OBVIOUS
<1>7. q = Taken(c, page)
  BY <1>1, <1>3, <1>4, <1>5, <1>6 DEF Taken
<1>8. q \in ClientState
  BY <1>6, NoPageTyped DEF ClientState
<1>9. q.pc = pc /\ q.offset = o /\ q.pages = ps /\ q.page = NoPage /\ q.found = {} /\ q.unread = {}
  BY <1>6 DEF IdleClient
<1>10. ASSUME x.offset \in Offsets, pc = "ask" PROVE o \in Offsets
  <2>1. page.total \in 0 .. MaxRows /\ x.offset + PageSize < page.total
    BY <1>5, <1>10 DEF Page
  <2> QED BY <2>1, <1>3, <1>10, NextOffset
<1> QED
  BY <1>1, <1>3, <1>4, <1>5, <1>7, <1>8, <1>9, <1>10

LEMMA AnswerFromCacheStep ==
    ASSUME TypeInv, NEW c \in Clients, AnswerFromCache(c)
    PROVE  /\ UNCHANGED <<endpoint, order, tables, cache>> /\ client[c].pc = "ask"
           /\ client[c].offset \in Offsets
           /\ \E page \in Page :
                 /\ page \in cache[client[c].offset]
                 /\ client' = [client EXCEPT ![c] = Taken(c, page)]
<1>1. client[c].pc = "ask" /\ client[c].offset \in Offsets
  BY DEF AnswerFromCache, TypeInv, OffsetsInRange
<1>2. cache[client[c].offset] \in SUBSET Page
  BY <1>1 DEF TypeInv, TypeOK
<1> QED
  BY <1>1, <1>2 DEF AnswerFromCache, OnlyMoves, Move

(* The page that is answered is the page that was read, with its spends.   *)
LEMMA AnsweredPage ==
    ASSUME TypeInv, NEW c \in Clients
    PROVE  /\ Answer(c) \in Page
           /\ Answer(c).version = client[c].page.version
           /\ Answer(c).besides = client[c].page.besides
           /\ Answer(c).clears = client[c].page.clears
           /\ Answer(c).dates = client[c].page.dates /\ Answer(c).ahead = client[c].page.ahead
           /\ Len(Answer(c).data) = Len(client[c].page.data)
           /\ \A j \in 1 .. Len(client[c].page.data) :
                 /\ Answer(c).data[j].id = client[c].page.data[j].id
                 /\ Answer(c).data[j].date = client[c].page.data[j].date
                 /\ endpoint = "v2/stats" =>
                       Answer(c).data[j].spends = Merge(client[c].found, client[c].page.data[j])
           /\ \/ Answer(c).total = client[c].page.total
              \/ client[c].page.data = << >>
<1>1. PICK x \in ClientState : x = client[c]
  BY DEF TypeInv, TypeOK
<1>2. PICK p \in Page : p = x.page
  BY <1>1 DEF ClientState
<1>3. PICK n \in Nat : n = Len(p.data) /\ DOMAIN p.data = 1 .. n /\ p.data \in Seq(Shape)
  BY DEF Page
<1>4. CASE endpoint = "v2/incentives" /\ p.data = << >>
  <2>1. Answer(c) = [p EXCEPT !.total = 0]
    BY <1>1, <1>2, <1>4 DEF Answer
  <2>2. PICK q : q = [p EXCEPT !.total = 0]
    OBVIOUS
  <2>3. q \in Page
    <3>1. 0 \in 0 .. MaxRows
      BY PagesAssumption
    <3> QED BY <2>2, <3>1 DEF Page
  <2>4. /\ q.version = p.version /\ q.besides = p.besides /\ q.clears = p.clears
        /\ q.dates = p.dates /\ q.ahead = p.ahead /\ q.data = p.data
    BY <2>2 DEF Page
  <2> QED BY <1>1, <1>2, <1>3, <1>4, <2>1, <2>2, <2>3, <2>4
<1>5. CASE endpoint = "v2/stats"
  <2> DEFINE m(i) == [p.data[i] EXCEPT !.spends = Merge(x.found, p.data[i])]
  <2>1. Answer(c) = [p EXCEPT !.data = [i \in 1 .. n |-> m(i)]]
    BY <1>1, <1>2, <1>3, <1>5 DEF Answer
  <2>2. ASSUME NEW i \in 1 .. n
        PROVE  m(i) \in Shape /\ m(i).id = p.data[i].id /\ m(i).date = p.data[i].date
               /\ m(i).spends = Merge(x.found, p.data[i])
    <3>1. x.found \in SUBSET Spent
      BY <1>1 DEF ClientState
    <3>2. PICK sp \in SUBSET Nat : sp = Merge(x.found, p.data[i])
      BY <3>1 DEF Merge, Spent
    <3>3. PICK e \in Shape : e = p.data[i]
      BY <1>3
    <3>4. PICK d : d = [e EXCEPT !.spends = sp]
      OBVIOUS
    <3>5. d \in Shape /\ d.id = e.id /\ d.date = e.date /\ d.spends = sp
      BY <3>4 DEF Shape
    <3> QED BY <3>2, <3>3, <3>4, <3>5
  <2>3. PICK data : data = [i \in 1 .. n |-> m(i)]
    OBVIOUS
  <2>4. data \in Seq(Shape) /\ Len(data) = n /\ \A i \in 1 .. n : data[i] = m(i)
    <3> HIDE DEF m
    <3> QED BY <2>2, <2>3
  <2>5. PICK q : q = [p EXCEPT !.data = data]
    OBVIOUS
  <2>6. q \in Page
    BY <2>4, <2>5 DEF Page
  <2>7. /\ q.version = p.version /\ q.besides = p.besides /\ q.clears = p.clears
        /\ q.dates = p.dates /\ q.ahead = p.ahead /\ q.data = data /\ q.total = p.total
    BY <2>5 DEF Page
  <2>8. q = Answer(c)
    BY <2>1, <2>3, <2>5
  <2> HIDE DEF m
  <2> QED BY <1>1, <1>2, <1>3, <1>5, <2>2, <2>4, <2>6, <2>7, <2>8
<1>6. CASE endpoint # "v2/stats" /\ ~ (endpoint = "v2/incentives" /\ p.data = << >>)
  <2>1. Answer(c) = p
    BY <1>1, <1>2, <1>6 DEF Answer
  <2> QED BY <1>1, <1>2, <1>6, <2>1
<1> QED
  BY <1>4, <1>5, <1>6

LEMMA RespondStep ==
    ASSUME TypeInv, NEW c \in Clients, Respond(c)
    PROVE  /\ UNCHANGED <<endpoint, order, tables>> /\ client[c].pc = "read"
           /\ client[c].unread = {} /\ client[c].offset \in Offsets /\ Answer(c) \in Page
           /\ client' = [client EXCEPT ![c] = Taken(c, Answer(c))]
           /\ \/ cache' = [cache EXCEPT ![client[c].offset] = {Answer(c)}]
              \/ cache' = cache
           /\ cache' \in [Offsets -> SUBSET Page]
<1>1. /\ UNCHANGED <<endpoint, order, tables>> /\ client[c].pc = "read" /\ client[c].unread = {}
      /\ client' = [client EXCEPT ![c] = Taken(c, Answer(c))]
      /\ cache' = IF endpoint \in Cached THEN [cache EXCEPT ![client[c].offset] = {Answer(c)}]
                  ELSE cache
  BY DEF Respond, Move
<1>2. client[c].offset \in Offsets
  BY <1>1 DEF TypeInv, OffsetsInRange
<1>3. Answer(c) \in Page
  BY AnsweredPage
<1>4. PICK a \in Page, o \in Offsets : a = Answer(c) /\ o = client[c].offset
  BY <1>2, <1>3
<1>5. cache \in [Offsets -> SUBSET Page]
  BY DEF TypeInv, TypeOK
<1>6. [cache EXCEPT ![o] = {a}] \in [Offsets -> SUBSET Page]
  BY <1>5
<1> QED
  BY <1>1, <1>2, <1>3, <1>4, <1>5, <1>6

-----------------------------------------------------------------------------
(***************************************************************************)
(* Type correctness.                                                       *)
(***************************************************************************)
LEMMA MovesTyped ==
    ASSUME TypeInv, NEW c \in Clients, NEW q \in ClientState,
           client' = [client EXCEPT ![c] = q], q.pc \in {"ask", "read"} => q.offset \in Offsets,
           UNCHANGED <<endpoint, order, tables>>, cache' \in [Offsets -> SUBSET Page]
    PROVE  TypeInv'
<1>1. client \in [Clients -> ClientState]
  BY DEF TypeInv, TypeOK
<1>2. client' \in [Clients -> ClientState]
  BY <1>1
<1>3. TypeOK'
  BY <1>2 DEF TypeInv, TypeOK, tables
<1>4. RowsCounted'
  BY DEF TypeInv, RowsCounted, tables
<1>5. OffsetsInRange'
  BY <1>1 DEF TypeInv, OffsetsInRange
<1> QED
  BY <1>3, <1>4, <1>5 DEF TypeInv

(* A new row, and what StoreRow leaves alone.                              *)
LEMMA StoreRowStep ==
    ASSUME TypeInv, StoreRow
    PROVE  /\ UNCHANGED <<endpoint, order, spends, compPrices, clears, cache, client>>
           /\ version' = version + 1 /\ version' \in 0 .. MaxRows
           /\ \E r \in Row : /\ r.id = version + 1 /\ rows' = rows \cup {r}
                             /\ endpoint = "v2/stats" /\ clears = 0 =>
                                   \E q \in spends : q.source = r.source /\ q.date = r.date
<1>1. version \in Nat /\ MaxRows \in Nat /\ version < MaxRows /\ version' = version + 1
  BY TypedTables DEF StoreRow, Grows
<1>2. PICK s \in Sources, d \in Days :
        /\ endpoint = "v2/stats" /\ clears = 0 => \E q \in spends : q.source = s /\ q.date = d
        /\ rows' = rows \cup {[id |-> version + 1, source |-> s, date |-> d]}
  BY DEF StoreRow
<1>3. PICK r : r = [id |-> version + 1, source |-> s, date |-> d]
  OBVIOUS
<1>4. r \in Row /\ r.id = version + 1 /\ r.source = s /\ r.date = d
  BY <1>1, <1>3 DEF Row
<1>5. UNCHANGED <<endpoint, order, spends, compPrices, clears, cache, client>>
  BY DEF StoreRow
<1>6. version' \in 0 .. MaxRows
  BY <1>1
<1> QED
  BY <1>1, <1>2, <1>3, <1>4, <1>5, <1>6

LEMMA StoreSpendsStep ==
    ASSUME TypeInv, StoreSpends
    PROVE  /\ UNCHANGED <<endpoint, order, rows, compPrices, clears, cache, client>>
           /\ version' = version + 1 /\ version' \in 0 .. MaxRows
           /\ spends \subseteq spends' /\ spends' \in SUBSET Spent
<1>1. version \in Nat /\ MaxRows \in Nat /\ version < MaxRows /\ version' = version + 1
  BY TypedTables DEF StoreSpends, Grows
<1>2. PICK s \in Sources, d \in Days :
        spends' = spends \cup {[id |-> version + 1, source |-> s, date |-> d, priced |-> TRUE]}
  BY DEF StoreSpends
<1>3. [id |-> version + 1, source |-> s, date |-> d, priced |-> TRUE] \in Spent
  BY <1>1 DEF Spent
<1>4. spends \in SUBSET Spent
  BY DEF TypeInv, TypeOK
<1>5. UNCHANGED <<endpoint, order, rows, compPrices, clears, cache, client>>
  BY DEF StoreSpends
<1>6. version' \in 0 .. MaxRows
  BY <1>1
<1>7. spends \subseteq spends' /\ spends' \in SUBSET Spent
  BY <1>2, <1>3, <1>4
<1> QED
  BY <1>1, <1>5, <1>6, <1>7

LEMMA StorePriceStep ==
    ASSUME TypeInv, StorePrice
    PROVE  /\ UNCHANGED <<endpoint, order, rows, spends, clears, cache, client>>
           /\ version' = version + 1 /\ version' \in 0 .. MaxRows /\ compPrices' \in SUBSET Days
<1>1. version \in Nat /\ MaxRows \in Nat /\ version < MaxRows /\ version' = version + 1
  BY TypedTables DEF StorePrice, Grows
<1>2. compPrices' \in SUBSET Days /\ UNCHANGED <<endpoint, order, rows, spends, clears, cache, client>>
  BY DEF StorePrice, TypeInv, TypeOK
<1>3. version' \in 0 .. MaxRows
  BY <1>1
<1> QED
  BY <1>1, <1>2, <1>3

LEMMA ClearStep ==
    ASSUME TypeInv, Clear
    PROVE  /\ UNCHANGED <<endpoint, order, compPrices, version, cache, client>>
           /\ clears' = clears + 1 /\ clears' \in 0 .. MaxClears
           /\ rows' \subseteq rows /\ spends' \subseteq spends
<1>1. clears \in Nat /\ MaxClears \in Nat /\ clears < MaxClears /\ clears' = clears + 1
  BY TypedTables DEF Clear
<1>2. rows' \subseteq rows /\ spends' \subseteq spends
  BY DEF Clear
<1>3. UNCHANGED <<endpoint, order, compPrices, version, cache, client>>
  BY DEF Clear
<1>4. clears' \in 0 .. MaxClears
  BY <1>1
<1> QED
  BY <1>1, <1>2, <1>3, <1>4

LEMMA TypeStep == TypeInv /\ [Next]_vars => TypeInv'
<1> SUFFICES ASSUME TypeInv, [Next]_vars PROVE TypeInv'
  OBVIOUS
<1>1. CASE StoreRow
  <2>1. PICK r \in Row : rows' = rows \cup {r}
    BY <1>1, StoreRowStep
  <2>2. /\ UNCHANGED <<endpoint, order, spends, compPrices, clears, cache, client>>
        /\ version' = version + 1 /\ version' \in 0 .. MaxRows /\ version \in Nat
    BY <1>1, StoreRowStep, TypedTables
  <2>3. IsFiniteSet(rows') /\ Cardinality(rows') <= version'
    <3>1. /\ IsFiniteSet(rows \cup {r})
          /\ Cardinality(rows \cup {r}) = IF r \in rows THEN Cardinality(rows) ELSE Cardinality(rows) + 1
      BY TypedTables, FS_AddElement
    <3>2. PICK n \in Nat : n = Cardinality(rows) /\ n <= version
      BY FS_CardinalityType DEF TypeInv, RowsCounted
    <3>3. Cardinality(rows \cup {r}) <= version + 1
      BY <3>1, <3>2, <2>2
    <3> QED BY <2>1, <2>2, <3>1, <3>3
  <2>4. rows' \in SUBSET Row
    BY <2>1 DEF TypeInv, TypeOK
  <2>5. TypeOK'
    BY <2>2, <2>4 DEF TypeInv, TypeOK
  <2>6. OffsetsInRange'
    BY <2>2 DEF TypeInv, OffsetsInRange
  <2> QED BY <2>3, <2>5, <2>6 DEF TypeInv, RowsCounted
<1>2. CASE StoreSpends \/ StorePrice
  <2>1. /\ UNCHANGED <<endpoint, order, rows, clears, cache, client>>
        /\ version' = version + 1 /\ version' \in 0 .. MaxRows /\ version \in Nat
        /\ spends' \in SUBSET Spent /\ compPrices' \in SUBSET Days
    BY <1>2, StoreSpendsStep, StorePriceStep, TypedTables DEF TypeInv, TypeOK
  <2>2. RowsCounted'
    <3>1. PICK n \in Nat : n = Cardinality(rows) /\ n <= version /\ IsFiniteSet(rows)
      BY FS_CardinalityType DEF TypeInv, RowsCounted
    <3>2. n <= version + 1
      BY <2>1, <3>1
    <3> QED BY <2>1, <3>1, <3>2 DEF RowsCounted
  <2>3. TypeOK'
    BY <2>1 DEF TypeInv, TypeOK
  <2>4. OffsetsInRange'
    BY <2>1 DEF TypeInv, OffsetsInRange
  <2> QED BY <2>2, <2>3, <2>4 DEF TypeInv
<1>3. CASE Clear
  <2>1. /\ UNCHANGED <<endpoint, order, compPrices, version, cache, client>>
        /\ clears' \in 0 .. MaxClears /\ rows' \subseteq rows /\ spends' \subseteq spends
    BY <1>3, ClearStep
  <2>2. IsFiniteSet(rows') /\ Cardinality(rows') <= version'
    <3>1. PICK n \in Nat : n = Cardinality(rows) /\ n <= version /\ IsFiniteSet(rows)
      BY FS_CardinalityType DEF TypeInv, RowsCounted
    <3>2. IsFiniteSet(rows') /\ Cardinality(rows') <= n
      BY <2>1, <3>1, FS_Subset
    <3>3. PICK m \in Nat : m = Cardinality(rows')
      BY <3>2, FS_CardinalityType
    <3>4. m <= version
      BY <3>1, <3>2, <3>3, TypedTables
    <3> QED BY <2>1, <3>2, <3>3, <3>4
  <2>3. TypeOK'
    BY <2>1 DEF TypeInv, TypeOK
  <2>4. OffsetsInRange'
    BY <2>1 DEF TypeInv, OffsetsInRange
  <2> QED BY <2>2, <2>3, <2>4 DEF TypeInv, RowsCounted
<1>4. CASE Expire
  <2>1. cache' \in [Offsets -> SUBSET Page] /\ UNCHANGED <<endpoint, order, tables, client>>
    BY <1>4 DEF Expire, TypeInv, TypeOK
  <2> QED BY <2>1 DEF TypeInv, TypeOK, RowsCounted, OffsetsInRange, tables
<1>5. ASSUME NEW c \in Clients, StartWalk(c) PROVE TypeInv'
  BY <1>5, StartWalkStep, OffsetsTyped, MovesTyped DEF TypeInv, TypeOK
<1>6. ASSUME NEW c \in Clients, AnswerFromCache(c) PROVE TypeInv'
  <2>1. PICK page \in Page : client' = [client EXCEPT ![c] = Taken(c, page)]
    BY <1>6, AnswerFromCacheStep
  <2>2. UNCHANGED <<endpoint, order, tables, cache>> /\ client[c].offset \in Offsets
    BY <1>6, AnswerFromCacheStep
  <2>3. PICK q \in ClientState : q = Taken(c, page) /\ (q.pc \in {"ask", "read"} => q.offset \in Offsets)
    BY <2>2, TakenClient
  <2> QED BY <2>1, <2>2, <2>3, MovesTyped DEF TypeInv, TypeOK
<1>7. ASSUME NEW c \in Clients, Compute(c) PROVE TypeInv'
  <2>1. PICK q \in ClientState : /\ client' = [client EXCEPT ![c] = q]
                                 /\ q.offset = client[c].offset
    BY <1>7, ComputeStep
  <2>2. UNCHANGED <<endpoint, order, tables, cache>> /\ client[c].offset \in Offsets
    BY <1>7, ComputeStep DEF TypeInv, OffsetsInRange
  <2> QED BY <2>1, <2>2, MovesTyped DEF TypeInv, TypeOK
<1>8. ASSUME NEW c \in Clients, ReadRows(c) PROVE TypeInv'
  <2>1. PICK q \in ClientState : /\ client' = [client EXCEPT ![c] = q]
                                 /\ q.offset = client[c].offset
    BY <1>8, ReadRowsStep
  <2>2. UNCHANGED <<endpoint, order, tables, cache>> /\ client[c].offset \in Offsets
    BY <1>8, ReadRowsStep DEF TypeInv, OffsetsInRange
  <2> QED BY <2>1, <2>2, MovesTyped DEF TypeInv, TypeOK
<1>9. ASSUME NEW c \in Clients, ReadCount(c) PROVE TypeInv'
  <2>1. PICK q \in ClientState : /\ client' = [client EXCEPT ![c] = q]
                                 /\ q.offset = client[c].offset
    BY <1>9, ReadCountStep
  <2>2. UNCHANGED <<endpoint, order, tables, cache>> /\ client[c].offset \in Offsets
    BY <1>9, ReadCountStep DEF TypeInv, OffsetsInRange
  <2> QED BY <2>1, <2>2, MovesTyped DEF TypeInv, TypeOK
<1>10. ASSUME NEW c \in Clients, ReadSpends(c) PROVE TypeInv'
  <2>1. PICK q \in ClientState : /\ client' = [client EXCEPT ![c] = q]
                                 /\ q.offset = client[c].offset
    BY <1>10, ReadSpendsStep
  <2>2. UNCHANGED <<endpoint, order, tables, cache>> /\ client[c].offset \in Offsets
    BY <1>10, ReadSpendsStep DEF TypeInv, OffsetsInRange
  <2> QED BY <2>1, <2>2, MovesTyped DEF TypeInv, TypeOK
<1>11. ASSUME NEW c \in Clients, Respond(c) PROVE TypeInv'
  <2>1. /\ UNCHANGED <<endpoint, order, tables>> /\ client[c].offset \in Offsets
        /\ Answer(c) \in Page /\ cache' \in [Offsets -> SUBSET Page]
        /\ client' = [client EXCEPT ![c] = Taken(c, Answer(c))]
    BY <1>11, RespondStep
  <2>2. PICK q \in ClientState : q = Taken(c, Answer(c)) /\ (q.pc \in {"ask", "read"} => q.offset \in Offsets)
    BY <2>1, TakenClient
  <2> QED BY <2>1, <2>2, MovesTyped
<1>12. ASSUME NEW c \in Clients, RequestFails(c) PROVE TypeInv'
  <2>1. client' = [client EXCEPT ![c] = IdleClient] /\ UNCHANGED <<endpoint, order, tables, cache>>
    BY <1>12 DEF RequestFails, OnlyMoves, Move
  <2>2. IdleClient \in ClientState /\ IdleClient.pc = "idle"
    BY NoPageTyped DEF IdleClient
  <2> QED BY <2>1, <2>2, MovesTyped DEF TypeInv, TypeOK
<1>13. CASE UNCHANGED vars
  BY <1>13 DEF vars, tables, TypeInv, TypeOK, RowsCounted, OffsetsInRange
<1> QED
  BY <1>1, <1>2, <1>3, <1>4, <1>5, <1>6, <1>7, <1>8, <1>9, <1>10, <1>11, <1>12, <1>13 DEF Next

LEMMA TypeInvariant == Spec => []TypeInv
<1>1. Init => TypeInv
  <2> SUFFICES ASSUME Init PROVE TypeInv
    OBVIOUS
  <2>1. client \in [Clients -> ClientState]
    BY NoPageTyped DEF Init
  <2>2. TypeOK
    BY <2>1, PagesAssumption DEF Init, TypeOK
  <2>3. RowsCounted
    BY FS_EmptySet DEF Init, RowsCounted
  <2>4. OffsetsInRange
    BY DEF Init, OffsetsInRange, IdleClient
  <2> QED BY <2>2, <2>3, <2>4 DEF TypeInv
<1> QED
  BY <1>1, TypeStep, PTL DEF Spec

(* Every variable keeps its type, for any constants.                       *)
THEOREM TypeCorrect == Spec => []TypeOK
<1>1. TypeInv => TypeOK
  BY DEF TypeInv
<1> QED
  BY <1>1, TypeInvariant, PTL

-----------------------------------------------------------------------------
(***************************************************************************)
(* The two properties of a single request.                                 *)
(***************************************************************************)
LEMMA RevenueStep ==
    ASSUME TypeInv, NEW c \in Clients, ReadRows(c),
           endpoint \in {"revenue", "v2/revenue"}, OncePerDay,
           NEW data, data = client'[c].page.data, NEW i \in DOMAIN data
    PROVE  \/ data[i].since = Lag(data[i])
           \/ /\ data[i].since = {}
              /\ \A j \in DOMAIN data :
                    data[j].source = data[i].source => data[j].date >= data[i].date
<1>1. PICK o : o = client[c].offset
  OBVIOUS
<1>2. o \in Nat
  BY <1>1 DEF TypeInv, TypeOK, ClientState
<1>3. PICK s \in Listings(rows) : data = DataOf(s, o)
  <2>1. PICK s \in Listings(rows), q \in ClientState :
           client' = [client EXCEPT ![c] = q] /\ q.page.data = DataOf(s, client[c].offset)
    BY ReadRowsStep
  <2>2. client'[c] = q
    BY <2>1 DEF TypeInv, TypeOK
  <2> QED BY <1>1, <2>1, <2>2
<1>4. PICK w, n : w = Window(s, o) /\ n = Len(w)
  OBVIOUS
<1>5. /\ w \in Seq(rows) /\ n \in Nat /\ DOMAIN w = 1 .. n
  <2>1. s \in Seq(rows)
    BY TypedTables, ListingHoldsRows
  <2>2. w \in Seq(rows)
    BY <1>2, <1>4, <2>1, WindowOfListing
  <2> QED BY <1>4, <2>2
<1>6. /\ DOMAIN data = 1 .. n
      /\ \A j \in 1 .. n : /\ data[j].id = w[j].id /\ data[j].source = w[j].source
                           /\ data[j].date = w[j].date /\ data[j].since = DifferenceOnPage(w, j)
  <2>1. data \in Seq(Shape) /\ Len(data) = n
    BY <1>2, <1>3, <1>4, TypedTables, DataOfListing
  <2>2. \A j \in 1 .. n : /\ data[j].id = w[j].id /\ data[j].source = w[j].source
                           /\ data[j].date = w[j].date /\ data[j].since = EntryOf(w, j).since
    <3> SUFFICES ASSUME NEW j \in 1 .. Len(Window(s, o))
                 PROVE  /\ data[j].id = w[j].id /\ data[j].source = w[j].source
                        /\ data[j].date = w[j].date /\ data[j].since = EntryOf(w, j).since
      BY <1>4
    <3>1. /\ Window(s, o)[j] = s[o + j]
          /\ EntriesOf(s, o)[j] = EntryOf(Window(s, o), j)
          /\ DataOf(s, o)[j].id = s[o + j].id
          /\ DataOf(s, o)[j].source = s[o + j].source
          /\ DataOf(s, o)[j].date = s[o + j].date
          /\ DataOf(s, o)[j].since = EntriesOf(s, o)[j].since
      BY <1>2, TypedTables, DataOfListing
    <3> QED BY <3>1, <1>3, <1>4
  <2>3. \A j \in 1 .. n : EntryOf(w, j).since = DifferenceOnPage(w, j)
    BY <1>4, <1>5, TypedTables, EntryOfRow
  <2> QED BY <2>1, <2>2, <2>3
<1>7. Lag(data[i]) = Lag(w[i])
  BY <1>6 DEF Lag
<1>8. \/ DifferenceOnPage(w, i) = Lag(w[i])
      \/ /\ DifferenceOnPage(w, i) = {}
         /\ \A j \in 1 .. n : w[j].source = w[i].source => w[j].date >= w[i].date
  BY <1>2, <1>4, <1>6, DifferenceIsLag
<1> QED
  BY <1>6, <1>7, <1>8

(* The difference that revenue computes inside a page is the difference to *)
(* the row before in the table, unless the row is the first of its source  *)
(* on the page (computeDailyRevenue of HistoryService against the LAG of   *)
(* the incentives): for any listing PostgreSQL may return.                 *)
THEOREM RevenueIsTheDifference == Spec => RevenueAgreesInsideAPage
<1> DEFINE A == \A c \in Clients :
         ReadRows(c) /\ endpoint \in {"revenue", "v2/revenue"} /\ OncePerDay =>
            LET data == client'[c].page.data
            IN  \A i \in DOMAIN data :
                  \/ data[i].since = Lag(data[i])
                  \/ /\ data[i].since = {}
                     /\ \A j \in DOMAIN data :
                          data[j].source = data[i].source => data[j].date >= data[i].date
<1>1. TypeInv => A
  <2> SUFFICES ASSUME TypeInv, NEW c \in Clients, ReadRows(c),
                      endpoint \in {"revenue", "v2/revenue"}, OncePerDay
               PROVE  LET data == client'[c].page.data
                      IN  \A i \in DOMAIN data :
                            \/ data[i].since = Lag(data[i])
                            \/ /\ data[i].since = {}
                               /\ \A j \in DOMAIN data :
                                    data[j].source = data[i].source => data[j].date >= data[i].date
    OBVIOUS
  <2>1. PICK data : data = client'[c].page.data
    OBVIOUS
  <2>2. \A i \in DOMAIN data :
           \/ data[i].since = Lag(data[i])
           \/ /\ data[i].since = {}
              /\ \A j \in DOMAIN data :
                    data[j].source = data[i].source => data[j].date >= data[i].date
    BY <2>1, RevenueStep
  <2> QED BY <2>1, <2>2
<1>2. TypeInv /\ [Next]_vars => [A]_vars
  <2> HIDE DEF A
  <2> QED BY <1>1
<1> QED
  BY <1>2, TypeInvariant, PTL DEF Spec, RevenueAgreesInsideAPage

LEMMA PricesStep ==
    ASSUME TypeInv, NEW c \in Clients, ReadRows(c), endpoint = "v2/incentives",
           NEW data, data = client'[c].page.data, NEW i \in DOMAIN data
    PROVE  IF \A j \in DOMAIN data : ~ (OwnPrice(data[j]) # 0) THEN data[i].price = 0
           ELSE \E j \in DOMAIN data :
                  /\ OwnPrice(data[j]) # 0 /\ data[i].price = data[j].date
                  /\ \/ j <= i /\ \A k \in j + 1 .. i : ~ (OwnPrice(data[k]) # 0)
                     \/ j > i /\ \A k \in 1 .. j - 1 : ~ (OwnPrice(data[k]) # 0)
<1>1. PICK o : o = client[c].offset
  OBVIOUS
<1>2. o \in Nat
  BY <1>1 DEF TypeInv, TypeOK, ClientState
<1>3. PICK s \in Listings(rows) : data = DataOf(s, o)
  <2>1. PICK s \in Listings(rows), q \in ClientState :
           client' = [client EXCEPT ![c] = q] /\ q.page.data = DataOf(s, client[c].offset)
    BY ReadRowsStep
  <2>2. client'[c] = q
    BY <2>1 DEF TypeInv, TypeOK
  <2> QED BY <1>1, <2>1, <2>2
<1>4. PICK w, es, n : w = Window(s, o) /\ es = EntriesOf(s, o) /\ n = Len(w)
  OBVIOUS
<1>5. /\ w \in Seq(rows) /\ n \in Nat /\ DOMAIN w = 1 .. n
  <2>1. s \in Seq(rows)
    BY TypedTables, ListingHoldsRows
  <2>2. w \in Seq(rows)
    BY <1>2, <1>4, <2>1, WindowOfListing
  <2> QED BY <1>4, <2>2
<1>6. es \in Seq(Shape) /\ Len(es) = n /\ \A j \in 1 .. n : es[j] = EntryOf(w, j)
  BY <1>2, <1>4, TypedTables, DataOfListing
<1>7. data = FillPrices(es)
  BY <1>3, <1>4 DEF DataOf
<1>8. /\ DOMAIN data = 1 .. n
      /\ \A j \in 1 .. n : data[j].source = es[j].source /\ data[j].date = es[j].date
  BY <1>6, <1>7, FilledPrices
<1>9. \A j \in 1 .. n : es[j].price = OwnPrice(data[j]) /\ OwnPrice(data[j]) \in {0, data[j].date}
  <2> SUFFICES ASSUME NEW j \in 1 .. n
               PROVE  es[j].price = OwnPrice(data[j]) /\ OwnPrice(data[j]) \in {0, data[j].date}
    OBVIOUS
  <2>1. PICK r \in rows : r = w[j]
    BY <1>5
  <2>2. es[j].price = OwnPrice(r) /\ es[j].source = r.source /\ es[j].date = r.date
    BY <1>4, <1>5, <1>6, <2>1, TypedTables, EntryOfRow
  <2>3. data[j].source = r.source /\ data[j].date = r.date
    BY <1>8, <2>2
  <2>4. OwnPrice(data[j]) = OwnPrice(r)
    BY <2>3 DEF OwnPrice, HasPrice, SpendsOf
  <2>5. OwnPrice(r) \in {0, r.date}
    BY TypedTables, OwnPriceIsNat DEF Tables, Row
  <2> QED BY <2>2, <2>3, <2>4, <2>5
<1>10. IF \A j \in 1 .. n : es[j].price = 0 THEN data[i].price = 0
       ELSE \E j \in 1 .. n :
               /\ es[j].price # 0 /\ data[i].price = es[j].price
               /\ \/ j <= i /\ \A k \in j + 1 .. i : es[k].price = 0
                  \/ j > i /\ \A k \in 1 .. j - 1 : es[k].price = 0
  <2>1. i \in 1 .. Len(es)
    BY <1>6, <1>8
  <2>2. IF \A j \in 1 .. Len(es) : es[j].price = 0 THEN FillPrices(es)[i].price = 0
        ELSE \E j \in 1 .. Len(es) :
               /\ es[j].price # 0 /\ FillPrices(es)[i].price = es[j].price
               /\ \/ j <= i /\ \A k \in j + 1 .. i : es[k].price = 0
                  \/ j > i /\ \A k \in 1 .. j - 1 : es[k].price = 0
    BY <1>6, <2>1, FilledPrices, Zenon
  <2> QED BY <2>2, <1>6, <1>7
<1>11. CASE \A j \in 1 .. n : es[j].price = 0
  BY <1>8, <1>9, <1>10, <1>11
<1>12. CASE ~ \A j \in 1 .. n : es[j].price = 0
  <2>1. PICK j \in 1 .. n :
               /\ es[j].price # 0 /\ data[i].price = es[j].price
               /\ \/ j <= i /\ \A k \in j + 1 .. i : es[k].price = 0
                  \/ j > i /\ \A k \in 1 .. j - 1 : es[k].price = 0
    BY <1>10, <1>12
  <2>2. i \in 1 .. n
    BY <1>8
  <2>3. OwnPrice(data[j]) # 0 /\ data[i].price = data[j].date
    BY <2>1, <1>9
  <2>4. \A k \in j + 1 .. i : es[k].price = 0 => ~ (OwnPrice(data[k]) # 0)
    BY <1>9, <1>5, <2>2
  <2>5. \A k \in 1 .. j - 1 : es[k].price = 0 => ~ (OwnPrice(data[k]) # 0)
    BY <1>9, <1>5
  <2>6. ~ \A k \in DOMAIN data : ~ (OwnPrice(data[k]) # 0)
    BY <1>8, <2>3
  <2>7. \E k \in DOMAIN data :
                  /\ OwnPrice(data[k]) # 0 /\ data[i].price = data[k].date
                  /\ \/ k <= i /\ \A l \in k + 1 .. i : ~ (OwnPrice(data[l]) # 0)
                     \/ k > i /\ \A l \in 1 .. k - 1 : ~ (OwnPrice(data[l]) # 0)
    BY <1>8, <2>1, <2>3, <2>4, <2>5
  <2> QED BY <2>6, <2>7
<1> QED
  BY <1>11, <1>12

(* On every page of the incentives, whatever its length, an entry has the  *)
(* price of its day, or of the nearest entry before it that has one, or    *)
(* else of the first entry with one (the two loops of getIncentiveHistory).*)
THEOREM PricesAreTheNearest == Spec => PricesComeFromNeighbours
<1> DEFINE A == \A c \in Clients :
         ReadRows(c) /\ endpoint = "v2/incentives" =>
            LET data == client'[c].page.data
                own(i) == OwnPrice(data[i]) # 0
            IN  \A i \in DOMAIN data :
                  IF \A j \in DOMAIN data : ~own(j) THEN data[i].price = 0
                  ELSE \E j \in DOMAIN data :
                         /\ own(j) /\ data[i].price = data[j].date
                         /\ \/ j <= i /\ \A k \in j + 1 .. i : ~own(k)
                            \/ j > i /\ \A k \in 1 .. j - 1 : ~own(k)
<1>1. TypeInv => A
  <2> SUFFICES ASSUME TypeInv, NEW c \in Clients, ReadRows(c), endpoint = "v2/incentives",
                      NEW data, data = client'[c].page.data, NEW i \in DOMAIN data
               PROVE  IF \A j \in DOMAIN data : ~ (OwnPrice(data[j]) # 0) THEN data[i].price = 0
                      ELSE \E j \in DOMAIN data :
                             /\ OwnPrice(data[j]) # 0 /\ data[i].price = data[j].date
                             /\ \/ j <= i /\ \A k \in j + 1 .. i : ~ (OwnPrice(data[k]) # 0)
                                \/ j > i /\ \A k \in 1 .. j - 1 : ~ (OwnPrice(data[k]) # 0)
    BY Zenon
  <2> QED BY PricesStep
<1>2. TypeInv /\ [Next]_vars => [A]_vars
  <2> HIDE DEF A
  <2> QED BY <1>1
<1> QED
  BY <1>2, TypeInvariant, PTL DEF Spec, PricesComeFromNeighbours

-----------------------------------------------------------------------------
(***************************************************************************)
(* The statistics.  Nobody having deleted anything, every income has its   *)
(* spends; a request that has read the spends has found those of every     *)
(* income stored before, and one that has read the incomes first still     *)
(* finds theirs.                                                           *)
(***************************************************************************)
Matches(S, e) == \E s \in S : s.source = e.source /\ s.date = e.date
HasRows(x) == x.pc = "read" /\ "rows" \notin x.unread
HasSpends(x) == x.pc = "read" /\ "spends" \notin x.unread

SpendsFirst == clears = 0 => \A r \in rows : Matches(spends, r)

StatsPage(p) ==
    p.clears = {0} => \A j \in DOMAIN p.data : p.data[j].id <= p.besides => p.data[j].spends # {}

StatsClient(x) ==
    /\ "count" \notin x.unread
    /\ HasRows(x) => x.page.clears # {}
    /\ HasSpends(x) =>
          /\ x.page.clears # {} /\ x.page.besides <= version
          /\ x.page.clears = {0} /\ clears = 0 =>
                \A r \in rows : r.id <= x.page.besides => Matches(x.found, r)
          /\ x.page.clears = {0} /\ HasRows(x) =>
                \A j \in DOMAIN x.page.data :
                   x.page.data[j].id <= x.page.besides => Matches(x.found, x.page.data[j])
    /\ HasRows(x) /\ ~ HasSpends(x) /\ x.page.clears = {0} /\ clears = 0 =>
          \A j \in DOMAIN x.page.data : Matches(spends, x.page.data[j])

StatsInv ==
    endpoint = "v2/stats" =>
        /\ SpendsFirst
        /\ \A c \in Clients : StatsClient(client[c])
        /\ \A c \in Clients : \A i \in DOMAIN client[c].pages : StatsPage(client[c].pages[i])
        /\ \A o \in Offsets : \A p \in cache[o] : StatsPage(p)

LEMMA StatsMoves ==
    ASSUME TypeInv, StatsInv, NEW c \in Clients, NEW q \in ClientState,
           client' = [client EXCEPT ![c] = q], UNCHANGED <<endpoint, order, tables>>,
           endpoint = "v2/stats", StatsClient(q), \A i \in DOMAIN q.pages : StatsPage(q.pages[i]),
           \A o \in Offsets : \A p \in cache'[o] : StatsPage(p)
    PROVE  StatsInv'
<1>1. client \in [Clients -> ClientState]
  BY DEF TypeInv, TypeOK
<1>2. client'[c] = q /\ \A d \in Clients : d # c => client'[d] = client[d]
  BY <1>1
<1>3. SpendsFirst'
  BY DEF StatsInv, SpendsFirst, tables, Matches
<1>4. ASSUME NEW d \in Clients PROVE StatsClient(client[d])'
  <2>1. PICK x : x = client'[d]
    OBVIOUS
  <2>2. StatsClient(x)
    BY <1>2, <2>1 DEF StatsInv
  <2>3. UNCHANGED <<version, clears, rows, spends>>
    BY DEF tables
  <2> QED BY <2>1, <2>2, <2>3 DEF StatsClient, HasRows, HasSpends, Matches
<1>5. ASSUME NEW d \in Clients, NEW i \in DOMAIN client'[d].pages PROVE StatsPage(client[d].pages[i])'
  <2>1. StatsPage(client'[d].pages[i])
    BY <1>2, <1>5 DEF StatsInv
  <2> QED BY <2>1 DEF StatsPage
<1>6. ASSUME NEW o \in Offsets, NEW p \in cache'[o] PROVE StatsPage(p)'
  BY <1>6 DEF StatsPage
<1> QED
  BY <1>3, <1>4, <1>5, <1>6 DEF StatsInv

(* Steps that leave all clients and pages alone.                           *)
LEMMA StatsTables ==
    ASSUME TypeInv, StatsInv, UNCHANGED <<endpoint, order, client, cache>>,
           SpendsFirst',
           endpoint = "v2/stats" => \A c \in Clients : StatsClient(client[c])'
    PROVE  StatsInv'
BY DEF StatsInv, StatsPage

LEMMA StatsRespond ==
    ASSUME TypeInv, StatsInv, endpoint = "v2/stats", NEW c \in Clients, Respond(c)
    PROVE  StatsPage(Answer(c))
<1>1. PICK x \in ClientState : x = client[c]
  BY DEF TypeInv, TypeOK
<1>2. StatsClient(x) /\ HasRows(x) /\ HasSpends(x)
  BY <1>1, RespondStep DEF StatsInv, HasRows, HasSpends
<1>3. PICK a \in Page : a = Answer(c)
  BY AnsweredPage
<1>4. PICK n \in Nat : n = Len(x.page.data) /\ DOMAIN a.data = 1 .. n /\ DOMAIN x.page.data = 1 .. n
  <2>1. a.data \in Seq(Shape) /\ x.page.data \in Seq(Shape) /\ Len(a.data) = Len(x.page.data)
    BY <1>1, <1>3, AnsweredPage DEF ClientState, Page
  <2> QED BY <2>1
<1>5. /\ a.besides = x.page.besides /\ a.clears = x.page.clears
      /\ \A j \in 1 .. n : a.data[j].id = x.page.data[j].id
                           /\ a.data[j].spends = Merge(x.found, x.page.data[j])
  BY <1>1, <1>3, <1>4, AnsweredPage
<1> SUFFICES ASSUME a.clears = {0}, NEW j \in 1 .. n, a.data[j].id <= a.besides
             PROVE  a.data[j].spends # {}
  BY <1>3, <1>4 DEF StatsPage
<1>6. Matches(x.found, x.page.data[j])
  BY <1>2, <1>4, <1>5 DEF StatsClient
<1> QED
  BY <1>5, <1>6 DEF Matches, Merge

LEMMA FoundSpends ==
    ASSUME NEW found, NEW e, Matches(spends, e),
           \A s \in spends : Cardinality(found \cap SpendsOf(s)) = 1
    PROVE  Matches(found, e)
<1>1. PICK s \in spends : s.source = e.source /\ s.date = e.date
  BY DEF Matches
<1>2. found \cap SpendsOf(s) # {}
  <2>1. Cardinality({}) = 0
    BY FS_EmptySet
  <2>2. Cardinality(found \cap SpendsOf(s)) = 1
    OBVIOUS
  <2> QED BY <2>1, <2>2
<1> QED
  BY <1>1, <1>2 DEF SpendsOf, Matches

LEMMA StatsReadRows ==
    ASSUME TypeInv, StatsInv, endpoint = "v2/stats", NEW c \in Clients, ReadRows(c)
    PROVE  StatsInv'
<1>1. PICK x \in ClientState : x = client[c]
  BY DEF TypeInv, TypeOK
<1>2. PICK s \in Listings(rows), q \in ClientState :
         /\ client' = [client EXCEPT ![c] = q]
         /\ q.pc = "read" /\ q.pages = x.pages /\ q.found = x.found /\ q.unread = x.unread \ {"rows"}
         /\ q.page.data = DataOf(s, x.offset) /\ q.page.besides = x.page.besides
         /\ q.page.clears = x.page.clears \cup {clears}
  BY <1>1, ReadRowsStep
<1>3. x.pc = "read" /\ UNCHANGED <<endpoint, order, tables, cache>>
  BY <1>1, ReadRowsStep
<1>4. StatsClient(x)
  BY <1>1 DEF StatsInv
<1>5. HasRows(q) /\ q.page.clears # {} /\ (HasSpends(q) <=> HasSpends(x)) /\ "count" \notin q.unread
  BY <1>2, <1>3, <1>4 DEF HasRows, HasSpends, StatsClient
<1>6. \A j \in DOMAIN q.page.data : \E r \in rows :
         q.page.data[j].id = r.id /\ q.page.data[j].source = r.source /\ q.page.data[j].date = r.date
  <2>1. PICK o \in Nat : o = x.offset
    BY <1>1 DEF ClientState
  <2>2. PICK data, n : data = DataOf(s, o) /\ n = Len(Window(s, o))
    OBVIOUS
  <2>3. data \in Seq(Shape) /\ Len(data) = n
    BY <2>2, TypedTables, DataOfListing
  <2>4. \A j \in 1 .. n : /\ s[o + j] \in rows /\ data[j].id = s[o + j].id
                          /\ data[j].source = s[o + j].source /\ data[j].date = s[o + j].date
    BY <2>2, TypedTables, DataOfListing
  <2>5. DOMAIN data = 1 .. n
    BY <2>3
  <2> QED BY <1>2, <2>1, <2>2, <2>4, <2>5
<1>7. ASSUME q.page.clears = {0} PROVE clears = 0 /\ (HasSpends(x) => x.page.clears = {0})
  BY <1>2, <1>4, <1>7 DEF StatsClient
<1>8. ASSUME HasSpends(q)
      PROVE  /\ q.page.besides <= version
             /\ q.page.clears = {0} /\ clears = 0 =>
                \A r \in rows : r.id <= q.page.besides => Matches(q.found, r)
             /\ q.page.clears = {0} =>
                \A j \in DOMAIN q.page.data :
                   q.page.data[j].id <= q.page.besides => Matches(q.found, q.page.data[j])
  <2>1. q.page.besides <= version
    BY <1>2, <1>4, <1>5, <1>8 DEF StatsClient
  <2>2. q.page.clears = {0} => \A r \in rows : r.id <= q.page.besides => Matches(q.found, r)
    BY <1>2, <1>4, <1>5, <1>7, <1>8 DEF StatsClient
  <2>3. q.page.clears = {0} =>
                \A j \in DOMAIN q.page.data :
                   q.page.data[j].id <= q.page.besides => Matches(q.found, q.page.data[j])
    BY <2>2, <1>6 DEF Matches
  <2> QED BY <2>1, <2>2, <2>3
<1>9. q.page.clears = {0} => \A j \in DOMAIN q.page.data : Matches(spends, q.page.data[j])
  BY <1>6, <1>7 DEF StatsInv, SpendsFirst, Matches
<1>10. StatsClient(q)
  BY <1>5, <1>8, <1>9 DEF StatsClient
<1>11. \A i \in DOMAIN q.pages : StatsPage(q.pages[i])
  BY <1>1, <1>2 DEF StatsInv
<1> QED
  BY <1>2, <1>3, <1>10, <1>11, StatsMoves DEF StatsInv

LEMMA StatsReadSpends ==
    ASSUME TypeInv, StatsInv, endpoint = "v2/stats", NEW c \in Clients, ReadSpends(c)
    PROVE  StatsInv'
<1>1. PICK x \in ClientState : x = client[c]
  BY DEF TypeInv, TypeOK
<1>2. PICK q \in ClientState :
         /\ client' = [client EXCEPT ![c] = q]
         /\ \A s \in spends : Cardinality(q.found \cap SpendsOf(s)) = 1
         /\ q.pc = "read" /\ q.pages = x.pages /\ q.unread = x.unread \ {"spends"}
         /\ q.page.data = x.page.data /\ q.page.besides = version
         /\ q.page.clears = x.page.clears \cup {clears}
  BY <1>1, ReadSpendsStep
<1>3. x.pc = "read" /\ "spends" \in x.unread /\ UNCHANGED <<endpoint, order, tables, cache>>
  BY <1>1, ReadSpendsStep
<1>4. StatsClient(x)
  BY <1>1 DEF StatsInv
<1>5. HasSpends(q) /\ ~ HasSpends(x) /\ q.page.clears # {} /\ (HasRows(q) <=> HasRows(x)) /\ "count" \notin q.unread
  BY <1>2, <1>3, <1>4 DEF HasRows, HasSpends, StatsClient
<1>6. q.page.besides <= version
  BY <1>2, TypedTables
<1>7. clears = 0 => \A r \in rows : Matches(q.found, r)
  BY <1>2, FoundSpends DEF StatsInv, SpendsFirst
<1>8. ASSUME q.page.clears = {0}, HasRows(q), NEW j \in DOMAIN q.page.data
      PROVE  Matches(q.found, q.page.data[j])
  <2>1. clears = 0 /\ x.page.clears = {0}
    BY <1>2, <1>4, <1>5, <1>8 DEF StatsClient
  <2>2. Matches(spends, q.page.data[j])
    BY <1>2, <1>4, <1>5, <1>8, <2>1 DEF StatsClient
  <2> QED BY <1>2, <2>2, FoundSpends
<1>9. StatsClient(q)
  BY <1>5, <1>6, <1>7, <1>8 DEF StatsClient
<1>10. \A i \in DOMAIN q.pages : StatsPage(q.pages[i])
  BY <1>1, <1>2 DEF StatsInv
<1> QED
  BY <1>2, <1>3, <1>9, <1>10, StatsMoves DEF StatsInv

LEMMA StatsStoreRow ==
    ASSUME TypeInv, StatsInv, StoreRow
    PROVE  StatsInv'
<1>1. PICK r \in Row :
         /\ r.id = version + 1 /\ rows' = rows \cup {r}
         /\ endpoint = "v2/stats" /\ clears = 0 => Matches(spends, r)
  BY StoreRowStep DEF Matches
<1>2. /\ UNCHANGED <<endpoint, order, spends, compPrices, clears, cache, client>>
      /\ version' = version + 1 /\ version \in Nat
  BY StoreRowStep, TypedTables
<1>3. endpoint = "v2/stats" => SpendsFirst'
  BY <1>1, <1>2 DEF StatsInv, SpendsFirst, Matches
<1>4. ASSUME NEW c \in Clients, endpoint = "v2/stats" PROVE StatsClient(client[c])'
  <2>1. PICK x \in ClientState : x = client[c]
    BY DEF TypeInv, TypeOK
  <2>2. StatsClient(x)
    BY <1>4, <2>1 DEF StatsInv
  <2>3. x.page.besides \in Nat
    BY <2>1 DEF ClientState, Page
  <2>4. ASSUME HasSpends(x)
        PROVE  /\ x.page.besides <= version + 1
               /\ x.page.clears = {0} /\ clears = 0 =>
                     \A q \in rows \cup {r} : q.id <= x.page.besides => Matches(x.found, q)
    <3>1. x.page.besides <= version /\ ~ (r.id <= x.page.besides)
      BY <1>1, <1>2, <2>2, <2>3, <2>4 DEF StatsClient
    <3>2. x.page.besides <= version + 1
      BY <1>2, <2>3, <3>1
    <3> QED BY <2>2, <2>4, <3>1, <3>2 DEF StatsClient
  <2>5. x = client'[c]
    BY <1>2, <2>1
  <2> HIDE <2>1
  <2>6. /\ HasRows(x) /\ ~ HasSpends(x) /\ x.page.clears = {0} /\ clears' = 0 =>
              \A j \in DOMAIN x.page.data : Matches(spends', x.page.data[j])
        /\ HasSpends(x) =>
             /\ x.page.clears # {} /\ x.page.besides <= version'
             /\ x.page.clears = {0} /\ clears' = 0 =>
                   \A q \in rows' : q.id <= x.page.besides => Matches(x.found, q)
             /\ x.page.clears = {0} /\ HasRows(x) =>
                   \A j \in DOMAIN x.page.data :
                      x.page.data[j].id <= x.page.besides => Matches(x.found, x.page.data[j])
    BY <1>1, <1>2, <2>2, <2>4 DEF StatsClient
  <2>7. "count" \notin x.unread /\ (HasRows(x) => x.page.clears # {})
    BY <2>2 DEF StatsClient
  <2> QED BY <2>5, <2>6, <2>7 DEF StatsClient, HasRows, HasSpends, Matches
<1>5. StatsInv'
  <2>1. CASE endpoint = "v2/stats"
    BY <1>2, <1>3, <1>4, <2>1, StatsTables
  <2>2. CASE endpoint # "v2/stats"
    BY <1>2, <2>2 DEF StatsInv
  <2> QED BY <2>1, <2>2
<1> QED
  BY <1>5

LEMMA StatsStoreSpends ==
    ASSUME TypeInv, StatsInv, StoreSpends \/ StorePrice
    PROVE  StatsInv'
<1>1. /\ UNCHANGED <<endpoint, order, rows, clears, cache, client>> /\ spends \subseteq spends'
      /\ version' = version + 1 /\ version \in Nat
  BY StoreSpendsStep, StorePriceStep, TypedTables
<1>2. \A e : Matches(spends, e) => Matches(spends', e)
  BY <1>1 DEF Matches
<1>3. endpoint = "v2/stats" => SpendsFirst'
  <2>1. endpoint = "v2/stats" => (clears' = 0 => \A r \in rows' : Matches(spends', r))
    BY <1>1, <1>2 DEF StatsInv, SpendsFirst
  <2> QED BY <2>1 DEF SpendsFirst, Matches
<1>4. ASSUME NEW c \in Clients, endpoint = "v2/stats" PROVE StatsClient(client[c])'
  <2>1. PICK x \in ClientState : x = client[c] /\ x = client'[c]
    BY <1>1 DEF TypeInv, TypeOK
  <2>2. StatsClient(x)
    BY <1>4, <2>1 DEF StatsInv
  <2>3. x.page.besides \in Nat
    BY DEF ClientState, Page
  <2>4. HasSpends(x) => x.page.besides <= version'
    BY <1>1, <2>2, <2>3 DEF StatsClient
  <2>5. HasRows(x) /\ ~ HasSpends(x) /\ x.page.clears = {0} /\ clears' = 0 =>
              \A j \in DOMAIN x.page.data : Matches(spends', x.page.data[j])
    BY <1>1, <1>2, <2>2 DEF StatsClient
  <2>6. HasSpends(x) /\ x.page.clears = {0} /\ clears' = 0 =>
            \A r \in rows' : r.id <= x.page.besides => Matches(x.found, r)
    BY <1>1, <2>2 DEF StatsClient
  <2>7. /\ "count" \notin x.unread /\ (HasRows(x) => x.page.clears # {})
        /\ HasSpends(x) => x.page.clears # {}
        /\ HasSpends(x) /\ x.page.clears = {0} /\ HasRows(x) =>
                \A j \in DOMAIN x.page.data :
                   x.page.data[j].id <= x.page.besides => Matches(x.found, x.page.data[j])
    BY <2>2 DEF StatsClient
  <2> QED BY <2>1, <2>4, <2>5, <2>6, <2>7 DEF StatsClient, HasRows, HasSpends, Matches
<1> QED
  <2>1. CASE endpoint = "v2/stats"
    BY <1>1, <1>3, <1>4, <2>1, StatsTables
  <2>2. CASE endpoint # "v2/stats"
    BY <1>1, <2>2 DEF StatsInv
  <2> QED BY <2>1, <2>2

LEMMA StatsClear ==
    ASSUME TypeInv, StatsInv, Clear
    PROVE  StatsInv'
<1>1. /\ UNCHANGED <<endpoint, order, version, cache, client>> /\ clears' # 0
  BY ClearStep, TypedTables
<1>2. SpendsFirst'
  BY <1>1 DEF SpendsFirst
<1>3. ASSUME NEW c \in Clients, endpoint = "v2/stats" PROVE StatsClient(client[c])'
  <2>1. PICK x \in ClientState : x = client[c] /\ x = client'[c]
    BY <1>1 DEF TypeInv, TypeOK
  <2>2. StatsClient(x)
    BY <1>3, <2>1 DEF StatsInv
  <2> QED BY <1>1, <2>1, <2>2 DEF StatsClient, HasRows, HasSpends, Matches
<1> QED
  <2>1. CASE endpoint = "v2/stats"
    BY <1>1, <1>2, <1>3, <2>1, StatsTables
  <2>2. CASE endpoint # "v2/stats"
    BY <1>1, <2>2 DEF StatsInv
  <2> QED BY <2>1, <2>2

LEMMA StatsStep == TypeInv /\ StatsInv /\ [Next]_vars => StatsInv'
<1> SUFFICES ASSUME TypeInv, StatsInv, [Next]_vars PROVE StatsInv'
  OBVIOUS
<1>1. CASE StoreRow \/ StoreSpends \/ StorePrice \/ Clear
  BY <1>1, StatsStoreRow, StatsStoreSpends, StatsClear
<1>2. CASE UNCHANGED vars
  BY <1>2 DEF vars, tables, StatsInv, SpendsFirst, StatsClient, StatsPage, HasRows, HasSpends, Matches
<1>3. CASE Expire
  <2>1. /\ UNCHANGED <<endpoint, order, tables, client>>
        /\ \A o \in Offsets : cache'[o] \subseteq cache[o]
    BY <1>3 DEF Expire, TypeInv, TypeOK
  <2> QED BY <2>1 DEF tables, StatsInv, SpendsFirst, StatsClient, StatsPage, HasRows, HasSpends, Matches
<1>4. CASE endpoint # "v2/stats" /\ UNCHANGED endpoint
  BY <1>4 DEF StatsInv
<1>5. ASSUME endpoint = "v2/stats", NEW c \in Clients, StartWalk(c) PROVE StatsInv'
  <2>1. PICK q \in ClientState : client' = [client EXCEPT ![c] = q] /\ q.pc = "ask" /\ q.pages = << >> /\ q.unread = {}
    BY <1>5, StartWalkStep
  <2>2. UNCHANGED <<endpoint, order, tables, cache>>
    BY <1>5, StartWalkStep
  <2>3. StatsClient(q)
    BY <2>1 DEF StatsClient, HasRows, HasSpends
  <2>4. \A i \in DOMAIN q.pages : StatsPage(q.pages[i])
    BY <2>1
  <2>5. \A o \in Offsets : \A p \in cache'[o] : StatsPage(p)
    BY <1>5, <2>2 DEF StatsInv
  <2>6. UNCHANGED <<endpoint, order, tables>>
    BY <2>2
  <2> QED BY <1>5, <2>1, <2>2, <2>3, <2>4, <2>5, <2>6, StatsMoves
<1>6. ASSUME endpoint = "v2/stats", NEW c \in Clients, AnswerFromCache(c) PROVE StatsInv'
  <2>1. PICK page \in Page : /\ client' = [client EXCEPT ![c] = Taken(c, page)]
                             /\ page \in cache[client[c].offset]
    BY <1>6, AnswerFromCacheStep
  <2>2. UNCHANGED <<endpoint, order, tables, cache>> /\ client[c].offset \in Offsets
    BY <1>6, AnswerFromCacheStep
  <2>3. PICK q \in ClientState : /\ q = Taken(c, page) /\ q.pc # "read"
                                 /\ q.pages = Append(client[c].pages, page) /\ q.unread = {}
    BY TakenClient
  <2>4. StatsClient(q)
    BY <2>3 DEF StatsClient, HasRows, HasSpends
  <2>5. StatsPage(page)
    BY <1>6, <2>1, <2>2 DEF StatsInv
  <2>6. \A i \in DOMAIN q.pages : StatsPage(q.pages[i])
    <3>1. PICK ps \in Seq(Page) : ps = client[c].pages
      BY DEF TypeInv, TypeOK, ClientState
    <3>2. \A i \in DOMAIN ps : StatsPage(ps[i])
      BY <1>6, <3>1 DEF StatsInv
    <3>3. q.pages = Append(ps, page)
      BY <2>3, <3>1
    <3> QED BY <3>2, <3>3, <2>5
  <2> QED BY <1>6, <2>1, <2>2, <2>3, <2>4, <2>6, StatsMoves DEF StatsInv
<1>7. ASSUME endpoint = "v2/stats", NEW c \in Clients, Compute(c) PROVE StatsInv'
  <2>1. PICK q \in ClientState : /\ client' = [client EXCEPT ![c] = q] /\ q.pages = client[c].pages
                                 /\ q.unread = {"rows", IF endpoint = "v2/stats" THEN "spends" ELSE "count"}
    BY <1>7, ComputeStep
  <2>2. UNCHANGED <<endpoint, order, tables, cache>>
    BY <1>7, ComputeStep
  <2>3. q.unread = {"rows", "spends"}
    BY <1>7, <2>1
  <2>4. StatsClient(q)
    BY <2>3 DEF StatsClient, HasRows, HasSpends
  <2> QED BY <1>7, <2>1, <2>2, <2>4, StatsMoves DEF StatsInv
<1>8. ASSUME endpoint = "v2/stats", NEW c \in Clients, ReadCount(c) PROVE StatsInv'
  <2>1. "count" \in client[c].unread
    BY <1>8, ReadCountStep
  <2> QED BY <1>8, <2>1 DEF StatsInv, StatsClient
<1>9. ASSUME endpoint = "v2/stats", NEW c \in Clients, Respond(c) PROVE StatsInv'
  <2>1. PICK page \in Page : page = Answer(c)
    BY <1>9, RespondStep
  <2>2. /\ UNCHANGED <<endpoint, order, tables>> /\ client[c].offset \in Offsets
        /\ cache \in [Offsets -> SUBSET Page]
        /\ cache' = [cache EXCEPT ![client[c].offset] = {page}] \/ cache' = cache
        /\ client' = [client EXCEPT ![c] = Taken(c, page)]
    BY <1>9, <2>1, RespondStep DEF TypeInv, TypeOK
  <2>3. PICK q \in ClientState : /\ q = Taken(c, page) /\ q.pc # "read"
                                 /\ q.pages = Append(client[c].pages, page) /\ q.unread = {}
    BY TakenClient
  <2>4. StatsClient(q)
    BY <2>3 DEF StatsClient, HasRows, HasSpends
  <2>5. StatsPage(page)
    BY <1>9, <2>1, StatsRespond
  <2>6. \A i \in DOMAIN q.pages : StatsPage(q.pages[i])
    <3>1. PICK ps \in Seq(Page) : ps = client[c].pages
      BY DEF TypeInv, TypeOK, ClientState
    <3>2. \A i \in DOMAIN ps : StatsPage(ps[i])
      BY <1>9, <3>1 DEF StatsInv
    <3>3. q.pages = Append(ps, page)
      BY <2>3, <3>1
    <3> QED BY <3>2, <3>3, <2>5
  <2>7. \A o \in Offsets : \A p \in cache'[o] : p = page \/ p \in cache[o]
    BY <2>2
  <2>8. \A o \in Offsets : \A p \in cache'[o] : StatsPage(p)
    BY <1>9, <2>5, <2>7 DEF StatsInv
  <2> QED BY <1>9, <2>2, <2>3, <2>4, <2>6, <2>8, StatsMoves
<1>10. ASSUME endpoint = "v2/stats", NEW c \in Clients, RequestFails(c) PROVE StatsInv'
  <2>1. client' = [client EXCEPT ![c] = IdleClient] /\ UNCHANGED <<endpoint, order, tables, cache>>
    BY <1>10 DEF RequestFails, OnlyMoves, Move
  <2>2. PICK q \in ClientState : q = IdleClient /\ q.pc = "idle" /\ q.pages = << >> /\ q.unread = {}
    BY NoPageTyped DEF IdleClient
  <2>3. StatsClient(q)
    BY <2>2 DEF StatsClient, HasRows, HasSpends
  <2>4. \A i \in DOMAIN q.pages : StatsPage(q.pages[i])
    BY <2>2
  <2>5. \A o \in Offsets : \A p \in cache'[o] : StatsPage(p)
    BY <1>10, <2>1 DEF StatsInv
  <2>6. UNCHANGED <<endpoint, order, tables>>
    BY <2>1
  <2> QED BY <1>10, <2>1, <2>2, <2>3, <2>4, <2>5, <2>6, StatsMoves
<1>11. UNCHANGED endpoint
  BY DEF Next, vars, StoreRow, StoreSpends, StorePrice, Clear, Expire, StartWalk, AnswerFromCache,
         Compute, ReadRows, ReadCount, ReadSpends, Respond, RequestFails, OnlyMoves
<1> QED
  BY <1>1, <1>2, <1>3, <1>4, <1>5, <1>6, <1>7, <1>8, <1>9, <1>10, <1>11,
     StatsReadRows, StatsReadSpends DEF Next

(* An entry of the statistics lacks its spends only if its incomes were    *)
(* stored while the request was reading, or somebody deleted spends        *)
(* (getMarketDataHistory reads spends and incomes in two queries).         *)
THEOREM StatisticsAreMatched == Spec => []StatsHaveTheirSpends
<1>1. Init => StatsInv
  BY DEF Init, StatsInv, SpendsFirst, StatsClient, HasRows, HasSpends, IdleClient
<1>2. TypeInv /\ StatsInv => StatsHaveTheirSpends
  <2> SUFFICES ASSUME TypeInv, StatsInv, NEW c \in Clients, endpoint = "v2/stats",
                      NEW i \in DOMAIN client[c].pages, client[c].pages[i].clears = {0},
                      NEW j \in DOMAIN client[c].pages[i].data,
                      client[c].pages[i].data[j].id <= client[c].pages[i].besides
               PROVE  client[c].pages[i].data[j].spends # {}
    BY DEF StatsHaveTheirSpends
  <2> QED BY DEF StatsInv, StatsPage
<1> QED
  BY <1>1, <1>2, StatsStep, TypeInvariant, PTL DEF Spec

-----------------------------------------------------------------------------
(***************************************************************************)
(* The walk.  First, what the pages that exist (in the cache, with a       *)
(* client, or being read) have seen of the table: unless somebody deleted  *)
(* rows, a page that is newer has seen of every day as many rows, and as   *)
(* many ahead of the day, and none has seen more than there is.            *)
(***************************************************************************)
Known(p) ==
    \/ \E o \in Offsets : p \in cache[o]
    \/ \E c \in Clients : \E i \in DOMAIN client[c].pages : p = client[c].pages[i]
    \/ \E c \in Clients : HasRows(client[c]) /\ p = client[c].page
KnownPages == {p \in Page : Known(p)}

NoMore(p, q) == \A d \in Days : p.dates[d] <= q.dates[d] /\ p.ahead[d] <= q.ahead[d]

PastPage(p) ==
    /\ p.version <= version /\ p.clears # {} /\ \A k \in p.clears : k <= clears
    /\ p.clears = {clears} =>
          /\ \A d \in Days : p.dates[d] <= DayRows[d] /\ p.ahead[d] <= RowsAhead[d]
          /\ p.version = version => p.dates = DayRows /\ p.ahead = RowsAhead

GrowingPages ==
    \A p, q \in KnownPages : \A k \in Nat :
        p.clears = {k} /\ q.clears = {k} /\ p.version <= q.version => NoMore(p, q)

PagesInv == (\A p \in KnownPages : PastPage(p)) /\ GrowingPages

(* Pages that come from pages that existed, the tables being the same.     *)
Comes(q) ==
    \E p \in KnownPages :
        /\ q.version = p.version /\ q.dates = p.dates /\ q.ahead = p.ahead
        /\ p.clears \subseteq q.clears /\ \A k \in q.clears : k <= clears
LEMMA PagesFromPages ==
    ASSUME TypeInv, TypeInv', PagesInv, UNCHANGED <<order, tables>>,
           \A q \in KnownPages' : Comes(q)
    PROVE  PagesInv'
<1>1. UNCHANGED <<rows, version, clears>>
  BY DEF tables
<1>2. DayRows' = DayRows /\ RowsAhead' = RowsAhead
  BY <1>1 DEF DayRows, RowsAhead, OfDay, AheadOf
<1>3. ASSUME NEW q \in KnownPages' PROVE PastPage(q)'
  <2>1. PICK p \in KnownPages :
              /\ q.version = p.version /\ q.dates = p.dates /\ q.ahead = p.ahead
              /\ p.clears \subseteq q.clears /\ \A k \in q.clears : k <= clears
    BY <1>3 DEF Comes
  <2>2. PastPage(p)
    BY DEF PagesInv
  <2>3. q.clears # {} /\ (q.clears = {clears} => p.clears = {clears})
    BY <2>1, <2>2 DEF PastPage
  <2> QED BY <1>1, <1>2, <2>1, <2>2, <2>3 DEF PastPage
<1>4. ASSUME NEW x \in KnownPages', NEW y \in KnownPages', NEW k \in Nat,
             x.clears = {k}, y.clears = {k}, x.version <= y.version
      PROVE  NoMore(x, y)
  <2>1. PICK p \in KnownPages : /\ x.version = p.version /\ x.dates = p.dates /\ x.ahead = p.ahead
                                /\ p.clears \subseteq x.clears
    BY <1>4 DEF Comes
  <2>2. PICK q \in KnownPages : /\ y.version = q.version /\ y.dates = q.dates /\ y.ahead = q.ahead
                                /\ q.clears \subseteq y.clears
    BY <1>4 DEF Comes
  <2>3. p.clears = {k} /\ q.clears = {k}
    BY <1>4, <2>1, <2>2 DEF PagesInv, PastPage
  <2>4. NoMore(p, q)
    BY <1>4, <2>1, <2>2, <2>3 DEF PagesInv, GrowingPages
  <2> QED BY <2>1, <2>2, <2>4 DEF NoMore
<1>5. GrowingPages'
  BY <1>4 DEF GrowingPages, NoMore
<1> QED
  BY <1>3, <1>5 DEF PagesInv

(* The counts of the table, and that they grow with it.                    *)
LEMMA TableCounts ==
    ASSUME TypeInv, NEW d \in Days
    PROVE  /\ DayRows[d] \in Nat /\ RowsAhead[d] \in Nat
           /\ RowsAhead[d] + DayRows[d] <= Cardinality(rows) /\ Cardinality(rows) \in Nat
<1>1. d \in Nat
  BY TypedTables
<1> QED
  BY <1>1, TypedTables, DayCounts DEF DayRows, RowsAhead

LEMMA CountsGrow ==
    ASSUME TypeInv, TypeInv', rows \subseteq rows', order' = order, NEW d \in Days
    PROVE  DayRows[d] <= DayRows'[d] /\ RowsAhead[d] <= RowsAhead'[d]
<1>1. OfDay(d) \subseteq OfDay(d)' /\ AheadOf(d) \subseteq AheadOf(d)'
  BY DEF OfDay, AheadOf
<1>2. IsFiniteSet(rows')
  BY DEF TypeInv, RowsCounted
<1>3. OfDay(d)' \subseteq rows' /\ AheadOf(d)' \subseteq rows'
  BY DEF OfDay, AheadOf
<1>4. IsFiniteSet(OfDay(d)') /\ IsFiniteSet(AheadOf(d)')
  BY <1>2, <1>3, FS_Subset
<1>5. Cardinality(OfDay(d)) <= Cardinality(OfDay(d)')
  BY <1>1, <1>4, FS_Subset
<1>6. Cardinality(AheadOf(d)) <= Cardinality(AheadOf(d)')
  BY <1>1, <1>4, FS_Subset
<1> QED
  BY <1>5, <1>6 DEF DayRows, RowsAhead

(* One client moves: the pages known then were known before, are its own,  *)
(* or were just stored in the cache.                                       *)
LEMMA MovedPages ==
    ASSUME TypeInv, NEW c \in Clients, NEW x \in ClientState,
           client' = [client EXCEPT ![c] = x], NEW q \in KnownPages'
    PROVE  \/ q \in KnownPages
           \/ \E o \in Offsets : q \in cache'[o]
           \/ \E i \in DOMAIN x.pages : q = x.pages[i]
           \/ HasRows(x) /\ q = x.page
<1>1. client'[c] = x /\ \A d \in Clients \ {c} : client'[d] = client[d]
  BY DEF TypeInv, TypeOK
<1>2. q \in Page
  BY DEF KnownPages
<1>3. CASE \E o \in Offsets : q \in cache'[o]
  BY <1>3
<1>4. CASE \E d \in Clients : \E i \in DOMAIN client'[d].pages : q = client'[d].pages[i]
  <2>1. PICK d \in Clients : \E i \in DOMAIN client'[d].pages : q = client'[d].pages[i]
    BY <1>4
  <2>2. CASE d = c
    BY <1>1, <2>1, <2>2
  <2>3. CASE d # c
    BY <1>1, <1>2, <2>1, <2>3 DEF KnownPages, Known
  <2> QED BY <2>2, <2>3
<1>5. CASE \E d \in Clients : HasRows(client'[d]) /\ q = client'[d].page
  <2>1. PICK d \in Clients : HasRows(client'[d]) /\ q = client'[d].page
    BY <1>5
  <2>2. CASE d = c
    BY <1>1, <2>1, <2>2
  <2>3. CASE d # c
    BY <1>1, <1>2, <2>1, <2>3 DEF KnownPages, Known
  <2> QED BY <2>2, <2>3
<1>6. Known(q)'
  BY DEF KnownPages
<1> QED
  BY <1>3, <1>4, <1>5, <1>6 DEF Known, HasRows

(* The tables change.                                                      *)
LEMMA PagesOfTables ==
    ASSUME TypeInv, TypeInv', PagesInv, StoreRow \/ StoreSpends \/ StorePrice \/ Clear
    PROVE  PagesInv'
<1>1. UNCHANGED <<cache, client, order>>
  BY DEF StoreRow, StoreSpends, StorePrice, Clear
<1>2. KnownPages' = KnownPages
  BY <1>1 DEF KnownPages, Known, HasRows
<1>3. GrowingPages'
  BY <1>2 DEF GrowingPages, NoMore, PagesInv
<1>4. version \in Nat /\ clears \in Nat
  BY TypedTables
<1>5. ASSUME NEW p \in KnownPages PROVE PastPage(p)'
  <2>1. PastPage(p) /\ p.version \in Nat /\ p.dates \in [Days -> Nat] /\ p.ahead \in [Days -> Nat]
        /\ p.clears \subseteq Nat
    BY DEF PagesInv, KnownPages, Page
  <2>2. CASE Clear
    <3>1. version' = version /\ clears' = clears + 1
      BY <2>2, ClearStep
    <3>2. \A k \in p.clears : k <= clears' /\ k # clears'
      BY <1>4, <2>1, <3>1 DEF PastPage
    <3> QED BY <1>4, <2>1, <3>1, <3>2 DEF PastPage
  <2>3. CASE StoreRow \/ StoreSpends \/ StorePrice
    <3>1. version' = version + 1 /\ clears' = clears /\ rows \subseteq rows'
      BY <2>3, StoreRowStep, StoreSpendsStep, StorePriceStep
    <3>2. p.version <= version' /\ p.version # version'
      BY <1>4, <2>1, <3>1 DEF PastPage
    <3>3. ASSUME p.clears = {clears}, NEW d \in Days
          PROVE  p.dates[d] <= DayRows'[d] /\ p.ahead[d] <= RowsAhead'[d]
      <4>1. p.dates[d] <= DayRows[d] /\ p.ahead[d] <= RowsAhead[d]
        BY <2>1, <3>3 DEF PastPage
      <4>2. DayRows[d] <= DayRows'[d] /\ RowsAhead[d] <= RowsAhead'[d]
        BY <1>1, <3>1, CountsGrow
      <4>3. DayRows \in [Days -> Nat] /\ RowsAhead \in [Days -> Nat]
        BY CountsTyped
      <4>4. DayRows' \in [Days -> Nat] /\ RowsAhead' \in [Days -> Nat]
        <5>1. DayRows'[d] \in Nat /\ RowsAhead'[d] \in Nat /\ \A e \in Days : Cardinality(OfDay(e)') \in Nat /\ Cardinality(AheadOf(e)') \in Nat
          <6> SUFFICES ASSUME NEW e \in Days PROVE Cardinality(OfDay(e)') \in Nat /\ Cardinality(AheadOf(e)') \in Nat
            BY DEF DayRows, RowsAhead
          <6>1. IsFiniteSet(rows') /\ OfDay(e)' \subseteq rows' /\ AheadOf(e)' \subseteq rows'
            BY DEF TypeInv, RowsCounted, OfDay, AheadOf
          <6> QED BY <6>1, FS_Subset, FS_CardinalityType
        <5> QED BY <5>1 DEF DayRows, RowsAhead
      <4>5. /\ p.dates[d] \in Nat /\ p.ahead[d] \in Nat /\ DayRows[d] \in Nat /\ RowsAhead[d] \in Nat
            /\ DayRows'[d] \in Nat /\ RowsAhead'[d] \in Nat
        BY <2>1, <4>3, <4>4
      <4> QED BY <4>1, <4>2, <4>5
    <3> QED BY <2>1, <3>1, <3>2, <3>3 DEF PastPage
  <2> QED BY <2>2, <2>3
<1> QED
  BY <1>2, <1>3, <1>5 DEF PagesInv

(* The rows are read.                                                      *)
LEMMA PagesReadRows ==
    ASSUME TypeInv, TypeInv', PagesInv, NEW c \in Clients, ReadRows(c),
           \A k \in client[c].page.clears : k <= clears
    PROVE  PagesInv'
<1>1. PICK q \in ClientState :
          /\ client' = [client EXCEPT ![c] = q] /\ q.pages = client[c].pages
          /\ q.page.version = version /\ q.page.clears = client[c].page.clears \cup {clears}
          /\ q.page.dates = DayRows /\ q.page.ahead = RowsAhead
  BY ReadRowsStep
<1>2. UNCHANGED <<order, rows, version, clears, cache>>
  BY ReadRowsStep DEF tables
<1>3. DayRows' = DayRows /\ RowsAhead' = RowsAhead
  BY <1>2 DEF DayRows, RowsAhead, OfDay, AheadOf
<1>4. PICK n \in Page : n = q.page
  BY DEF ClientState
<1>5. /\ DayRows \in [Days -> Nat] /\ RowsAhead \in [Days -> Nat] /\ version \in Nat /\ clears \in Nat
      /\ n.version = version /\ n.dates = DayRows /\ n.ahead = RowsAhead
      /\ clears \in n.clears /\ \A k \in n.clears : k <= clears
  BY <1>1, <1>4, CountsTyped, TypedTables
<1>6. PastPage(n)
  BY <1>5 DEF PastPage
<1>7. ASSUME NEW p \in KnownPages' PROVE p = n \/ p \in KnownPages
  <2>0. client' = [client EXCEPT ![c] = q]
    BY <1>1
  <2>2. \/ p \in KnownPages \/ \E o \in Offsets : p \in cache'[o]
        \/ \E i \in DOMAIN q.pages : p = q.pages[i]
        \/ HasRows(q) /\ p = q.page
    BY <2>0, MovedPages
  <2>3. p \in Page
    BY <1>7 DEF KnownPages
  <2>4. CASE \E i \in DOMAIN q.pages : p = q.pages[i]
    BY <1>1, <2>3, <2>4 DEF KnownPages, Known
  <2>5. CASE \E o \in Offsets : p \in cache'[o]
    BY <1>2, <2>3, <2>5 DEF KnownPages, Known
  <2> QED BY <1>4, <2>2, <2>4, <2>5
<1>8. \A p \in KnownPages' : PastPage(p)
  BY <1>6, <1>7 DEF PagesInv
<1>9. ASSUME NEW p \in KnownPages', NEW r \in KnownPages', NEW k \in Nat,
             p.clears = {k}, r.clears = {k}, p.version <= r.version
      PROVE  NoMore(p, r)
  <2>1. /\ p.version \in Nat /\ r.version \in Nat /\ p.dates \in [Days -> Nat] /\ p.ahead \in [Days -> Nat]
        /\ r.dates \in [Days -> Nat] /\ r.ahead \in [Days -> Nat]
    BY <1>9 DEF KnownPages, Page
  <2>2. CASE p \in KnownPages /\ r \in KnownPages
    BY <1>9, <2>2 DEF PagesInv, GrowingPages
  <2>3. CASE r = n
    <3>1. k = clears
      BY <1>5, <1>9, <2>3
    <3> QED BY <1>5, <1>8, <1>9, <2>3, <3>1 DEF PastPage, NoMore
  <2>4. CASE p = n
    <3>1. k = clears
      BY <1>5, <1>9, <2>4
    <3>2. r.version = version
      BY <1>5, <1>8, <1>9, <2>1, <2>4 DEF PastPage
    <3>3. r.dates = DayRows /\ r.ahead = RowsAhead
      BY <1>8, <1>9, <3>1, <3>2 DEF PastPage
    <3> QED BY <1>5, <2>1, <2>4, <3>3 DEF NoMore
  <2> QED BY <1>7, <1>9, <2>2, <2>3, <2>4
<1>10. GrowingPages'
  BY <1>9 DEF GrowingPages, NoMore
<1>11. \A p \in KnownPages' : PastPage(p)'
  BY <1>2, <1>3, <1>8 DEF PastPage
<1> QED
  BY <1>10, <1>11 DEF PagesInv

LEMMA KnownComes ==
    ASSUME PagesInv, NEW p \in KnownPages
    PROVE  Comes(p)
BY DEF Comes, PagesInv, PastPage

(* One client moves with pages that come from known ones.                  *)
LEMMA PagesOfMove ==
    ASSUME TypeInv, TypeInv', PagesInv, UNCHANGED <<order, tables>>,
           NEW c \in Clients, NEW x \in ClientState, client' = [client EXCEPT ![c] = x],
           \A o \in Offsets : \A p \in cache'[o] : p \in cache[o] \/ Comes(p),
           \A i \in DOMAIN x.pages : Comes(x.pages[i]),
           HasRows(x) => Comes(x.page)
    PROVE  PagesInv'
<1>1. ASSUME NEW q \in KnownPages' PROVE Comes(q)
  <2>1. \/ q \in KnownPages
        \/ \E o \in Offsets : q \in cache'[o]
        \/ \E i \in DOMAIN x.pages : q = x.pages[i]
        \/ HasRows(x) /\ q = x.page
    BY MovedPages
  <2>2. CASE q \in KnownPages
    BY <2>2, KnownComes
  <2>3. CASE \E o \in Offsets : q \in cache'[o]
    <3>1. PICK o \in Offsets : q \in cache'[o]
      BY <2>3
    <3>2. CASE q \in cache[o]
      <4>1. q \in Page
        BY <1>1 DEF KnownPages
      <4>2. q \in KnownPages
        BY <3>2, <4>1 DEF KnownPages, Known
      <4> QED BY <4>2, KnownComes
    <3> QED BY <3>1, <3>2
  <2> QED BY <2>1, <2>2, <2>3
<1> QED
  BY <1>1, PagesFromPages

-----------------------------------------------------------------------------
(***************************************************************************)
(* What one page shows of a day: the rows ahead of the day are a, those of *)
(* the day n, and the page holds the places o + 1 .. o + PageSize.         *)
(***************************************************************************)
LeastOf(n, x) == IF x <= 0 THEN 0 ELSE IF x < n THEN x ELSE n

Places(a, n, o) == {j \in 1 .. PageSize : a < o + j /\ o + j <= a + n}
FirstPlace(a, o) == IF a <= o THEN 1 ELSE a - o + 1
LastPlace(a, n, o) == IF a + n <= o + PageSize THEN a + n - o ELSE PageSize

LEMMA PlacesOnPage ==
    ASSUME NEW a \in Nat, NEW n \in Nat, NEW o \in Nat
    PROVE  /\ IsFiniteSet(Places(a, n, o)) /\ Cardinality(Places(a, n, o)) \in Nat
           /\ Cardinality(Places(a, n, o)) =
                 IF FirstPlace(a, o) > LastPlace(a, n, o) THEN 0
                 ELSE LastPlace(a, n, o) - FirstPlace(a, o) + 1
<1> DEFINE S == Places(a, n, o)
           low == FirstPlace(a, o)
           high == LastPlace(a, n, o)
<1>1. PageSize \in Nat /\ PageSize >= 1
  BY PagesAssumption
<1>2. low \in Int /\ high \in Int
  BY <1>1 DEF FirstPlace, LastPlace
<1>3. S = low .. high
  BY <1>1 DEF FirstPlace, LastPlace, Places
<1>4. IsFiniteSet(low .. high) /\ Cardinality(low .. high) = IF low > high THEN 0 ELSE high - low + 1
  <2> HIDE DEF low, high
  <2> QED BY <1>2, FS_Interval
<1> QED
  <2> HIDE DEF low, high, S
  <2>1. Cardinality(S) \in Nat
    BY <1>3, <1>4, FS_CardinalityType
  <2>2. IsFiniteSet(S) /\ Cardinality(S) = IF low > high THEN 0 ELSE high - low + 1
    BY <1>3, <1>4
  <2> QED BY <2>1, <2>2 DEF low, high, S

(* The first page, and one more page: of a day that had m rows at first,   *)
(* s have been shown when the last page had b rows ahead of the day, and   *)
(* this page shows t.                                                      *)
LEMMA FirstShows ==
    ASSUME NEW a \in Nat, NEW n \in Nat
    PROVE  Cardinality(Places(a, n, 0)) = LeastOf(n, PageSize - a)
<1> DEFINE C == Cardinality(Places(a, n, 0))
<1>1. PageSize \in Nat /\ PageSize >= 1
  BY PagesAssumption
<1>2. C = IF FirstPlace(a, 0) > LastPlace(a, n, 0) THEN 0
          ELSE LastPlace(a, n, 0) - FirstPlace(a, 0) + 1
  BY PlacesOnPage
<1> HIDE DEF C
<1> QED
  <2>1. C = LeastOf(n, PageSize - a)
    BY <1>1, <1>2 DEF LeastOf, FirstPlace, LastPlace
  <2> QED BY <2>1 DEF C

LEMMA NextShows ==
    ASSUME NEW a \in Nat, NEW n \in Nat, NEW o \in Nat, NEW b \in Nat, NEW m \in Nat, NEW s \in Nat,
           b <= a, m <= n, s >= LeastOf(m, o - b)
    PROVE  s + Cardinality(Places(a, n, o)) >= LeastOf(m, o + PageSize - a)
<1>0. PICK t \in Nat : t = Cardinality(Places(a, n, o))
  BY PlacesOnPage
<1>1. PageSize \in Nat /\ PageSize >= 1
  BY PagesAssumption
<1>2. t = IF FirstPlace(a, o) > LastPlace(a, n, o) THEN 0
          ELSE LastPlace(a, n, o) - FirstPlace(a, o) + 1
  BY <1>0, PlacesOnPage
<1>3. s + t >= LeastOf(m, o + PageSize - a)
  <2>1. CASE a >= o
    BY <1>1, <1>2, <2>1 DEF LeastOf, FirstPlace, LastPlace
  <2>2. CASE a < o /\ a + n <= o + PageSize
    BY <1>1, <1>2, <2>2 DEF LeastOf, FirstPlace, LastPlace
  <2>3. CASE a < o /\ a + n > o + PageSize
    BY <1>1, <1>2, <2>3 DEF LeastOf, FirstPlace, LastPlace
  <2> QED BY <1>1, <2>1, <2>2, <2>3
<1> QED
  BY <1>0, <1>3

(* If nothing was inserted it shows no more than that.                     *)
LEMMA NextShowsNoMore ==
    ASSUME NEW a \in Nat, NEW n \in Nat, NEW o \in Nat, NEW s \in Nat, s <= LeastOf(n, o - a)
    PROVE  s + Cardinality(Places(a, n, o)) <= LeastOf(n, o + PageSize - a)
<1>0. PICK t \in Nat : t = Cardinality(Places(a, n, o))
  BY PlacesOnPage
<1>1. PageSize \in Nat /\ PageSize >= 1
  BY PagesAssumption
<1>2. t = IF FirstPlace(a, o) > LastPlace(a, n, o) THEN 0
          ELSE LastPlace(a, n, o) - FirstPlace(a, o) + 1
  BY <1>0, PlacesOnPage
<1>3. s + t <= LeastOf(n, o + PageSize - a)
  <2>1. CASE a >= o
    BY <1>1, <1>2, <2>1 DEF LeastOf, FirstPlace, LastPlace
  <2>2. CASE a < o /\ a + n <= o + PageSize
    BY <1>1, <1>2, <2>2 DEF LeastOf, FirstPlace, LastPlace
  <2>3. CASE a < o /\ a + n > o + PageSize
    BY <1>1, <1>2, <2>3 DEF LeastOf, FirstPlace, LastPlace
  <2> QED BY <1>1, <2>1, <2>2, <2>3
<1> QED
  BY <1>0, <1>3

(* A page at an offset shows of every day the rows in its places; if it is *)
(* empty it is behind the last row.                                        *)
Sees(p, o) ==
    /\ DOMAIN p.data \subseteq 1 .. PageSize
    /\ \A d \in Days : \A j \in 1 .. PageSize :
          j \in DOMAIN p.data /\ p.data[j].date = d <=> j \in Places(p.ahead[d], p.dates[d], o)

Blank(p, o) == p.data = << >> => \A d \in Days : p.ahead[d] + p.dates[d] <= o

LEMMA ShownPlaces ==
    ASSUME NEW ps \in Seq(Page), NEW d, NEW x
    PROVE  x \in Shown(ps, d) <=>
              \E i \in DOMAIN ps : \E j \in DOMAIN ps[i].data : x = <<i, j>> /\ ps[i].data[j].date = d
<1> DEFINE U == UNION {{i} \X DOMAIN ps[i].data : i \in DOMAIN ps}
<1>1. x \in U <=> \E i \in DOMAIN ps : \E j \in DOMAIN ps[i].data : x = <<i, j>>
  <2>1. x \in U <=> \E i \in DOMAIN ps : x \in {i} \X DOMAIN ps[i].data
    OBVIOUS
  <2> HIDE DEF U
  <2>2. ASSUME NEW i \in DOMAIN ps
        PROVE  x \in {i} \X DOMAIN ps[i].data <=> \E j \in DOMAIN ps[i].data : x = <<i, j>>
    OBVIOUS
  <2> QED BY <2>1, <2>2
<1>2. x \in Shown(ps, d) <=> x \in U /\ ps[x[1]].data[x[2]].date = d
  BY DEF Shown
<1> QED
  <2> HIDE DEF U
  <2>1. ASSUME NEW i \in DOMAIN ps, NEW j \in DOMAIN ps[i].data, x = <<i, j>>
        PROVE  x[1] = i /\ x[2] = j
    BY <2>1
  <2> QED BY <1>1, <1>2, <2>1

LEMMA ShownAppend ==
    ASSUME NEW ps \in Seq(Page), NEW p \in Page, NEW o \in Nat, Sees(p, o), NEW d \in Days,
           IsFiniteSet(Shown(ps, d))
    PROVE  /\ IsFiniteSet(Shown(Append(ps, p), d)) /\ OnDay(ps, d) \in Nat
           /\ OnDay(Append(ps, p), d) = OnDay(ps, d) + Cardinality(Places(p.ahead[d], p.dates[d], o))
<1> DEFINE P == Places(p.ahead[d], p.dates[d], o)
           n == Len(ps) + 1
           T == {<<n, j>> : j \in P}
           qs == Append(ps, p)
<1>1. qs \in Seq(Page) /\ n \in Nat /\ n >= 1 /\ DOMAIN ps = 1 .. n - 1 /\ DOMAIN qs = 1 .. n
      /\ qs[n] = p /\ \A i \in DOMAIN ps : qs[i] = ps[i] /\ i # n
  OBVIOUS
<1>2. p.dates[d] \in Nat /\ p.ahead[d] \in Nat
  BY DEF Page
<1>3. IsFiniteSet(P) /\ Cardinality(P) \in Nat
  BY <1>2, PlacesOnPage
<1>4. \A j : j \in P <=> j \in DOMAIN p.data /\ p.data[j].date = d
  BY DEF Sees, Places
<1> HIDE DEF P, n, qs
<1>5. IsFiniteSet(T) /\ Cardinality(T) = Cardinality(P)
  <2> DEFINE f == [j \in P |-> <<n, j>>]
  <2>1. f \in [P -> T]
    OBVIOUS
  <2>2. \A x, y \in P : f[x] = f[y] => x = y
    OBVIOUS
  <2>3. \A t \in T : \E x \in P : f[x] = t
    OBVIOUS
  <2> HIDE DEF f, T
  <2> QED BY <1>3, <2>1, <2>2, <2>3, SameSize
<1>6. Shown(qs, d) = Shown(ps, d) \cup T
  <2>1. ASSUME NEW x PROVE x \in Shown(qs, d) <=> x \in Shown(ps, d) \/ x \in T
    <3>1. x \in Shown(qs, d) <=>
            \E i \in DOMAIN qs : \E j \in DOMAIN qs[i].data : x = <<i, j>> /\ qs[i].data[j].date = d
      BY <1>1, ShownPlaces
    <3>2. x \in Shown(ps, d) <=>
            \E i \in DOMAIN ps : \E j \in DOMAIN ps[i].data : x = <<i, j>> /\ ps[i].data[j].date = d
      BY ShownPlaces
    <3>3. x \in T <=> \E j \in DOMAIN p.data : x = <<n, j>> /\ p.data[j].date = d
      BY <1>4
    <3>4. \A i : i \in DOMAIN qs <=> i \in DOMAIN ps \/ i = n
      BY <1>1
    <3> HIDE DEF T
    <3> QED BY <1>1, <3>1, <3>2, <3>3, <3>4
  <2> HIDE DEF T
  <2> QED BY <2>1
<1>7. Shown(ps, d) \cap T = {}
  <2> SUFFICES ASSUME NEW x \in Shown(ps, d), x \in T PROVE FALSE
    OBVIOUS
  <2>1. PICK j \in P : x = <<n, j>>
    OBVIOUS
  <2>2. PICK i \in DOMAIN ps : \E k \in DOMAIN ps[i].data : x = <<i, k>>
    BY ShownPlaces
  <2>3. i = n
    BY <2>1, <2>2
  <2> QED BY <1>1, <2>3
<1> HIDE DEF T
<1>8. IsFiniteSet(Shown(ps, d) \cup T)
      /\ Cardinality(Shown(ps, d) \cup T) =
            Cardinality(Shown(ps, d)) + Cardinality(T) - Cardinality(Shown(ps, d) \cap T)
  BY <1>5, FS_Union
<1>9. Cardinality(Shown(ps, d) \cap T) = 0 /\ Cardinality(Shown(ps, d)) \in Nat
  BY <1>7, FS_EmptySet, FS_CardinalityType
<1>10. IsFiniteSet(Shown(qs, d)) /\ OnDay(qs, d) = OnDay(ps, d) + Cardinality(P) /\ OnDay(ps, d) \in Nat
  <2>1. PICK a \in Nat : a = Cardinality(Shown(ps, d))
    BY <1>9
  <2>2. PICK b \in Nat : b = Cardinality(P) /\ b = Cardinality(T)
    BY <1>3, <1>5
  <2>3. Cardinality(Shown(qs, d)) = a + b
    BY <1>6, <1>8, <1>9, <2>1, <2>2
  <2> QED BY <1>6, <1>8, <2>1, <2>2, <2>3 DEF OnDay
<1> QED
  BY <1>10 DEF qs, P

LEMMA ShownNothing ==
    ASSUME NEW d \in Days
    PROVE  IsFiniteSet(Shown(<< >>, d)) /\ OnDay(<< >>, d) = 0
<1>1. << >> \in Seq(Page) /\ DOMAIN << >> = {}
  OBVIOUS
<1>2. ASSUME NEW x \in Shown(<< >>, d) PROVE FALSE
  BY <1>1, ShownPlaces
<1>3. Shown(<< >>, d) = {}
  BY <1>2
<1> QED
  BY <1>3, FS_EmptySet DEF OnDay

Single(p) == \E k \in Nat : p.clears = {k}
Counted(p, o) ==
    Single(p) /\ p.version <= p.besides =>
       \A d \in Days : \/ p.ahead[d] + p.dates[d] <= p.total
                       \/ p.ahead[d] + p.dates[d] <= o
GoodPage(p, o) == Sees(p, o) /\ Counted(p, o)

(* The pages a client has, up to its offset: of every day they show the    *)
(* rows the day had at the first page, up to the offset, and the rows that *)
(* were ahead of the day at the last page cannot have hidden one of them.  *)
Reaches(ps, d, o) ==
    /\ OnDay(ps, d) >= LeastOf(ps[1].dates[d], o - ps[Len(ps)].ahead[d])
    /\ StoodStill(ps) => OnDay(ps, d) <= LeastOf(ps[1].dates[d], o - ps[Len(ps)].ahead[d])
Follows(ps, o) ==
    GrewOnly(ps) => /\ ps[1].version <= ps[Len(ps)].version
                    /\ \A d \in Days : Reaches(ps, d, o)

EndsAt(p, o) ==
    Single(p) /\ p.version <= p.besides => \A d \in Days : p.ahead[d] + p.dates[d] <= o

Covered(x) ==
    /\ \A d \in Days : IsFiniteSet(Shown(x.pages, d))
    /\ x.pages = << >> => x.offset = 0 /\ x.pc # "walked"
    /\ x.pages # << >> =>
          /\ Follows(x.pages, x.offset)
          /\ x.pc = "walked" => EndsAt(x.pages[Len(x.pages)], x.offset)

(* The page p joins the pages ps of a client.                              *)
Joins(ps, p) ==
    \A i \in DOMAIN ps : \A k \in Nat :
        ps[i].clears = {k} /\ p.clears = {k} =>
           /\ ps[i].version <= p.version => NoMore(ps[i], p)
           /\ p.version <= ps[i].version => NoMore(p, ps[i])

LEMMA FirstFollows ==
    ASSUME NEW ps \in Seq(Page), ps = << >>, NEW p \in Page, Sees(p, 0)
    PROVE  Follows(Append(ps, p), PageSize)
<1>0. PICK qs : qs = Append(ps, p)
  OBVIOUS
<1>1. Len(qs) = 1 /\ qs[1] = p
  BY <1>0
<1>2. ASSUME NEW d \in Days
      PROVE  OnDay(qs, d) = LeastOf(p.dates[d], PageSize - p.ahead[d]) /\ OnDay(qs, d) \in Nat
  <2>1. p.dates[d] \in Nat /\ p.ahead[d] \in Nat
    BY DEF Page
  <2>3. IsFiniteSet(Shown(ps, d)) /\ OnDay(ps, d) = 0
    BY ShownNothing
  <2>2. PICK o \in Nat : o = 0
    OBVIOUS
  <2>7. OnDay(Append(ps, p), d) = OnDay(ps, d) + Cardinality(Places(p.ahead[d], p.dates[d], o))
    BY <2>2, <2>3, ShownAppend, Zenon
  <2>4. OnDay(qs, d) = OnDay(ps, d) + Cardinality(Places(p.ahead[d], p.dates[d], 0))
    BY <1>0, <2>2, <2>7
  <2>5. Cardinality(Places(p.ahead[d], p.dates[d], 0)) \in Nat
    BY <2>1, PlacesOnPage
  <2>6. Cardinality(Places(p.ahead[d], p.dates[d], 0)) = LeastOf(p.dates[d], PageSize - p.ahead[d])
    BY <2>1, FirstShows
  <2> QED BY <2>3, <2>4, <2>5, <2>6
<1>3. p.version \in Nat
  BY DEF Page
<1>4. ASSUME NEW d \in Days PROVE Reaches(qs, d, PageSize)
  <2>1. PICK x \in Nat : x = OnDay(qs, d)
    BY <1>2
  <2>2. x = LeastOf(p.dates[d], PageSize - p.ahead[d])
    BY <1>2, <2>1
  <2>3. x >= LeastOf(p.dates[d], PageSize - p.ahead[d]) /\ x <= LeastOf(p.dates[d], PageSize - p.ahead[d])
    BY <2>2
  <2> QED BY <1>1, <2>1, <2>3 DEF Reaches
<1> QED
  BY <1>0, <1>1, <1>3, <1>4 DEF Follows

LEMMA NextFollows ==
    ASSUME NEW ps \in Seq(Page), ps # << >>, NEW p \in Page, NEW o \in Nat, Sees(p, o), Joins(ps, p),
           Follows(ps, o), \A d \in Days : IsFiniteSet(Shown(ps, d))
    PROVE  Follows(Append(ps, p), o + PageSize)
<1>1. PICK qs : qs = Append(ps, p)
  OBVIOUS
<1>2. PICK n \in Nat : n = Len(ps) /\ n >= 1 /\ DOMAIN ps = 1 .. n
  OBVIOUS
<1>3. /\ qs \in Seq(Page) /\ Len(qs) = n + 1 /\ DOMAIN qs = 1 .. n + 1
      /\ qs[n + 1] = p /\ \A i \in 1 .. n : qs[i] = ps[i]
  BY <1>1, <1>2
<1>4. \A i \in 1 .. n : ps[i] \in Page /\ ps[i].version \in Nat
  <2>1. \A i \in 1 .. n : ps[i] \in Page
    BY <1>2
  <2>2. \A q \in Page : q.version \in Nat
    BY DEF Page
  <2> QED BY <2>1, <2>2
<1>5. p.version \in Nat
  BY DEF Page
<1> SUFFICES Follows(qs, o + PageSize)
  BY <1>1
<1> SUFFICES ASSUME GrewOnly(qs)
             PROVE  /\ qs[1].version <= qs[Len(qs)].version
                    /\ \A d \in Days : Reaches(qs, d, o + PageSize)
  BY DEF Follows
<1>6. PICK k \in Nat : \A i \in 1 .. n + 1 : qs[i].clears = {k}
  <2>1. PICK k \in 0 .. MaxClears : \A i \in DOMAIN qs : qs[i].clears = {k}
    BY DEF GrewOnly
  <2>2. k \in Nat
    BY PagesAssumption
  <2> QED BY <1>3, <2>1, <2>2
<1>7. (\A i \in 1 .. n : ps[i].clears = {k}) /\ p.clears = {k}
  <2>1. n + 1 \in 1 .. n + 1 /\ \A i \in 1 .. n : i \in 1 .. n + 1
    BY <1>2
  <2> QED BY <1>3, <1>6, <2>1
<1>8. GrewOnly(ps)
  <2>1. \E l \in 0 .. MaxClears : \A i \in DOMAIN ps : ps[i].clears = {l}
    <3>1. PICK l \in 0 .. MaxClears : \A i \in 1 .. n + 1 : qs[i].clears = {l}
      BY <1>3 DEF GrewOnly
    <3> QED BY <1>2, <1>3, <3>1
  <2>2. \A i \in DOMAIN ps : ps[i].version <= ps[i].besides
    BY <1>2, <1>3 DEF GrewOnly
  <2>3. \A i \in 1 .. n - 1 : ps[i].version <= ps[i + 1].version
    <3> SUFFICES ASSUME NEW i \in 1 .. n - 1 PROVE ps[i].version <= ps[i + 1].version
      OBVIOUS
    <3>1. i \in 1 .. n /\ i + 1 \in 1 .. n /\ i \in 1 .. Len(qs) - 1
      BY <1>2, <1>3
    <3> QED BY <1>3, <3>1 DEF GrewOnly
  <2> QED BY <1>2, <2>1, <2>2, <2>3 DEF GrewOnly
<1>9. ps[n].version <= p.version
  <2>1. n \in 1 .. Len(qs) - 1 /\ n \in 1 .. n
    BY <1>2, <1>3
  <2> QED BY <1>3, <2>1 DEF GrewOnly
<1>10. ps[1].version <= ps[n].version
  BY <1>2, <1>8 DEF Follows
<1>11. ps[1].version <= p.version
  BY <1>2, <1>4, <1>5, <1>9, <1>10
<1>12. NoMore(ps[1], p) /\ NoMore(ps[n], p)
  BY <1>2, <1>7, <1>9, <1>11 DEF Joins
<1>13. ASSUME StoodStill(qs)
       PROVE  StoodStill(ps) /\ NoMore(p, ps[1]) /\ NoMore(p, ps[n])
  <2>1. \A i \in 1 .. n + 1 : qs[i].version = qs[1].version /\ qs[i].besides = qs[1].version
    BY <1>3, <1>13 DEF StoodStill
  <2>2. 1 \in 1 .. n + 1 /\ n \in 1 .. n + 1 /\ n + 1 \in 1 .. n + 1 /\ 1 \in 1 .. n /\ n \in 1 .. n
        /\ \A i \in 1 .. n : i \in 1 .. n + 1
    BY <1>2
  <2>3. \A i \in 1 .. n : ps[i].version = ps[1].version /\ ps[i].besides = ps[1].version
    BY <1>3, <2>1, <2>2
  <2>4. StoodStill(ps)
    BY <1>2, <2>3 DEF StoodStill
  <2>5. p.version = ps[1].version /\ p.version = ps[n].version
    BY <1>3, <2>1, <2>2
  <2>6. p.version <= ps[1].version /\ p.version <= ps[n].version
    BY <1>5, <2>5
  <2> QED BY <1>2, <1>7, <2>2, <2>4, <2>6 DEF Joins
<1>14. qs[1] = ps[1] /\ qs[Len(qs)] = p
  BY <1>2, <1>3
<1>15. ASSUME NEW d \in Days PROVE Reaches(qs, d, o + PageSize)
  <2>0. Reaches(ps, d, o)
    BY <1>8 DEF Follows
  <2>1. PICK a \in Nat : a = p.ahead[d]
    BY DEF Page
  <2>2. PICK m \in Nat : m = p.dates[d]
    BY DEF Page
  <2>3. PICK b \in Nat : b = ps[n].ahead[d]
    BY <1>2, <1>4 DEF Page
  <2>4. PICK r \in Nat : r = ps[1].dates[d]
    BY <1>2, <1>4 DEF Page
  <2>5. b <= a /\ r <= m
    BY <1>12, <2>1, <2>2, <2>3, <2>4 DEF NoMore
  <2>6. PICK t \in Nat : t = Cardinality(Places(a, m, o))
    BY PlacesOnPage
  <2>7. OnDay(qs, d) = OnDay(ps, d) + t /\ OnDay(ps, d) \in Nat
    BY <1>1, <2>1, <2>2, <2>6, ShownAppend
  <2>8. PICK s \in Nat : s = OnDay(ps, d)
    BY <2>7
  <2>9. s >= LeastOf(r, o - b) /\ (StoodStill(ps) => s <= LeastOf(r, o - b))
    BY <1>2, <2>0, <2>3, <2>4, <2>8 DEF Reaches
  <2>10. s >= LeastOf(r, o - b)
    BY <2>9
  <2>11. s + Cardinality(Places(a, m, o)) >= LeastOf(r, o + PageSize - a)
    BY <2>5, <2>10, NextShows
  <2>12. ASSUME StoodStill(qs) PROVE s + Cardinality(Places(a, m, o)) <= LeastOf(r, o + PageSize - a)
    <3>1. a <= b /\ m <= r /\ StoodStill(ps)
      BY <1>13, <2>1, <2>2, <2>3, <2>4, <2>12 DEF NoMore
    <3>2. a = b /\ m = r
      BY <2>5, <3>1
    <3>3. s <= LeastOf(m, o - a)
      BY <2>9, <3>1, <3>2
    <3>4. s + Cardinality(Places(a, m, o)) <= LeastOf(m, o + PageSize - a)
      BY <3>3, NextShowsNoMore
    <3> QED BY <3>2, <3>4
  <2>13. OnDay(qs, d) = s + Cardinality(Places(a, m, o))
    BY <2>6, <2>7, <2>8
  <2>14. OnDay(qs, d) >= LeastOf(r, o + PageSize - a) /\ (StoodStill(qs) => OnDay(qs, d) <= LeastOf(r, o + PageSize - a))
    BY <2>11, <2>12, <2>13
  <2>15. qs[1].dates[d] = r /\ qs[Len(qs)].ahead[d] = a
    BY <1>14, <2>1, <2>4
  <2>16. PICK e \in Nat : e = o + PageSize
    BY PagesAssumption
  <2>17. PICK y \in Nat : y = OnDay(qs, d)
    BY <2>6, <2>13
  <2>18. y >= LeastOf(r, e - a) /\ (StoodStill(qs) => y <= LeastOf(r, e - a))
    BY <2>14, <2>16, <2>17, PagesAssumption
  <2>19. Reaches(qs, d, e)
    BY <2>15, <2>17, <2>18 DEF Reaches
  <2> QED BY <2>16, <2>19
<1> QED
  BY <1>11, <1>14, <1>15

LEMMA JoinsKnown ==
    ASSUME TypeInv, PagesInv, NEW c \in Clients, NEW p \in Page, Comes(p)
    PROVE  Joins(client[c].pages, p)
<1> SUFFICES ASSUME NEW i \in DOMAIN client[c].pages, NEW k \in Nat,
                    client[c].pages[i].clears = {k}, p.clears = {k}
             PROVE  /\ client[c].pages[i].version <= p.version => NoMore(client[c].pages[i], p)
                    /\ p.version <= client[c].pages[i].version => NoMore(p, client[c].pages[i])
  BY DEF Joins
<1>1. PICK ps \in Seq(Page) : ps = client[c].pages
  BY DEF TypeInv, TypeOK, ClientState
<1>2. PICK a \in Page : a = client[c].pages[i]
  BY <1>1
<1>3. a \in KnownPages
  BY <1>2 DEF KnownPages, Known
<1>4. PICK q \in KnownPages : /\ p.version = q.version /\ p.dates = q.dates /\ p.ahead = q.ahead
                              /\ q.clears \subseteq p.clears
  BY DEF Comes
<1>5. q.clears = {k}
  BY <1>4 DEF PagesInv, PastPage
<1>6. a.clears = {k}
  BY <1>2
<1>7. /\ a.version <= q.version => NoMore(a, q)
      /\ q.version <= a.version => NoMore(q, a)
  BY <1>3, <1>5, <1>6 DEF PagesInv, GrowingPages
<1> QED
  BY <1>2, <1>4, <1>7 DEF NoMore

LEMMA CoveredTaken ==
    ASSUME TypeInv, NEW c \in Clients, NEW p \in Page, client[c].offset \in Nat, Covered(client[c]),
           Joins(client[c].pages, p), GoodPage(p, client[c].offset)
    PROVE  Covered(Taken(c, p))
<1>1. PICK x \in ClientState : x = client[c]
  BY DEF TypeInv, TypeOK
<1>2. PICK ps \in Seq(Page) : ps = x.pages
  BY DEF ClientState
<1>3. PICK o \in Nat : o = x.offset
  BY <1>1
<1>4. PICK y \in ClientState :
          /\ y = Taken(c, p) /\ y.offset = o + PageSize /\ y.pages = Append(ps, p)
          /\ y.pc = IF o + PageSize < p.total THEN "ask" ELSE "walked"
  BY <1>1, <1>2, <1>3, TakenClient
<1>5. Covered(x) /\ Joins(ps, p) /\ Sees(p, o) /\ Counted(p, o)
  BY <1>1, <1>2, <1>3 DEF GoodPage
<1>6. y.pages # << >> /\ Len(y.pages) = Len(ps) + 1 /\ y.pages[Len(y.pages)] = p
  BY <1>2, <1>4
<1>7. ASSUME NEW d \in Days PROVE IsFiniteSet(Shown(ps, d)) /\ IsFiniteSet(Shown(y.pages, d))
  <2>1. IsFiniteSet(Shown(ps, d))
    BY <1>2, <1>5 DEF Covered
  <2>2. IsFiniteSet(Shown(Append(ps, p), d))
    BY <1>5, <2>1, ShownAppend
  <2> QED BY <1>4, <2>1, <2>2
<1>8. Follows(y.pages, y.offset)
  <2>1. CASE ps = << >>
    <3>1. o = 0
      BY <1>2, <1>3, <1>5, <2>1 DEF Covered
    <3>2. Follows(Append(ps, p), PageSize)
      BY <1>5, <2>1, <3>1, FirstFollows
    <3>3. y.offset = PageSize
      BY <1>4, <3>1, PagesAssumption
    <3> QED BY <1>4, <3>2, <3>3
  <2>2. CASE ps # << >>
    <3>1. Follows(ps, o)
      BY <1>2, <1>3, <1>5, <2>2 DEF Covered
    <3>2. Follows(Append(ps, p), o + PageSize)
      BY <1>5, <1>7, <2>2, <3>1, NextFollows
    <3> QED BY <1>4, <3>2
  <2> QED BY <2>1, <2>2
<1>9. ASSUME y.pc = "walked" PROVE EndsAt(p, y.offset)
  <2>1. p.total \in Nat /\ PageSize \in Nat /\ p.total <= o + PageSize
    BY <1>4, <1>9, PagesAssumption DEF Page
  <2> SUFFICES ASSUME Single(p), p.version <= p.besides, NEW d \in Days
               PROVE  p.ahead[d] + p.dates[d] <= o + PageSize
    BY <1>4 DEF EndsAt
  <2>2. p.ahead[d] + p.dates[d] <= p.total \/ p.ahead[d] + p.dates[d] <= o
    BY <1>5 DEF Counted
  <2>3. p.ahead[d] + p.dates[d] \in Nat
    BY DEF Page
  <2> QED BY <2>1, <2>2, <2>3
<1>10. Covered(y)
  BY <1>6, <1>7, <1>8, <1>9 DEF Covered
<1> QED
  BY <1>4, <1>10

(* What a client's walk shows when it has ended.                           *)
LEMMA WalkedShowsAll ==
    ASSUME TypeInv, PagesInv, NEW c \in Clients, Covered(client[c]), Walked(c), GrewOnly(client[c].pages), NEW d \in Days
    PROVE  /\ OnDay(client[c].pages, d) >= client[c].pages[1].dates[d]
           /\ StoodStill(client[c].pages) => OnDay(client[c].pages, d) = client[c].pages[1].dates[d]
<1>1. PICK x \in ClientState : x = client[c]
  BY DEF TypeInv, TypeOK
<1>2. PICK ps \in Seq(Page) : ps = x.pages
  BY DEF ClientState
<1>3. PICK o \in Nat : o = x.offset
  BY DEF ClientState
<1>4. ps # << >> /\ Follows(ps, o) /\ EndsAt(ps[Len(ps)], o) /\ IsFiniteSet(Shown(ps, d))
  BY <1>1, <1>2, <1>3 DEF Covered, Walked
<1>5. PICK n \in Nat : n = Len(ps) /\ n >= 1 /\ DOMAIN ps = 1 .. n
  BY <1>4
<1>6. PICK f \in Page : f = ps[1]
  BY <1>5
<1>7. PICK l \in Page : l = ps[n]
  BY <1>5
<1>8. GrewOnly(ps)
  BY <1>1, <1>2
<1>9. PICK k \in Nat : f.clears = {k} /\ l.clears = {k} /\ l.version <= l.besides
  <2>1. PICK k \in 0 .. MaxClears : \A i \in DOMAIN ps : ps[i].clears = {k}
    BY <1>8 DEF GrewOnly
  <2>2. k \in Nat
    BY PagesAssumption
  <2>3. l.version <= l.besides
    BY <1>5, <1>7, <1>8 DEF GrewOnly
  <2> QED BY <1>5, <1>6, <1>7, <2>1, <2>2, <2>3
<1>10. f.version <= l.version
  BY <1>4, <1>5, <1>6, <1>7, <1>8 DEF Follows
<1>11. f \in KnownPages /\ l \in KnownPages
  <2>1. 1 \in DOMAIN client[c].pages /\ n \in DOMAIN client[c].pages
    BY <1>1, <1>2, <1>5
  <2>2. f = client[c].pages[1] /\ l = client[c].pages[n]
    BY <1>1, <1>2, <1>6, <1>7
  <2> QED BY <2>1, <2>2 DEF KnownPages, Known
<1>12. NoMore(f, l)
  BY <1>9, <1>10, <1>11 DEF PagesInv, GrowingPages
<1>13. PICK a \in Nat : a = l.ahead[d]
  BY DEF Page
<1>14. PICK m \in Nat : m = l.dates[d]
  BY DEF Page
<1>15. PICK r \in Nat : r = f.dates[d]
  BY DEF Page
<1>16. r <= m
  BY <1>12, <1>14, <1>15 DEF NoMore
<1>17. a + m <= o
  <2>1. Single(l)
    BY <1>9 DEF Single
  <2> QED BY <1>4, <1>5, <1>7, <1>9, <1>13, <1>14, <2>1 DEF EndsAt
<1>18. LeastOf(r, o - a) = r
  BY <1>16, <1>17 DEF LeastOf
<1>19. PICK s \in Nat : s = OnDay(ps, d)
  BY <1>4, FS_CardinalityType DEF OnDay
<1>20. Reaches(ps, d, o)
  BY <1>4, <1>8 DEF Follows
<1>21. s >= LeastOf(r, o - a) /\ (StoodStill(ps) => s <= LeastOf(r, o - a))
  BY <1>5, <1>6, <1>7, <1>13, <1>15, <1>19, <1>20 DEF Reaches
<1>22. s >= r /\ (StoodStill(ps) => s = r)
  BY <1>18, <1>21
<1> QED
  BY <1>1, <1>2, <1>6, <1>15, <1>19, <1>22

-----------------------------------------------------------------------------
(***************************************************************************)
(* The invariant of the walk: what is known of the page a client is        *)
(* reading, and that the cached pages show what their offset promises.     *)
(***************************************************************************)
HasCount(x) == x.pc = "read" /\ endpoint # "v2/stats" /\ "count" \notin x.unread
Totalled(p) == \A d \in Days : p.ahead[d] + p.dates[d] <= p.total

Progress(x) ==
    /\ \A k \in x.page.clears : k <= clears
    /\ x.unread \subseteq {"rows", IF endpoint = "v2/stats" THEN "spends" ELSE "count"}
    /\ HasRows(x) => Sees(x.page, x.offset) /\ Blank(x.page, x.offset)
    /\ HasRows(x) /\ endpoint = "v2/stats" => Totalled(x.page)
    /\ HasCount(x) => /\ x.page.besides <= version /\ x.page.clears # {}
                      /\ x.page.clears = {clears} /\ x.page.besides = version =>
                            x.page.total = Cardinality(rows)
                      /\ HasRows(x) => Counted(x.page, x.offset)

CachedPages == \A o \in Offsets : \A p \in cache[o] : GoodPage(p, o)
WalkInv ==
    PagesInv /\ CachedPages /\ \A c \in Clients : Progress(client[c]) /\ Covered(client[c])

LEMMA WalkOfTables ==
    ASSUME TypeInv, TypeInv', WalkInv, StoreRow \/ StoreSpends \/ StorePrice \/ Clear
    PROVE  WalkInv'
<1>1. UNCHANGED <<endpoint, cache, client>>
  BY DEF StoreRow, StoreSpends, StorePrice, Clear
<1>2. PagesInv'
  BY PagesOfTables DEF WalkInv
<1>3. CachedPages'
  BY <1>1 DEF WalkInv, CachedPages
<1>4. version \in Nat /\ clears \in Nat
  BY TypedTables
<1>5. ASSUME NEW c \in Clients PROVE Progress(client[c])' /\ Covered(client[c])'
  <2>1. PICK x \in ClientState : x = client[c]
    BY DEF TypeInv, TypeOK
  <2>2. Progress(x) /\ Covered(x) /\ x.page.besides \in Nat /\ x.page.clears \subseteq Nat
    BY <2>1 DEF WalkInv, ClientState, Page
  <2>3. Covered(client[c])'
    BY <1>1, <2>1, <2>2
  <2>4. CASE Clear
    <3>1. version' = version /\ clears' = clears + 1
      BY <2>4, ClearStep
    <3>2. \A k \in x.page.clears : k <= clears' /\ k # clears'
      BY <1>4, <2>2, <3>1 DEF Progress
    <3>3. Progress(x)'
      BY <1>1, <2>2, <3>1, <3>2 DEF Progress, HasRows, HasCount
    <3> QED BY <1>1, <2>1, <2>3, <3>3
  <2>5. CASE StoreRow \/ StoreSpends \/ StorePrice
    <3>1. version' = version + 1 /\ clears' = clears
      BY <2>5, StoreRowStep, StoreSpendsStep, StorePriceStep
    <3>2. HasCount(x) => x.page.besides <= version' /\ x.page.besides # version'
      BY <1>4, <2>2, <3>1 DEF Progress
    <3>3. Progress(x)'
      BY <1>1, <2>2, <3>1, <3>2 DEF Progress, HasRows, HasCount
    <3> QED BY <1>1, <2>1, <2>3, <3>3
  <2> QED BY <2>4, <2>5
<1> QED
  BY <1>2, <1>3, <1>5 DEF WalkInv

(* One client moves.                                                       *)
LEMMA WalkMoves ==
    ASSUME TypeInv, WalkInv, PagesInv', UNCHANGED <<endpoint, order, tables>>,
           NEW c \in Clients, NEW x \in ClientState, client' = [client EXCEPT ![c] = x],
           Progress(x), Covered(x),
           \A o \in Offsets : \A p \in cache'[o] : p \in cache[o] \/ GoodPage(p, o)
    PROVE  WalkInv'
<1>1. UNCHANGED <<endpoint, rows, version, clears>>
  BY DEF tables
<1>2. CachedPages'
  BY DEF WalkInv, CachedPages
<1>3. ASSUME NEW d \in Clients PROVE Progress(client[d])' /\ Covered(client[d])'
  <2>1. client'[d] = client[d] \/ client'[d] = x
    BY DEF TypeInv, TypeOK
  <2>2. PICK y : y = client'[d] /\ Progress(y) /\ Covered(y)
    BY <2>1 DEF WalkInv
  <2>3. Progress(y)'
    BY <1>1, <2>2 DEF Progress, HasRows, HasCount
  <2> QED BY <2>2, <2>3
<1> QED
  BY <1>2, <1>3 DEF WalkInv

(* A client without a page that it is reading.                             *)
LEMMA NothingRead ==
    ASSUME NEW x \in ClientState, x.page = NoPage, x.unread = {}, x.pc # "read"
    PROVE  Progress(x)
BY DEF Progress, HasRows, HasCount, NoPage

LEMMA KeptComes ==
    ASSUME TypeInv, PagesInv, NEW c \in Clients
    PROVE  \A i \in DOMAIN client[c].pages : Comes(client[c].pages[i])
<1> SUFFICES ASSUME NEW i \in DOMAIN client[c].pages PROVE Comes(client[c].pages[i])
  OBVIOUS
<1>1. PICK ps \in Seq(Page) : ps = client[c].pages
  BY DEF TypeInv, TypeOK, ClientState
<1>2. PICK a \in Page : a = client[c].pages[i]
  BY <1>1
<1>3. a \in KnownPages
  BY <1>2 DEF KnownPages, Known
<1> QED
  BY <1>2, <1>3, KnownComes

LEMMA CoveredNothing ==
    ASSUME NEW x \in ClientState, x.pages = << >>, x.offset = 0, x.pc # "walked"
    PROVE  Covered(x)
BY ShownNothing DEF Covered

LEMMA WalkStarts ==
    ASSUME TypeInv, TypeInv', WalkInv, NEW c \in Clients, StartWalk(c) \/ RequestFails(c)
    PROVE  WalkInv'
<1>1. UNCHANGED <<endpoint, order, tables, cache>>
  BY DEF StartWalk, RequestFails, OnlyMoves
<1>2. PICK x \in ClientState : /\ client' = [client EXCEPT ![c] = x]
                               /\ x.pc \in {"ask", "idle"} /\ x.offset = 0 /\ x.pages = << >>
                               /\ x.page = NoPage /\ x.unread = {}
  <2>1. CASE StartWalk(c)
    BY <2>1, StartWalkStep
  <2>2. CASE RequestFails(c)
    <3>1. client' = [client EXCEPT ![c] = IdleClient]
      BY <2>2 DEF RequestFails, OnlyMoves, Move
    <3>2. IdleClient \in ClientState
      BY NoPageTyped
    <3>3. PICK x \in ClientState : x = IdleClient
      BY <3>2
    <3>4. x.pc = "idle" /\ x.offset = 0 /\ x.pages = << >> /\ x.page = NoPage /\ x.unread = {}
      BY <3>3 DEF IdleClient
    <3> QED BY <3>1, <3>3, <3>4
  <2> QED BY <2>1, <2>2
<1>3. Progress(x) /\ Covered(x)
  BY <1>2, NothingRead, CoveredNothing
<1>4. (\A i \in DOMAIN x.pages : Comes(x.pages[i])) /\ ~HasRows(x)
  BY <1>2 DEF HasRows
<1>5. PagesInv'
  BY <1>1, <1>2, <1>4, PagesOfMove DEF WalkInv
<1> QED
  BY <1>1, <1>2, <1>3, <1>5, WalkMoves

(* The page p is taken: it comes from a known page, and is good.           *)
LEMMA WalkTakes ==
    ASSUME TypeInv, TypeInv', WalkInv, UNCHANGED <<endpoint, order, tables>>,
           NEW c \in Clients, NEW p \in Page, client' = [client EXCEPT ![c] = Taken(c, p)],
           client[c].offset \in Nat, Comes(p), GoodPage(p, client[c].offset),
           \A o \in Offsets : \A q \in cache'[o] :
              q \in cache[o] \/ (q = p /\ o = client[c].offset)
    PROVE  WalkInv'
<1>1. PICK x \in ClientState : /\ x = Taken(c, p) /\ x.pages = Append(client[c].pages, p)
                               /\ x.page = NoPage /\ x.unread = {} /\ x.pc # "read"
  BY TakenClient
<1>2. Progress(x)
  BY <1>1, NothingRead
<1>3. Covered(x)
  BY <1>1, JoinsKnown, CoveredTaken DEF WalkInv
<1>4. \A i \in DOMAIN x.pages : Comes(x.pages[i])
  <2>1. PICK ps \in Seq(Page) : ps = client[c].pages
    BY DEF TypeInv, TypeOK, ClientState
  <2>2. \A i \in DOMAIN ps : Comes(ps[i])
    BY <2>1, KeptComes DEF WalkInv
  <2>3. x.pages = Append(ps, p)
    BY <1>1, <2>1
  <2> QED BY <2>2, <2>3
<1>5. ~HasRows(x)
  BY <1>1 DEF HasRows
<1>6. client' = [client EXCEPT ![c] = x]
  BY <1>1
<1>7. \A o \in Offsets : \A q \in cache'[o] : q \in cache[o] \/ Comes(q)
  OBVIOUS
<1>8. PagesInv'
  BY <1>4, <1>5, <1>6, <1>7, PagesOfMove DEF WalkInv
<1>9. \A o \in Offsets : \A q \in cache'[o] : q \in cache[o] \/ GoodPage(q, o)
  OBVIOUS
<1> QED
  BY <1>2, <1>3, <1>6, <1>8, <1>9, WalkMoves

LEMMA WalkFromCache ==
    ASSUME TypeInv, TypeInv', WalkInv, NEW c \in Clients, AnswerFromCache(c)
    PROVE  WalkInv'
<1>1. PICK p \in Page : p \in cache[client[c].offset] /\ client' = [client EXCEPT ![c] = Taken(c, p)]
  BY AnswerFromCacheStep
<1>2. UNCHANGED <<endpoint, order, tables, cache>> /\ client[c].offset \in Offsets
  BY AnswerFromCacheStep
<1>3. client[c].offset \in Nat
  BY <1>2, OffsetsTyped
<1>4. GoodPage(p, client[c].offset)
  BY <1>1, <1>2 DEF WalkInv, CachedPages
<1>5. Comes(p)
  <2>1. p \in KnownPages
    BY <1>1, <1>2 DEF KnownPages, Known
  <2> QED BY <2>1, KnownComes DEF WalkInv
<1> QED
  BY <1>1, <1>2, <1>3, <1>4, <1>5, WalkTakes

LEMMA GoodAnswer ==
    ASSUME TypeInv, WalkInv, NEW c \in Clients, client[c].pc = "read", client[c].unread = {}
    PROVE  Comes(Answer(c)) /\ GoodPage(Answer(c), client[c].offset)
<1>1. PICK x \in ClientState : x = client[c]
  BY DEF TypeInv, TypeOK
<1>2. PICK y \in Page : y = x.page
  BY DEF ClientState
<1>3. PICK a \in Page : a = Answer(c)
  BY AnsweredPage
<1>4. /\ a.version = y.version /\ a.besides = y.besides /\ a.clears = y.clears
      /\ a.dates = y.dates /\ a.ahead = y.ahead /\ Len(a.data) = Len(y.data)
      /\ \A j \in 1 .. Len(y.data) : a.data[j].date = y.data[j].date
      /\ a.total = y.total \/ y.data = << >>
  BY <1>1, <1>2, <1>3, AnsweredPage
<1>5. HasRows(x) /\ (endpoint # "v2/stats" => HasCount(x)) /\ Progress(x)
  BY <1>1 DEF HasRows, HasCount, WalkInv
<1>6. y \in KnownPages
  BY <1>1, <1>2, <1>5 DEF KnownPages, Known
<1>7. Comes(a)
  BY <1>4, <1>6 DEF Comes, WalkInv, PagesInv, PastPage
<1>8. PICK n \in Nat : n = Len(y.data) /\ DOMAIN a.data = 1 .. n /\ DOMAIN y.data = 1 .. n
  <2>1. a.data \in Seq(Shape) /\ y.data \in Seq(Shape)
    BY DEF Page
  <2> QED BY <1>4, <2>1
<1>9. PICK o \in Nat : o = x.offset
  BY DEF ClientState
<1>10. Sees(y, o) /\ Blank(y, o)
  BY <1>2, <1>5, <1>9 DEF Progress
<1>11. Sees(a, o)
  BY <1>4, <1>8, <1>10 DEF Sees
<1>12. Counted(y, o)
  BY <1>2, <1>5, <1>9 DEF Progress, Totalled, Counted
<1>13. Counted(a, o)
  <2>1. CASE a.total = y.total
    BY <1>4, <1>12, <2>1 DEF Counted, Single
  <2>2. CASE y.data = << >>
    BY <1>4, <1>10, <2>2 DEF Counted, Blank
  <2> QED BY <1>4, <2>1, <2>2
<1> QED
  BY <1>1, <1>3, <1>7, <1>9, <1>11, <1>13 DEF GoodPage

LEMMA WalkResponds ==
    ASSUME TypeInv, TypeInv', WalkInv, NEW c \in Clients, Respond(c)
    PROVE  WalkInv'
<1>1. /\ UNCHANGED <<endpoint, order, tables>> /\ client[c].pc = "read" /\ client[c].unread = {}
      /\ client[c].offset \in Offsets
      /\ cache' = [cache EXCEPT ![client[c].offset] = {Answer(c)}] \/ cache' = cache
      /\ client' = [client EXCEPT ![c] = Taken(c, Answer(c))]
  BY RespondStep
<1>2. PICK a \in Page : a = Answer(c)
  BY RespondStep
<1>3. Comes(a) /\ GoodPage(a, client[c].offset)
  BY <1>1, <1>2, GoodAnswer
<1>4. client[c].offset \in Nat
  BY <1>1, OffsetsTyped
<1>5. client' = [client EXCEPT ![c] = Taken(c, a)]
  BY <1>1, <1>2
<1>6. \A o \in Offsets : \A q \in cache'[o] : q \in cache[o] \/ (q = a /\ o = client[c].offset)
  <2>1. cache \in [Offsets -> SUBSET Page]
    BY DEF TypeInv, TypeOK
  <2> QED BY <1>1, <1>2, <2>1
<1> QED
  BY <1>1, <1>3, <1>4, <1>5, <1>6, WalkTakes

LEMMA WalkComputes ==
    ASSUME TypeInv, TypeInv', WalkInv, NEW c \in Clients, Compute(c)
    PROVE  WalkInv'
<1>1. PICK x \in ClientState :
          /\ client' = [client EXCEPT ![c] = x] /\ x.pc = "read" /\ x.offset = client[c].offset
          /\ x.pages = client[c].pages /\ x.page = client[c].page
          /\ x.unread = {"rows", IF endpoint = "v2/stats" THEN "spends" ELSE "count"}
  BY ComputeStep
<1>2. UNCHANGED <<endpoint, order, tables, cache>> /\ client[c].pc = "ask"
  BY ComputeStep
<1>3. ~HasRows(x) /\ ~HasCount(x)
  BY <1>1 DEF HasRows, HasCount
<1>4. Progress(x)
  BY <1>1, <1>3 DEF Progress, WalkInv
<1>5. Covered(x)
  BY <1>1, <1>2 DEF Covered, WalkInv
<1>6. \A i \in DOMAIN x.pages : Comes(x.pages[i])
  BY <1>1, KeptComes DEF WalkInv
<1>7. PagesInv'
  BY <1>1, <1>2, <1>3, <1>6, PagesOfMove DEF WalkInv
<1> QED
  BY <1>1, <1>2, <1>4, <1>5, <1>7, WalkMoves

(* The page cut out of a listing shows what its offset promises.           *)
LEMMA PageSees ==
    ASSUME TypeInv, NEW s \in Listings(rows), NEW o \in Nat, NEW p \in Page,
           p.data = DataOf(s, o), p.dates = DayRows, p.ahead = RowsAhead
    PROVE  Sees(p, o) /\ Blank(p, o) /\ \A d \in Days : p.ahead[d] + p.dates[d] <= Cardinality(rows)
<1>0. Tables /\ IsFiniteSet(rows) /\ (\A r \in rows : r.date \in Nat) /\ PageSize \in Nat /\ PageSize >= 1
      /\ Days \subseteq Nat /\ order \in {"ASC", "DESC"}
  BY TypedTables DEF TypeInv, TypeOK
<1>1. PICK n \in Nat : n = Len(s) /\ n = Cardinality(rows)
  BY <1>0, ListingHoldsRows
<1>2. s \in Seq(rows)
  BY <1>0, ListingHoldsRows
<1>3. PICK w : w = Len(Window(s, o))
  OBVIOUS
<1>4. w = IF o + PageSize < n THEN PageSize ELSE IF o < n THEN n - o ELSE 0
  BY <1>1, <1>2, <1>3, WindowOfListing
<1>5. w \in Nat /\ w <= PageSize
  BY <1>0, <1>4
<1>6. /\ Len(p.data) = w
      /\ \A j \in 1 .. w : o + j \in 1 .. n /\ p.data[j].date = s[o + j].date
  <2>1. PICK D : D = DataOf(s, o)
    OBVIOUS
  <2>2. PICK W : W = Window(s, o)
    OBVIOUS
  <2>3. /\ Len(DataOf(s, o)) = Len(Window(s, o))
        /\ \A j \in 1 .. Len(Window(s, o)) : o + j \in 1 .. Len(s) /\ DataOf(s, o)[j].date = s[o + j].date
    BY <1>0, DataOfListing
  <2>4. Len(D) = w /\ \A j \in 1 .. w : o + j \in 1 .. n /\ D[j].date = s[o + j].date
    BY <1>1, <1>3, <2>1, <2>2, <2>3
  <2>5. p.data = D
    BY <2>1
  <2> QED BY <2>4, <2>5
<1>7. DOMAIN p.data = 1 .. w
  <2>1. p.data \in Seq(Shape)
    BY DEF Page
  <2> QED BY <1>6, <2>1
<1>8. ASSUME NEW d \in Days
      PROVE  /\ p.ahead[d] \in Nat /\ p.dates[d] \in Nat /\ p.ahead[d] + p.dates[d] <= n
             /\ \A i \in 1 .. n : s[i].date = d <=> p.ahead[d] < i /\ i <= p.ahead[d] + p.dates[d]
  <2>1. d \in Nat
    BY <1>0
  <2>2. p.ahead[d] = Cardinality(AheadOf(d)) /\ p.dates[d] = Cardinality(OfDay(d))
    BY DEF DayRows, RowsAhead
  <2>3. /\ Cardinality(AheadOf(d)) \in Nat /\ Cardinality(OfDay(d)) \in Nat
        /\ Cardinality(AheadOf(d)) + Cardinality(OfDay(d)) <= Cardinality(rows)
    BY <1>0, <2>1, DayCounts
  <2>4. \A i \in 1 .. Len(s) :
           s[i].date = d <=> /\ Cardinality(AheadOf(d)) < i
                             /\ i <= Cardinality(AheadOf(d)) + Cardinality(OfDay(d))
    BY <1>0, <2>1, PlacesOfDay
  <2> QED BY <1>1, <2>2, <2>3, <2>4
<1>9. ASSUME NEW d \in Days, NEW j \in 1 .. PageSize
      PROVE  j \in DOMAIN p.data /\ p.data[j].date = d <=> j \in Places(p.ahead[d], p.dates[d], o)
  <2>1. PICK a \in Nat : a = p.ahead[d]
    BY <1>8
  <2>2. PICK m \in Nat : m = p.dates[d]
    BY <1>8
  <2>3. a + m <= n /\ \A i \in 1 .. n : s[i].date = d <=> a < i /\ i <= a + m
    BY <1>8, <2>1, <2>2
  <2>4. j \in Places(a, m, o) <=> a < o + j /\ o + j <= a + m
    BY DEF Places
  <2>5. CASE j \in 1 .. w
    <3>1. o + j \in 1 .. n /\ p.data[j].date = s[o + j].date
      BY <1>6, <2>5
    <3>2. s[o + j].date = d <=> a < o + j /\ o + j <= a + m
      BY <2>3, <3>1
    <3> QED BY <1>7, <2>1, <2>2, <2>4, <2>5, <3>1, <3>2
  <2>6. CASE j \notin 1 .. w
    <3>1. j \in Nat /\ j >= 1 /\ j <= PageSize /\ j > w
      BY <1>0, <1>5, <2>6
    <3>2. o + j > n
      BY <1>0, <1>4, <3>1
    <3>3. ~(o + j <= a + m)
      BY <2>3, <3>1, <3>2
    <3> QED BY <1>7, <2>1, <2>2, <2>4, <2>6, <3>3
  <2> QED BY <2>5, <2>6
<1>10. Sees(p, o)
  <2>1. DOMAIN p.data \subseteq 1 .. PageSize
    BY <1>0, <1>5, <1>7
  <2> QED BY <1>9, <2>1 DEF Sees
<1>11. Blank(p, o)
  <2> SUFFICES ASSUME p.data = << >>, NEW d \in Days PROVE p.ahead[d] + p.dates[d] <= o
    BY DEF Blank
  <2>1. w = 0
    BY <1>6
  <2>2. n <= o
    BY <1>0, <1>4, <2>1
  <2> QED BY <1>8, <2>2
<1> QED
  BY <1>1, <1>8, <1>10, <1>11

LEMMA WalkReadsRows ==
    ASSUME TypeInv, TypeInv', WalkInv, NEW c \in Clients, ReadRows(c)
    PROVE  WalkInv'
<1>1. PICK y \in ClientState : y = client[c]
  BY DEF TypeInv, TypeOK
<1>2. Progress(y) /\ Covered(y)
  BY <1>1 DEF WalkInv
<1>3. UNCHANGED <<endpoint, order, tables, cache>> /\ y.pc = "read" /\ "rows" \in y.unread
  BY <1>1, ReadRowsStep
<1>4. PICK s \in Listings(rows), x \in ClientState :
         /\ client' = [client EXCEPT ![c] = x]
         /\ x.pc = "read" /\ x.offset = client[c].offset /\ x.pages = client[c].pages
         /\ x.unread = client[c].unread \ {"rows"}
         /\ x.page.data = DataOf(s, client[c].offset)
         /\ x.page.version = version /\ x.page.besides = client[c].page.besides
         /\ x.page.clears = client[c].page.clears \cup {clears}
         /\ x.page.total = IF endpoint = "v2/stats" THEN Cardinality(rows) ELSE client[c].page.total
         /\ x.page.dates = DayRows /\ x.page.ahead = RowsAhead
  BY ReadRowsStep
<1>5. PICK p \in Page : p = x.page
  BY DEF ClientState
<1>6. PICK o \in Nat : o = x.offset
  BY DEF ClientState
<1>7. PICK b \in Page : b = y.page
  BY DEF ClientState
<1>8. /\ x.offset = y.offset /\ x.pages = y.pages /\ x.pc = y.pc /\ x.unread = y.unread \ {"rows"}
      /\ p.data = DataOf(s, o) /\ p.dates = DayRows /\ p.ahead = RowsAhead
      /\ p.version = version /\ p.besides = b.besides /\ p.clears = b.clears \cup {clears}
      /\ p.total = IF endpoint = "v2/stats" THEN Cardinality(rows) ELSE b.total
  <2>1. x.offset = y.offset /\ x.pages = y.pages /\ x.pc = y.pc /\ x.unread = y.unread \ {"rows"}
    BY <1>1, <1>3, <1>4
  <2>2. client[c].offset = o /\ client[c].page = b
    BY <1>1, <1>4, <1>6, <1>7
  <2>3. p.data = DataOf(s, o) /\ p.dates = DayRows /\ p.ahead = RowsAhead
    BY <1>4, <1>5, <2>2
  <2>4. p.version = version /\ p.besides = b.besides /\ p.clears = b.clears \cup {clears}
    BY <1>4, <1>5, <2>2
  <2>5. p.total = IF endpoint = "v2/stats" THEN Cardinality(rows) ELSE b.total
    BY <1>4, <1>5, <2>2
  <2> QED BY <2>1, <2>3, <2>4, <2>5
<1>9. Sees(p, o) /\ Blank(p, o) /\ \A d \in Days : p.ahead[d] + p.dates[d] <= Cardinality(rows)
  BY <1>8, PageSees
<1>10. version \in Nat /\ clears \in Nat
  BY TypedTables
<1>11. \A k \in p.clears : k <= clears
  BY <1>2, <1>7, <1>8, <1>10 DEF Progress
<1>12. endpoint = "v2/stats" => Totalled(p)
  BY <1>8, <1>9 DEF Totalled
<1>13. HasCount(x) => /\ HasCount(y) /\ p.besides <= version /\ p.clears # {}
                      /\ p.clears = {clears} /\ p.besides = version => p.total = Cardinality(rows)
                      /\ Counted(p, o)
  <2> SUFFICES ASSUME HasCount(x)
               PROVE  /\ HasCount(y) /\ p.besides <= version /\ p.clears # {}
                      /\ p.clears = {clears} /\ p.besides = version => p.total = Cardinality(rows)
                      /\ Counted(p, o)
    OBVIOUS
  <2>1. HasCount(y)
    BY <1>8 DEF HasCount
  <2>2. /\ b.besides <= version /\ b.clears # {}
        /\ b.clears = {clears} /\ b.besides = version => b.total = Cardinality(rows)
    BY <1>2, <1>7, <2>1 DEF Progress
  <2>3. endpoint # "v2/stats"
    BY <2>1 DEF HasCount
  <2>4. p.clears = {clears} => b.clears = {clears}
    BY <1>8, <2>2
  <2>5. p.clears = {clears} /\ p.besides = version => p.total = Cardinality(rows)
    BY <1>8, <2>2, <2>3, <2>4
  <2>6. Counted(p, o)
    <3> SUFFICES ASSUME Single(p), p.version <= p.besides, NEW d \in Days
                 PROVE  p.ahead[d] + p.dates[d] <= p.total
      BY DEF Counted
    <3>1. p.clears = {clears}
      BY <1>8 DEF Single
    <3>2. p.besides \in Nat
      BY DEF Page
    <3>3. p.besides = version
      BY <1>8, <1>10, <2>2, <3>2
    <3> QED BY <1>9, <2>5, <3>1, <3>3
  <2> QED BY <1>8, <2>1, <2>2, <2>5, <2>6
<1>14. Progress(x)
  BY <1>2, <1>5, <1>6, <1>8, <1>9, <1>11, <1>12, <1>13 DEF Progress
<1>15. Covered(x)
  BY <1>2, <1>8 DEF Covered
<1>16. PagesInv'
  BY <1>1, <1>2, PagesReadRows DEF WalkInv, Progress
<1> QED
  BY <1>3, <1>4, <1>14, <1>15, <1>16, WalkMoves

LEMMA WalkReadsCount ==
    ASSUME TypeInv, TypeInv', WalkInv, NEW c \in Clients, ReadCount(c)
    PROVE  WalkInv'
<1>1. PICK y \in ClientState : y = client[c]
  BY DEF TypeInv, TypeOK
<1>2. Progress(y) /\ Covered(y)
  BY <1>1 DEF WalkInv
<1>3. UNCHANGED <<endpoint, order, tables, cache>> /\ y.pc = "read" /\ "count" \in y.unread
  BY <1>1, ReadCountStep
<1>4. PICK x \in ClientState :
         /\ client' = [client EXCEPT ![c] = x]
         /\ x.pc = "read" /\ x.offset = client[c].offset /\ x.pages = client[c].pages
         /\ x.unread = client[c].unread \ {"count"}
         /\ x.page.data = client[c].page.data /\ x.page.version = client[c].page.version
         /\ x.page.dates = client[c].page.dates /\ x.page.ahead = client[c].page.ahead
         /\ x.page.total = Cardinality(rows) /\ x.page.besides = version
         /\ x.page.clears = client[c].page.clears \cup {clears}
  BY ReadCountStep
<1>5. PICK p \in Page : p = x.page
  BY DEF ClientState
<1>6. PICK o \in Nat : o = x.offset
  BY DEF ClientState
<1>7. PICK b \in Page : b = y.page
  BY DEF ClientState
<1>8. /\ y.offset = o /\ x.pages = y.pages /\ x.pc = y.pc /\ x.unread = y.unread \ {"count"}
      /\ p.data = b.data /\ p.dates = b.dates /\ p.ahead = b.ahead /\ p.version = b.version
      /\ p.besides = version /\ p.clears = b.clears \cup {clears} /\ p.total = Cardinality(rows)
  <2>1. y.offset = o /\ x.pages = y.pages /\ x.pc = y.pc /\ x.unread = y.unread \ {"count"}
    BY <1>1, <1>3, <1>4, <1>6
  <2>2. client[c].page = b
    BY <1>1, <1>7
  <2>3. p.data = b.data /\ p.dates = b.dates /\ p.ahead = b.ahead /\ p.version = b.version
    BY <1>4, <1>5, <2>2
  <2>4. p.besides = version /\ p.clears = b.clears \cup {clears} /\ p.total = Cardinality(rows)
    BY <1>4, <1>5, <2>2
  <2> QED BY <2>1, <2>3, <2>4
<1>9. version \in Nat /\ clears \in Nat
  BY TypedTables
<1>10. \A k \in p.clears : k <= clears
  BY <1>2, <1>7, <1>8, <1>9 DEF Progress
<1>11. endpoint # "v2/stats"
  BY <1>2, <1>3 DEF Progress
<1>12. HasRows(x) => HasRows(y)
  BY <1>8 DEF HasRows
<1>13. HasRows(x) => Sees(p, o) /\ Blank(p, o)
  <2>1. HasRows(y) => Sees(b, o) /\ Blank(b, o)
    BY <1>2, <1>7, <1>8 DEF Progress
  <2> QED BY <1>8, <1>12, <2>1 DEF Sees, Blank
<1>14. ASSUME HasRows(x) PROVE b \in KnownPages /\ PastPage(b)
  BY <1>1, <1>7, <1>12, <1>14 DEF KnownPages, Known, WalkInv, PagesInv
<1>15. HasRows(x) => Counted(p, o)
  <2> SUFFICES ASSUME HasRows(x), Single(p), NEW d \in Days
               PROVE  p.ahead[d] + p.dates[d] <= p.total
    BY DEF Counted
  <2>1. PastPage(b)
    BY <1>14
  <2>2. b.clears = {clears}
    BY <1>8, <2>1 DEF PastPage, Single
  <2>3. b.dates[d] <= DayRows[d] /\ b.ahead[d] <= RowsAhead[d]
    BY <2>1, <2>2 DEF PastPage
  <2>4. /\ DayRows[d] \in Nat /\ RowsAhead[d] \in Nat
        /\ RowsAhead[d] + DayRows[d] <= Cardinality(rows) /\ Cardinality(rows) \in Nat
    BY TableCounts
  <2>5. b.dates[d] \in Nat /\ b.ahead[d] \in Nat
    BY DEF Page
  <2> QED BY <1>8, <2>3, <2>4, <2>5
<1>16. Progress(x)
  <2>1. p.clears # {} /\ p.besides <= version
    BY <1>8, <1>9
  <2> QED BY <1>2, <1>5, <1>6, <1>8, <1>10, <1>11, <1>13, <1>15, <2>1 DEF Progress
<1>17. Covered(x)
  BY <1>1, <1>2, <1>4, <1>8 DEF Covered
<1>18. HasRows(x) => Comes(x.page)
  BY <1>5, <1>8, <1>10, <1>14 DEF Comes
<1>19. \A i \in DOMAIN x.pages : Comes(x.pages[i])
  BY <1>4, KeptComes DEF WalkInv
<1>20. PagesInv'
  BY <1>3, <1>4, <1>18, <1>19, PagesOfMove DEF WalkInv
<1> QED
  BY <1>3, <1>4, <1>16, <1>17, <1>20, WalkMoves

LEMMA WalkReadsSpends ==
    ASSUME TypeInv, TypeInv', WalkInv, NEW c \in Clients, ReadSpends(c)
    PROVE  WalkInv'
<1>1. PICK y \in ClientState : y = client[c]
  BY DEF TypeInv, TypeOK
<1>2. Progress(y) /\ Covered(y)
  BY <1>1 DEF WalkInv
<1>3. UNCHANGED <<endpoint, order, tables, cache>> /\ y.pc = "read" /\ "spends" \in y.unread
  BY <1>1, ReadSpendsStep
<1>4. PICK x \in ClientState :
         /\ client' = [client EXCEPT ![c] = x]
         /\ x.pc = "read" /\ x.offset = client[c].offset /\ x.pages = client[c].pages
         /\ x.unread = client[c].unread \ {"spends"}
         /\ x.page.data = client[c].page.data /\ x.page.version = client[c].page.version
         /\ x.page.dates = client[c].page.dates /\ x.page.ahead = client[c].page.ahead
         /\ x.page.total = client[c].page.total
         /\ x.page.clears = client[c].page.clears \cup {clears}
  BY ReadSpendsStep
<1>5. PICK p \in Page : p = x.page
  BY DEF ClientState
<1>6. PICK o \in Nat : o = x.offset
  BY DEF ClientState
<1>7. PICK b \in Page : b = y.page
  BY DEF ClientState
<1>8. /\ y.offset = o /\ x.pages = y.pages /\ x.pc = y.pc /\ x.unread = y.unread \ {"spends"}
      /\ p.data = b.data /\ p.dates = b.dates /\ p.ahead = b.ahead /\ p.version = b.version
      /\ p.clears = b.clears \cup {clears} /\ p.total = b.total
  <2>1. y.offset = o /\ x.pages = y.pages /\ x.pc = y.pc /\ x.unread = y.unread \ {"spends"}
    BY <1>1, <1>3, <1>4, <1>6
  <2>2. client[c].page = b
    BY <1>1, <1>7
  <2>3. p.data = b.data /\ p.dates = b.dates /\ p.ahead = b.ahead /\ p.version = b.version
    BY <1>4, <1>5, <2>2
  <2>4. p.clears = b.clears \cup {clears} /\ p.total = b.total
    BY <1>4, <1>5, <2>2
  <2> QED BY <2>1, <2>3, <2>4
<1>9. clears \in Nat
  BY TypedTables
<1>10. \A k \in p.clears : k <= clears
  BY <1>2, <1>7, <1>8, <1>9 DEF Progress
<1>11. endpoint = "v2/stats"
  BY <1>2, <1>3 DEF Progress
<1>12. HasRows(x) => HasRows(y)
  BY <1>8 DEF HasRows
<1>13. HasRows(x) => Sees(p, o) /\ Blank(p, o) /\ Totalled(p)
  <2>1. HasRows(y) => Sees(b, o) /\ Blank(b, o) /\ Totalled(b)
    BY <1>2, <1>7, <1>8, <1>11 DEF Progress
  <2> QED BY <1>8, <1>12, <2>1 DEF Sees, Blank, Totalled
<1>14. ~HasCount(x)
  BY <1>11 DEF HasCount
<1>15. Progress(x)
  BY <1>2, <1>5, <1>6, <1>8, <1>10, <1>13, <1>14 DEF Progress
<1>16. Covered(x)
  BY <1>1, <1>2, <1>4, <1>8 DEF Covered
<1>17. ASSUME HasRows(x) PROVE b \in KnownPages
  BY <1>1, <1>7, <1>12, <1>17 DEF KnownPages, Known
<1>18. HasRows(x) => Comes(x.page)
  BY <1>5, <1>8, <1>10, <1>17 DEF Comes
<1>19. \A i \in DOMAIN x.pages : Comes(x.pages[i])
  BY <1>4, KeptComes DEF WalkInv
<1>20. PagesInv'
  BY <1>3, <1>4, <1>18, <1>19, PagesOfMove DEF WalkInv
<1> QED
  BY <1>3, <1>4, <1>15, <1>16, <1>20, WalkMoves

LEMMA WalkExpires ==
    ASSUME TypeInv, TypeInv', WalkInv, Expire \/ UNCHANGED vars
    PROVE  WalkInv'
<1>1. UNCHANGED <<endpoint, order, tables, client>>
  BY DEF Expire, vars
<1>2. \A o \in Offsets : cache'[o] \subseteq cache[o]
  BY DEF Expire, vars, TypeInv, TypeOK
<1>3. \A q \in KnownPages' : q \in KnownPages
  BY <1>1, <1>2 DEF KnownPages, Known, HasRows
<1>4. \A q \in KnownPages' : Comes(q)
  BY <1>3, KnownComes DEF WalkInv
<1>5. PagesInv'
  BY <1>1, <1>4, PagesFromPages DEF WalkInv
<1>6. CachedPages'
  BY <1>2 DEF CachedPages, WalkInv
<1>7. UNCHANGED <<endpoint, rows, version, clears, client>>
  BY <1>1 DEF tables
<1>8. ASSUME NEW c \in Clients PROVE Progress(client[c])' /\ Covered(client[c])'
  <2>1. PICK x : x = client[c]
    OBVIOUS
  <2>2. Progress(x) /\ Covered(x)
    BY <2>1 DEF WalkInv
  <2>3. Progress(x)'
    BY <1>7, <2>2 DEF Progress, HasRows, HasCount
  <2> QED BY <1>7, <2>1, <2>2, <2>3
<1> QED
  BY <1>5, <1>6, <1>8 DEF WalkInv

LEMMA WalkStep == TypeInv /\ TypeInv' /\ WalkInv /\ [Next]_vars => WalkInv'
BY WalkOfTables, WalkExpires, WalkStarts, WalkFromCache, WalkComputes, WalkReadsRows, WalkReadsCount,
   WalkReadsSpends, WalkResponds DEF Next

(* A walk over the pages misses no row: it shows of every day at least as  *)
(* many rows as the day had when it began, in any order of the rows within *)
(* a day, whatever is inserted in between, and with pages from the cache,  *)
(* as long as none is older than the page before it.                       *)
THEOREM WalksAreComplete == Spec => []WalkMissesNothing
<1>1. Init => WalkInv
  <2> SUFFICES ASSUME Init PROVE WalkInv
    OBVIOUS
  <2>1. PICK x \in ClientState : x = IdleClient
    BY NoPageTyped
  <2>2. x.pc = "idle" /\ x.offset = 0 /\ x.pages = << >> /\ x.page = NoPage /\ x.unread = {}
    BY <2>1 DEF IdleClient
  <2>3. (\A c \in Clients : client[c] = x) /\ \A o \in Offsets : cache[o] = {}
    BY <2>1 DEF Init
  <2>4. Progress(x) /\ Covered(x)
    BY <2>2, NothingRead, CoveredNothing
  <2>5. \A p : ~Known(p)
    BY <2>2, <2>3 DEF Known, HasRows
  <2>6. PagesInv
    BY <2>5 DEF PagesInv, GrowingPages, KnownPages
  <2>7. CachedPages
    BY <2>3 DEF CachedPages
  <2> QED BY <2>3, <2>4, <2>6, <2>7 DEF WalkInv
<1>2. TypeInv /\ WalkInv => WalkMissesNothing
  BY WalkedShowsAll DEF WalkMissesNothing, WalkInv
<1> QED
  BY <1>1, <1>2, WalkStep, TypeInvariant, PTL DEF Spec
=============================================================================
