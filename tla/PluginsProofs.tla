--------------------------- MODULE PluginsProofs ---------------------------
(***************************************************************************)
(* Proofs about Plugins, for every set of libraries and names, every size   *)
(* of the tables and every nesting of substitutions.                        *)
(***************************************************************************)
EXTENDS Plugins, Positions, SequenceTheorems, FiniteSetTheorems, TLAPS

-----------------------------------------------------------------------------
(* rebuild_sorted_name_index *)

Distinct(t) == \A i, j \in DOMAIN t : t[i].name = t[j].name => i = j

\* idx lists the first m entries of t in the order of their names.
Sorts(t, idx, m) ==
  /\ idx \in [1 .. m -> 1 .. m]
  /\ \A a, b \in 1 .. m : a < b => t[idx[a]].name < t[idx[b]].name
  /\ \A i \in 1 .. m : \E a \in 1 .. m : idx[a] = i

\* What InsertAt does to each position
Inserted(s, m, q, e) ==
  [j \in 1 .. m + 1 |-> IF j < q THEN s[j] ELSE IF j = q THEN e ELSE s[j - 1]]

\* InsertAt as a function of positions.
LEMMA InsertAtFacts ==
  ASSUME NEW S, NEW m \in Nat, NEW s \in [1 .. m -> S], NEW e \in S, NEW q \in 1 .. m + 1
  PROVE  InsertAt(s, q, e) = Inserted(s, m, q, e)
<1> DEFINE a == SubSeq(s, 1, q - 1)
           b == SubSeq(s, q, m)
           u == a \o <<e>>
<1>1. s \in Seq(S) /\ Len(s) = m
  BY IsASeq
<1>2. /\ Len(a) = q - 1 /\ a \in Seq(S) /\ DOMAIN a = 1 .. q - 1
      /\ \A j \in 1 .. q - 1 : a[j] = s[j]
  OBVIOUS
<1>3. /\ Len(b) = m - q + 1 /\ b \in Seq(S) /\ DOMAIN b = 1 .. m - q + 1
      /\ \A j \in 1 .. m - q + 1 : b[j] = s[q + j - 1]
  OBVIOUS
<1> HIDE DEF a, b
<1>4. <<e>> \in Seq(S) /\ Len(<<e>>) = 1 /\ <<e>>[1] = e
  OBVIOUS
<1>5. /\ u \in Seq(S) /\ Len(u) = q /\ u[q] = e /\ DOMAIN u = 1 .. q
      /\ \A j \in 1 .. q - 1 : u[j] = s[j]
  <2>1. u \in Seq(S) /\ Len(u) = q
    BY <1>2, <1>4, ConcatProperties
  <2>2. \A j \in 1 .. q : u[j] = IF j <= Len(a) THEN a[j] ELSE <<e>>[j - Len(a)]
    BY <1>2, <1>4, ConcatProperties
  <2> QED
    BY <1>2, <1>4, <2>1, <2>2
<1> HIDE DEF u
<1>6. /\ Len(u \o b) = m + 1 /\ u \o b \in Seq(S)
      /\ \A j \in 1 .. m + 1 : (u \o b)[j] = IF j <= q THEN u[j] ELSE b[j - q]
  BY <1>3, <1>5, ConcatProperties
<1>7. InsertAt(s, q, e) = u \o b
  BY <1>1 DEF InsertAt, u, a, b
<1>8. \A j \in 1 .. m + 1 : (u \o b)[j] = IF j < q THEN s[j] ELSE IF j = q THEN e ELSE s[j - 1]
  <2>1. SUFFICES ASSUME NEW j \in 1 .. m + 1
                 PROVE  (u \o b)[j] = IF j < q THEN s[j] ELSE IF j = q THEN e ELSE s[j - 1]
    OBVIOUS
  <2>2. CASE j < q
    BY <2>2, <1>5, <1>6
  <2>3. CASE j = q
    BY <2>3, <1>5, <1>6
  <2>4. CASE j > q
    <3>1. j - q \in 1 .. m - q + 1 /\ q + (j - q) - 1 = j - 1
      BY <2>4
    <3>2. b[j - q] = s[j - 1]
      BY <1>3, <3>1
    <3> QED
      BY <2>4, <3>2, <1>6
  <2>5. j < q \/ j = q \/ j > q
    BY <2>1
  <2> QED
    BY <2>2, <2>3, <2>4, <2>5, Zenon
<1>9. u \o b \in [1 .. m + 1 -> S]
  BY <1>6, LenProperties
<1> QED
  BY <1>6, <1>7, <1>8, <1>9 DEF Inserted

\* One round of the insertion sort keeps the index sorted.
LEMMA InsertSorts ==
  ASSUME NEW t, Distinct(t), NEW m \in Nat, 1 .. m + 1 \subseteq DOMAIN t,
         \A i \in 1 .. m + 1 : t[i].name \in Int, NEW idx, Sorts(t, idx, m)
  PROVE  Sorts(t, Insert(t, idx, m + 1), m + 1)
<1> DEFINE e == m + 1
           before == {k \in 1 .. m : \A l \in k .. m : t[idx[l]].name > t[e].name}
<1>1. idx \in [1 .. m -> 1 .. m] /\ DOMAIN idx = 1 .. m /\ Len(idx) = m
  BY IsASeq DEF Sorts
<1>2. \A a \in 1 .. m : idx[a] \in 1 .. m /\ t[idx[a]].name \in Int /\ t[idx[a]].name # t[e].name
  <2>1. \A a \in 1 .. m : idx[a] \in 1 .. m
    BY <1>1
  <2>2. \A i \in 1 .. m : i \in 1 .. m + 1 /\ i # m + 1
    OBVIOUS
  <2>3. m + 1 \in 1 .. m + 1
    OBVIOUS
  <2> QED
    BY <2>1, <2>2, <2>3 DEF Distinct
<1>3. t[e].name \in Int
  OBVIOUS
<1>4. PICK q \in 1 .. m + 1 : before = q .. m
  <2>1. CASE before = {}
    BY <2>1
  <2>2. CASE before # {}
    <3>1. PICK q \in before : \A k \in before : q <= k
      BY <2>2, Extremes
    <3>2. before = q .. m
      BY <3>1
    <3> QED
      BY <3>1, <3>2
  <2> QED
    BY <2>1, <2>2
<1>5. Cardinality(before) = m - q + 1
  <2>1. Cardinality(q .. m) = IF q > m THEN 0 ELSE m - q + 1
    BY FS_Interval
  <2>2. q > m => m - q + 1 = 0
    OBVIOUS
  <2> QED
    BY <1>4, <2>1, <2>2
<1>6. Insert(t, idx, e) = InsertAt(idx, q, e)
  <2>1. Len(idx) + 1 - Cardinality(before) = q
    BY <1>1, <1>5
  <2>2. Insert(t, idx, e) = InsertAt(idx, Len(idx) + 1 - Cardinality(before), e)
    BY <1>1 DEF Insert
  <2> QED
    BY <2>1, <2>2
<1> DEFINE new == [j \in 1 .. m + 1 |-> IF j < q THEN idx[j] ELSE IF j = q THEN e ELSE idx[j - 1]]
<1>7. Insert(t, idx, e) = new
  <2>1. idx \in [1 .. m -> 1 .. m + 1] /\ e \in 1 .. m + 1
    BY <1>1
  <2>2. InsertAt(idx, q, e) = new
    <3>1. InsertAt(idx, q, e) = Inserted(idx, m, q, e)
      <4> HIDE DEF e
      <4> QED
        BY <2>1, InsertAtFacts
    <3> QED
      BY <3>1 DEF Inserted
  <2> QED
    BY <1>6, <2>2
<1>8. \A a \in q .. m : t[idx[a]].name > t[e].name
  <2>1. \A a \in q .. m : a \in before
    BY <1>4
  <2>2. \A a \in before : a \in a .. m
    OBVIOUS
  <2> QED
    BY <2>1, <2>2
<1>9. \A a \in 1 .. q - 1 : t[idx[a]].name < t[e].name
  <2>1. SUFFICES ASSUME NEW a \in 1 .. q - 1 PROVE t[idx[a]].name < t[e].name
    OBVIOUS
  <2>2. q - 1 \in 1 .. m /\ q - 1 \notin before
    BY <1>4
  <2>3. PICK l \in q - 1 .. m : ~ (t[idx[l]].name > t[e].name)
    BY <2>2
  <2>4. l = q - 1
    BY <2>3, <1>8
  <2>5. t[idx[q - 1]].name < t[e].name
    BY <2>2, <2>3, <2>4, <1>2, <1>3
  <2>6. a = q - 1 \/ t[idx[a]].name < t[idx[q - 1]].name
    <3>1. CASE a # q - 1
      <4>1. a \in 1 .. m /\ a < q - 1
        BY <3>1, <2>2
      <4> QED
        BY <4>1, <2>2 DEF Sorts
    <3> QED
      BY <3>1
  <2>7. a \in 1 .. m
    OBVIOUS
  <2> QED
    BY <2>2, <2>5, <2>6, <2>7, <1>2, <1>3
<1> HIDE DEF before
<1>10. new \in [1 .. m + 1 -> 1 .. m + 1]
  BY <1>1
<1>11. ASSUME NEW a \in 1 .. m + 1, NEW b \in 1 .. m + 1, a < b
       PROVE  t[new[a]].name < t[new[b]].name
  <2>1. CASE b < q
    <3>1. a \in 1 .. m /\ b \in 1 .. m /\ new[a] = idx[a] /\ new[b] = idx[b]
      BY <2>1, <1>11
    <3> QED
      BY <3>1, <1>11 DEF Sorts
  <2>2. CASE b = q
    <3>1. a \in 1 .. q - 1 /\ new[a] = idx[a] /\ new[b] = e
      BY <2>2, <1>11
    <3> QED
      BY <3>1, <1>9
  <2>3. CASE b > q /\ a < q
    <3>1. a \in 1 .. q - 1 /\ b - 1 \in q .. m /\ new[a] = idx[a] /\ new[b] = idx[b - 1]
      BY <2>3, <1>11
    <3>2. a \in 1 .. m /\ b - 1 \in 1 .. m /\ a < b - 1
      BY <3>1, <2>3
    <3> QED
      BY <3>1, <3>2 DEF Sorts
  <2>4. CASE b > q /\ a = q
    <3>1. b - 1 \in q .. m /\ new[a] = e /\ new[b] = idx[b - 1]
      BY <2>4, <1>11
    <3>2. b - 1 \in 1 .. m
      BY <3>1
    <3> QED
      BY <3>1, <3>2, <1>2, <1>3, <1>8
  <2>5. CASE b > q /\ a > q
    <3>1. /\ a - 1 \in 1 .. m /\ b - 1 \in 1 .. m /\ a - 1 < b - 1
          /\ new[a] = idx[a - 1] /\ new[b] = idx[b - 1]
      BY <2>5, <1>11
    <3> QED
      BY <3>1 DEF Sorts
  <2> QED
    BY <2>1, <2>2, <2>3, <2>4, <2>5
<1>12. ASSUME NEW i \in 1 .. m + 1 PROVE \E a \in 1 .. m + 1 : new[a] = i
  <2>1. CASE i = m + 1
    BY <2>1
  <2>2. CASE i # m + 1
    <3>1. i \in 1 .. m
      BY <2>2
    <3>2. PICK a \in 1 .. m : idx[a] = i
      BY <3>1 DEF Sorts
    <3>3. CASE a < q
      BY <3>2, <3>3
    <3>4. CASE ~ (a < q)
      <4>1. a + 1 \in 1 .. m + 1 /\ new[a + 1] = idx[a]
        BY <3>4
      <4> QED
        BY <4>1, <3>2
    <3> QED
      BY <3>3, <3>4
  <2> QED
    BY <2>1, <2>2
<1> QED
  BY <1>7, <1>10, <1>11, <1>12 DEF Sorts

\* The rounds of the sort, up to the m-th
Rounds(f, t, m) == f = [i \in 0 .. m |-> IF i = 0 THEN <<>> ELSE Insert(t, f[i - 1], i)]

\* The rounds of the insertion sort exist for every table.
LEMMA RoundsExist ==
  ASSUME NEW t, NEW n \in Nat
  PROVE  \E f : Rounds(f, t, n)
<1> DEFINE T == {m \in 0 .. n : \E f : Rounds(f, t, m)}
<1>1. 0 \in T
  <2> DEFINE f == [i \in 0 .. 0 |-> <<>>]
  <2>1. f = [i \in 0 .. 0 |-> IF i = 0 THEN <<>> ELSE Insert(t, f[i - 1], i)]
    OBVIOUS
  <2>2. Rounds(f, t, 0)
    BY <2>1 DEF Rounds
  <2> QED
    BY <2>2
<1>2. ASSUME NEW m \in 0 .. n - 1, NEW f, Rounds(f, t, m) PROVE \E h : Rounds(h, t, m + 1)
  <2> DEFINE h == [k \in 0 .. m + 1 |-> IF k = m + 1 THEN Insert(t, f[m], m + 1) ELSE f[k]]
  <2>1. \A i \in 0 .. m : f[i] = IF i = 0 THEN <<>> ELSE Insert(t, f[i - 1], i)
    BY <1>2 DEF Rounds
  <2>2. \A i \in 0 .. m : h[i] = f[i]
    OBVIOUS
  <2>3. h[m + 1] = Insert(t, f[m], m + 1)
    OBVIOUS
  <2>4. ASSUME NEW i \in 0 .. m + 1 PROVE h[i] = IF i = 0 THEN <<>> ELSE Insert(t, h[i - 1], i)
    <3>1. CASE i = m + 1
      <4>1. i # 0 /\ i - 1 = m /\ h[m] = f[m]
        BY <3>1, <2>2
      <4> HIDE DEF h
      <4> QED
        BY <3>1, <4>1, <2>3
    <3>2. CASE i # m + 1
      <4>1. i \in 0 .. m /\ (i # 0 => i - 1 \in 0 .. m)
        BY <3>2
      <4> HIDE DEF h
      <4> QED
        BY <4>1, <2>1, <2>2
    <3> QED
      BY <3>1, <3>2
  <2>5. h = [k \in 0 .. m + 1 |-> h[k]]
    OBVIOUS
  <2>6. Rounds(h, t, m + 1)
    <3> HIDE DEF h
    <3> QED
      BY <2>4, <2>5 DEF Rounds
  <2> QED
    BY <2>6
<1>3. \A k \in 0 .. n - 1 : k \in T => k + 1 \in T
  BY <1>2
<1>4. n \in T
  <2> HIDE DEF T
  <2> QED
    BY <1>1, <1>3, Induction
<1> QED
  BY <1>4

\* rebuild_sorted_name_index sorts the table.
LEMMA RebuiltSorts ==
  ASSUME NEW t \in Seq(Entry), Distinct(t)
  PROVE  Sorts(t, Rebuilt(t), Len(t))
<1> DEFINE n == Len(t)
           f == CHOOSE g : Rounds(g, t, n)
<1>1. n \in Nat /\ DOMAIN t = 1 .. n
  BY LenProperties
<1>2. \A i \in 1 .. n : t[i].name \in Int
  <2>1. \A i \in 1 .. n : t[i] \in Entry
    BY <1>1, ElementOfSeq
  <2>2. \A e \in Entry : e.name \in Int
    BY BoundsAssumption DEF Entry, Names
  <2> QED
    BY <2>1, <2>2
<1>3. Rounds(f, t, n)
  BY <1>1, RoundsExist
<1>4. Rebuilt(t) = f[n]
  BY DEF Rebuilt, Rounds
<1> HIDE DEF n, f
<1>r. \A i \in 0 .. n : f[i] = IF i = 0 THEN <<>> ELSE Insert(t, f[i - 1], i)
  BY <1>3 DEF Rounds
<1> DEFINE T == {k \in 0 .. n : Sorts(t, f[k], k)}
<1>5. 0 \in T
  <2>1. f[0] = <<>>
    BY <1>1, <1>r
  <2>2. <<>> \in [1 .. 0 -> 1 .. 0] /\ \A i : i \notin 1 .. 0
    OBVIOUS
  <2>3. Sorts(t, f[0], 0)
    BY <2>1, <2>2 DEF Sorts
  <2> QED
    BY <1>1, <2>3
<1>6. ASSUME NEW k \in 0 .. n - 1, k \in T PROVE k + 1 \in T
  <2>1. k \in Nat /\ k + 1 \in 0 .. n /\ k + 1 # 0 /\ k + 1 - 1 = k
    BY <1>1
  <2>2. f[k + 1] = Insert(t, f[k], k + 1)
    BY <2>1, <1>r
  <2>3. 1 .. k + 1 \subseteq DOMAIN t /\ \A i \in 1 .. k + 1 : t[i].name \in Int
    BY <2>1, <1>1, <1>2
  <2>4. Sorts(t, f[k], k)
    BY <1>6
  <2>5. Sorts(t, Insert(t, f[k], k + 1), k + 1)
    BY <2>1, <2>3, <2>4, InsertSorts
  <2> QED
    BY <2>1, <2>2, <2>5
<1>7. n \in T
  <2> HIDE DEF T
  <2>1. 0 .. n \subseteq T
    BY <1>1, <1>5, <1>6, Induction
  <2> QED
    BY <1>1, <2>1
<1> QED
  BY <1>4, <1>7 DEF n

-----------------------------------------------------------------------------
(* find_name_index_entry *)

\* The positions of the index in l + 1 .. r that have the name n
Hits(t, idx, n, l, r) == {p \in l + 1 .. r : t[idx[p]].name = n}

\* What a search between l and r should find
Hit(t, idx, n, l, r) ==
  IF Hits(t, idx, n, l, r) = {} THEN 0 ELSE idx[CHOOSE p \in Hits(t, idx, n, l, r) : TRUE]

\* One step of the search, h being the rest of it
Halving(h, t, idx, n, l, r) ==
  IF l >= r THEN 0
  ELSE LET mid == l + (r - l) \div 2
           m   == t[idx[mid + 1]].name
       IN  IF n = m THEN idx[mid + 1]
           ELSE IF n < m THEN h[<<l, mid>>] ELSE h[<<mid + 1, r>>]

Halves(h, t, idx, n) ==
  h = [at \in (0 .. Len(t)) \X (0 .. Len(t)) |-> Halving(h, t, idx, n, at[1], at[2])]

\* h finds what it should in ranges narrower than w.
Right(h, t, idx, n, N, w) == \A a, b \in 0 .. N : b - a < w => h[<<a, b>>] = Hit(t, idx, n, a, b)

\* The middle of an interval lies inside it.
LEMMA Middle ==
  ASSUME NEW l \in Nat, NEW r \in Nat, l < r
  PROVE  LET mid == l + (r - l) \div 2 IN mid \in Nat /\ l <= mid /\ mid < r
<1> DEFINE h == (r - l) \div 2
<1>1. h \in Nat /\ h < r - l
  OBVIOUS
<1> HIDE DEF h
<1>2. l + h \in Nat /\ l <= l + h /\ l + h < r
  BY <1>1
<1> QED
  BY <1>2 DEF h

\* What a step of the search finds, if the rest of it finds what it should
LEMMA HalvingFinds ==
  ASSUME NEW t, NEW N \in Nat, NEW idx, Sorts(t, idx, N), \A i \in 1 .. N : t[i].name \in Int,
         NEW n \in Int, NEW h, NEW l \in 0 .. N, NEW r \in 0 .. N, Right(h, t, idx, n, N, r - l)
  PROVE  Halving(h, t, idx, n, l, r) = Hit(t, idx, n, l, r)
<1>1. CASE l >= r
  <2>1. Hits(t, idx, n, l, r) = {}
    BY <1>1 DEF Hits
  <2> QED
    BY <1>1, <2>1 DEF Hit, Halving
<1>2. CASE l < r
  <2> DEFINE mid == l + (r - l) \div 2
             m == t[idx[mid + 1]].name
  <2>1. mid \in Nat /\ l <= mid /\ mid < r
    BY <1>2, Middle
  <2>2. Halving(h, t, idx, n, l, r) =
          IF n = m THEN idx[mid + 1] ELSE IF n < m THEN h[<<l, mid>>] ELSE h[<<mid + 1, r>>]
    BY <1>2 DEF Halving
  <2> HIDE DEF mid
  <2>3. /\ mid + 1 \in 1 .. N /\ mid \in 0 .. N /\ mid + 1 \in 0 .. N
        /\ mid - l < r - l /\ r - (mid + 1) < r - l /\ mid + 1 \in l + 1 .. r
    BY <2>1, <1>2
  <2>4. \A p \in 1 .. N : idx[p] \in 1 .. N /\ t[idx[p]].name \in Int
    BY DEF Sorts
  <2>5. m \in Int
    BY <2>3, <2>4
  <2>6. \A p \in 1 .. N : (p < mid + 1 => t[idx[p]].name < m) /\ (p > mid + 1 => t[idx[p]].name > m)
    BY <2>3, <2>4 DEF Sorts
  <2>7. l + 1 .. r \subseteq 1 .. N
    OBVIOUS
  <2>8. h[<<l, mid>>] = Hit(t, idx, n, l, mid) /\ h[<<mid + 1, r>>] = Hit(t, idx, n, mid + 1, r)
    BY <2>3 DEF Right
  <2> HIDE DEF m
  <2>9. CASE n = m
    <3>1. Hits(t, idx, n, l, r) = {mid + 1}
      <4>1. mid + 1 \in Hits(t, idx, n, l, r)
        BY <2>3, <2>9 DEF Hits, m
      <4>2. \A p \in Hits(t, idx, n, l, r) : p = mid + 1
        BY <2>3, <2>4, <2>5, <2>6, <2>7, <2>9 DEF Hits
      <4> QED
        BY <4>1, <4>2
    <3>2. (CHOOSE p \in {mid + 1} : TRUE) = mid + 1
      OBVIOUS
    <3>3. Hit(t, idx, n, l, r) = idx[mid + 1]
      BY <3>1, <3>2 DEF Hit
    <3> QED
      BY <2>2, <2>9, <3>3
  <2>10. CASE n < m
    <3>1. Hits(t, idx, n, l, r) = Hits(t, idx, n, l, mid)
      <4>1. \A p \in l + 1 .. r : t[idx[p]].name = n => p \in l + 1 .. mid
        <5>1. SUFFICES ASSUME NEW p \in l + 1 .. r, t[idx[p]].name = n PROVE p \in l + 1 .. mid
          OBVIOUS
        <5>2. ~ (p > mid + 1) /\ p # mid + 1
          BY <5>1, <2>4, <2>5, <2>6, <2>7, <2>10 DEF m
        <5> QED
          BY <5>2, <2>1
      <4>2. l + 1 .. mid \subseteq l + 1 .. r
        BY <2>1
      <4> QED
        BY <4>1, <4>2 DEF Hits
    <3>2. Hit(t, idx, n, l, r) = Hit(t, idx, n, l, mid)
      BY <3>1 DEF Hit
    <3>3. n # m
      BY <2>5, <2>10
    <3> QED
      BY <2>2, <2>8, <2>10, <3>2, <3>3
  <2>11. CASE ~ (n < m) /\ n # m
    <3>1. Hits(t, idx, n, l, r) = Hits(t, idx, n, mid + 1, r)
      <4>1. \A p \in l + 1 .. r : t[idx[p]].name = n => p \in mid + 1 + 1 .. r
        <5>1. SUFFICES ASSUME NEW p \in l + 1 .. r, t[idx[p]].name = n PROVE p \in mid + 1 + 1 .. r
          OBVIOUS
        <5>2. ~ (p < mid + 1) /\ p # mid + 1
          BY <5>1, <2>4, <2>5, <2>6, <2>7, <2>11 DEF m
        <5> QED
          BY <5>2, <2>1
      <4>2. mid + 1 + 1 .. r \subseteq l + 1 .. r
        BY <2>1
      <4> QED
        BY <4>1, <4>2 DEF Hits
    <3>2. Hit(t, idx, n, l, r) = Hit(t, idx, n, mid + 1, r)
      BY <3>1 DEF Hit
    <3> QED
      BY <2>2, <2>8, <2>11, <3>2
  <2> QED
    BY <2>9, <2>10, <2>11
<1> QED
  BY <1>1, <1>2

\* The binary search finds what is there.
LEMMA SearchHits ==
  ASSUME NEW t \in Seq(Entry), NEW idx, Sorts(t, idx, Len(t)), NEW n \in Int
  PROVE  Search(t, idx, n) = Hit(t, idx, n, 0, Len(t))
<1> DEFINE N == Len(t)
           D == (0 .. N) \X (0 .. N)
           c == CHOOSE h : Halves(h, t, idx, n)
           x == [at \in D |-> Hit(t, idx, n, at[1], at[2])]
<1>1. N \in Nat /\ Sorts(t, idx, N)
  BY LenProperties
<1>2. \A i \in 1 .. N : t[i].name \in Int
  <2>1. \A i \in 1 .. N : t[i] \in Entry
    BY <1>1, ElementOfSeq
  <2>2. \A e \in Entry : e.name \in Int
    BY BoundsAssumption DEF Entry, Names
  <2> QED
    BY <2>1, <2>2
<1>3. Search(t, idx, n) = c[<<0, N>>]
  BY DEF Search, Halves, Halving
<1>4. \A h : Halves(h, t, idx, n) <=> h = [at \in D |-> Halving(h, t, idx, n, at[1], at[2])]
  BY DEF Halves
<1> HIDE DEF N, c
<1>5. x = [at \in D |-> Halving(x, t, idx, n, at[1], at[2])]
  <2>1. \A a, b \in 0 .. N : <<a, b>> \in D /\ <<a, b>>[1] = a /\ <<a, b>>[2] = b
    OBVIOUS
  <2>2. \A a, b \in 0 .. N : x[<<a, b>>] = Hit(t, idx, n, a, b)
    BY <2>1
  <2>3. \A at \in D : at[1] \in 0 .. N /\ at[2] \in 0 .. N
    OBVIOUS
  <2>4. \A l, r \in 0 .. N : Halving(x, t, idx, n, l, r) = Hit(t, idx, n, l, r)
    <3>1. SUFFICES ASSUME NEW l \in 0 .. N, NEW r \in 0 .. N
                   PROVE  Halving(x, t, idx, n, l, r) = Hit(t, idx, n, l, r)
      OBVIOUS
    <3>2. Right(x, t, idx, n, N, r - l)
      BY <2>2 DEF Right
    <3> HIDE DEF x, D
    <3> QED
      BY <3>2, <1>1, <1>2, HalvingFinds
  <2>5. \A at \in D : Halving(x, t, idx, n, at[1], at[2]) = Hit(t, idx, n, at[1], at[2])
    BY <2>3, <2>4
  <2>6. \A at \in D : Hit(t, idx, n, at[1], at[2]) = Halving(x, t, idx, n, at[1], at[2])
    BY <2>5
  <2>7. x = [at \in D |-> Hit(t, idx, n, at[1], at[2])]
    OBVIOUS
  <2> HIDE DEF x, D
  <2> QED
    BY <2>6, <2>7
<1>6. Halves(c, t, idx, n)
  <2>1. Halves(x, t, idx, n)
    <3> HIDE DEF x
    <3> QED
      BY <1>4, <1>5
  <2> HIDE DEF x
  <2> QED
    BY <2>1 DEF c
<1>7. \A l, r \in 0 .. N : c[<<l, r>>] = Halving(c, t, idx, n, l, r)
  <2>1. c = [at \in D |-> Halving(c, t, idx, n, at[1], at[2])]
    BY <1>4, <1>6
  <2>2. \A at \in D : c[at] = Halving(c, t, idx, n, at[1], at[2])
    <3> HIDE DEF D
    <3> QED
      BY <2>1
  <2>3. \A a, b \in 0 .. N : <<a, b>> \in D /\ <<a, b>>[1] = a /\ <<a, b>>[2] = b
    OBVIOUS
  <2> HIDE DEF D
  <2> QED
    BY <2>2, <2>3
\* By induction on the width of the range that is searched
<1> DEFINE T == {w \in 0 .. N + 1 : Right(c, t, idx, n, N, w)}
<1>8. 0 \in T
  <2>1. ASSUME NEW l \in 0 .. N, NEW r \in 0 .. N, r - l < 0 PROVE c[<<l, r>>] = Hit(t, idx, n, l, r)
    <3>1. l >= r /\ l + 1 .. r = {}
      BY <2>1
    <3>2. Halving(c, t, idx, n, l, r) = 0 /\ Hit(t, idx, n, l, r) = 0
      BY <3>1 DEF Halving, Hit, Hits
    <3> QED
      BY <3>2, <1>7
  <2> QED
    BY <2>1, <1>1 DEF Right
<1>9. ASSUME NEW w \in 0 .. N, w \in T PROVE w + 1 \in T
  <2>1. ASSUME NEW l \in 0 .. N, NEW r \in 0 .. N, r - l < w + 1 PROVE c[<<l, r>>] = Hit(t, idx, n, l, r)
    <3>1. \A a, b \in 0 .. N : b - a < r - l => b - a < w
      BY <2>1, <1>1
    <3>2. Right(c, t, idx, n, N, r - l)
      BY <3>1, <1>9 DEF Right
    <3>3. Halving(c, t, idx, n, l, r) = Hit(t, idx, n, l, r)
      BY <3>2, <1>1, <1>2, HalvingFinds
    <3> QED
      BY <3>3, <1>7
  <2>2. w + 1 \in 0 .. N + 1
    BY <1>1
  <2> QED
    BY <2>1, <2>2 DEF Right
<1>10. N + 1 \in T
  <2> HIDE DEF T
  <2> DEFINE M == N + 1
  <2>1. M \in Nat /\ M - 1 = N
    BY <1>1
  <2> HIDE DEF M
  <2>2. \A k \in 0 .. M - 1 : k \in T => k + 1 \in T
    BY <1>9, <2>1
  <2>3. 0 .. M \subseteq T
    BY <1>8, <2>1, <2>2, Induction
  <2>4. M \in T
    BY <2>1, <2>3
  <2> QED
    BY <2>4 DEF M
<1>11. c[<<0, N>>] = Hit(t, idx, n, 0, N)
  <2>1. 0 \in 0 .. N /\ N \in 0 .. N /\ N - 0 < N + 1
    BY <1>1
  <2> QED
    BY <1>10, <2>1 DEF Right
<1> QED
  BY <1>3, <1>11 DEF N

\* In a sorted index with distinct names the search finds the one entry that
\* has the name, or nothing.
LEMMA SearchExact ==
  ASSUME NEW t \in Seq(Entry), Distinct(t), NEW n \in Int
  PROVE  LET p == Search(t, Rebuilt(t), n)
         IN  Holding(t, n) = (IF p = 0 THEN {} ELSE {p})
<1> DEFINE N == Len(t)
           idx == Rebuilt(t)
           P == Hits(t, idx, n, 0, N)
           p == Search(t, idx, n)
<1>1. N \in Nat /\ DOMAIN t = 1 .. N /\ Sorts(t, idx, N)
  BY LenProperties, RebuiltSorts
<1>2. p = IF P = {} THEN 0 ELSE idx[CHOOSE q \in P : TRUE]
  BY <1>1, SearchHits DEF Hit
<1> HIDE DEF N, idx, p
<1>3. \A q \in 1 .. N : idx[q] \in 1 .. N
  BY <1>1 DEF Sorts
<1>4. P = {q \in 1 .. N : t[idx[q]].name = n}
  BY DEF Hits
<1>5. CASE P = {}
  <2>1. \A i \in 1 .. N : t[i].name # n
    BY <1>1, <1>4, <1>5 DEF Sorts
  <2> QED
    BY <2>1, <1>1, <1>2, <1>5 DEF Holding, idx, p
<1>6. CASE P # {}
  <2>1. PICK q \in P : p = idx[q]
    BY <1>2, <1>6
  <2>2. p \in 1 .. N /\ t[p].name = n /\ p # 0
    BY <2>1, <1>1, <1>3, <1>4
  <2>3. Holding(t, n) = {p}
    BY <2>2, <1>1 DEF Holding, Distinct
  <2> QED
    BY <2>2, <2>3 DEF idx, p
<1> QED
  BY <1>5, <1>6

-----------------------------------------------------------------------------
(* The inductive invariant *)

Types ==
  /\ opened \in [Libs -> Int]
  /\ ph \in {"ready", "query", "init"}
  /\ loading \in Libs \cup {NoLib}
  /\ ph = "ready" <=> loading = NoLib
  /\ failed \subseteq Libs

\* The indices are those of the tables, a name is in a table once, and a
\* library is in the list of plugins once.
ShellOK(s) ==
  /\ s \in Shell
  /\ \A k \in Indexed : Distinct(s.table[k]) /\ s.index[k] = Rebuilt(s.table[k])
  /\ \A i, j \in DOMAIN s.plugins : s.plugins[i].lib = s.plugins[j].lib => i = j

ShellsOK(sh) == sh \in Seq(Shell) /\ \A i \in DOMAIN sh : ShellOK(sh[i])

\* There is room for the plugin that is being loaded, and it is not there yet.
Filling ==
  ph # "ready" => /\ shells # <<>>
                  /\ Slot <= MaxPlugins
                  /\ \A i \in DOMAIN Current.plugins : Current.plugins[i].lib # loading

\* An entry e of shell s: what is not a library's has no owner; a library's
\* code is owned by the plugin it came with, or (last) by the one that is loaded.
OwnedBy(s, e, last, lib, bad) ==
  /\ e.fn = NoLib => e.owner = 0
  /\ e.fn \in Libs \ bad =>
       \/ e.owner \in DOMAIN s.plugins /\ s.plugins[e.owner].lib = e.fn
       \/ last /\ e.fn = lib /\ e.owner = Len(s.plugins) + 1

EntriesOwned(s, last, lib, bad) ==
  \A k \in Kinds : \A x \in DOMAIN s.table[k] : OwnedBy(s, s.table[k][x], last, lib, bad)

\* The library that is registering
Registering == IF ph = "init" THEN loading ELSE NoLib

OwnedIn(sh, lib, bad) == \A i \in DOMAIN sh : EntriesOwned(sh[i], i = Len(sh), lib, bad)

\* The shell will close the library.
Holds(s, l) == \E q \in DOMAIN s.plugins : s.plugins[q].lib = l /\ s.plugins[q].handle

\* The plugins of a shell are held open by it or by a shell below it.
HeldIn(sh) ==
  \A i \in DOMAIN sh : \A p \in DOMAIN sh[i].plugins :
    \E j \in 1 .. i : Holds(sh[j], sh[i].plugins[p].lib)

Openers(sh, l) == {i \in DOMAIN sh : Holds(sh[i], l)}

Opened ==
  \A l \in Libs : opened[l] = Cardinality(Openers(shells, l)) + (IF loading = l THEN 1 ELSE 0)

\* What is cached is what the main shell finds, also while a plugin is loaded,
\* and then nothing of that plugin is in the table.
Cached ==
  failed = {} /\ cache # Stale /\ shells # <<>> =>
    /\ cache = Visible(shells[1])
    /\ Len(shells) = 1 => \A x \in DOMAIN shells[1].table["command"] :
                            shells[1].table["command"][x].owner <= Len(shells[1].plugins)

PluginsInv ==
  /\ Types
  /\ ShellsOK(shells)
  /\ Filling
  /\ OwnedIn(shells, Registering, failed)
  /\ HeldIn(shells)
  /\ Opened
  /\ Cached

-----------------------------------------------------------------------------
(* One shell *)

\* The parts of a shell, as the other proofs use them.
LEMMA ShellFacts ==
  ASSUME NEW s, ShellOK(s)
  PROVE  /\ s \in Shell /\ s.table \in [Kinds -> Seq(Entry)] /\ s.index \in [Indexed -> Seq(Nat)]
         /\ s.plugins \in Seq(Plugin) /\ Len(s.plugins) \in Nat /\ DOMAIN s.plugins = 1 .. Len(s.plugins)
         /\ \A k \in Kinds : /\ s.table[k] \in Seq(Entry) /\ Len(s.table[k]) \in Nat
                             /\ DOMAIN s.table[k] = 1 .. Len(s.table[k])
                             /\ \A x \in DOMAIN s.table[k] : s.table[k][x] \in Entry
         /\ \A q \in DOMAIN s.plugins : s.plugins[q] \in Plugin
         /\ \A k \in Indexed : Distinct(s.table[k]) /\ s.index[k] = Rebuilt(s.table[k])
<1>1. /\ s \in Shell /\ s.table \in [Kinds -> Seq(Entry)] /\ s.index \in [Indexed -> Seq(Nat)]
      /\ s.plugins \in Seq(Plugin)
  BY DEF ShellOK, Shell
<1>2. Len(s.plugins) \in Nat /\ DOMAIN s.plugins = 1 .. Len(s.plugins)
  BY <1>1, LenProperties
<1>3. \A q \in DOMAIN s.plugins : s.plugins[q] \in Plugin
  BY <1>1, <1>2, ElementOfSeq
<1>4. ASSUME NEW k \in Kinds
      PROVE  /\ s.table[k] \in Seq(Entry) /\ Len(s.table[k]) \in Nat
             /\ DOMAIN s.table[k] = 1 .. Len(s.table[k])
             /\ \A x \in DOMAIN s.table[k] : s.table[k][x] \in Entry
  <2>1. s.table[k] \in Seq(Entry)
    BY <1>1
  <2>2. Len(s.table[k]) \in Nat /\ DOMAIN s.table[k] = 1 .. Len(s.table[k])
    BY <2>1, LenProperties
  <2> QED
    BY <2>1, <2>2, ElementOfSeq
<1> QED
  BY <1>1, <1>2, <1>3, <1>4 DEF ShellOK

\* A shell closes a library once or not at all.
LEMMA HandlesFacts ==
  ASSUME NEW s, ShellOK(s), NEW l
  PROVE  Handles(s, l) = IF Holds(s, l) THEN 1 ELSE 0
<1> DEFINE H == {q \in DOMAIN s.plugins : s.plugins[q].lib = l /\ s.plugins[q].handle}
<1>1. CASE Holds(s, l)
  <2>1. PICK q \in H : TRUE
    BY <1>1 DEF Holds
  <2>2. H = {q}
    BY <2>1 DEF ShellOK
  <2>3. Cardinality(H) = 1
    BY <2>2, FS_Singleton
  <2> QED
    BY <1>1, <2>3 DEF Handles
<1>2. CASE ~ Holds(s, l)
  <2>1. H = {}
    BY <1>2 DEF Holds
  <2>2. Cardinality(H) = 0
    BY <2>1, FS_EmptySet
  <2> QED
    BY <1>2, <2>2 DEF Handles
<1> QED
  BY <1>1, <1>2

\* The name of each command that is found is that of an active entry.
LEMMA FoundIsThere ==
  ASSUME NEW s, ShellOK(s), NEW k \in Kinds, NEW n \in Names
  PROVE  LET p == Find(s, k, n)
         IN  /\ p # 0 => p \in DOMAIN s.table[k] /\ s.table[k][p].name = n /\ Active(s, s.table[k][p])
             /\ k \in Indexed /\ p = 0 =>
                  \A x \in DOMAIN s.table[k] : s.table[k][x].name = n => ~ Active(s, s.table[k][x])
<1>1. /\ s.table[k] \in Seq(Entry) /\ Len(s.table[k]) \in Nat /\ DOMAIN s.table[k] = 1 .. Len(s.table[k])
      /\ n \in Int /\ (k \in Indexed => Distinct(s.table[k]) /\ s.index[k] = Rebuilt(s.table[k]))
  BY ShellFacts, BoundsAssumption DEF Names
<1>2. CASE k = "extension"
  <2> DEFINE I == {i \in DOMAIN s.table["extension"] :
                     s.table["extension"][i].name = n /\ Active(s, s.table["extension"][i])}
             p == FindExtension(s, n)
  <2>1. Find(s, k, n) = p
    BY <1>2 DEF Find
  <2>2. p = IF I = {} THEN 0 ELSE CHOOSE i \in I : \A j \in I : j <= i
    BY DEF FindExtension
  <2>3. I # {} => \E i \in I : \A j \in I : j <= i
    <3>1. I \subseteq 1 .. Len(s.table[k])
      BY <1>1, <1>2
    <3> HIDE DEF I
    <3> QED
      BY <3>1, <1>1, Extremes
  <2>4. p # 0 => p \in I
    <3> HIDE DEF I, p
    <3> QED
      BY <2>2, <2>3
  <2> QED
    BY <1>2, <2>1, <2>4 DEF Indexed
<1>3. CASE k # "extension"
  <2> DEFINE i == Search(s.table[k], s.index[k], n)
  <2>1. k \in Indexed
    BY <1>3 DEF Kinds
  <2>2. Holding(s.table[k], n) = (IF i = 0 THEN {} ELSE {i})
    BY <1>1, <2>1, SearchExact
  <2>3. Find(s, k, n) = IF i # 0 /\ Active(s, s.table[k][i]) THEN i ELSE 0
    BY <1>3 DEF Find
  <2> HIDE DEF i
  <2> QED
    BY <2>2, <2>3 DEF Holding
<1> QED
  BY <1>2, <1>3

\* The commands a shell finds are those an active entry of its table names.
LEMMA VisibleFacts ==
  ASSUME NEW s, ShellOK(s)
  PROVE  Visible(s) = {n \in Names : \E x \in DOMAIN s.table["command"] :
                         s.table["command"][x].name = n /\ Active(s, s.table["command"][x])}
<1>1. "command" \in Kinds /\ "command" \in Indexed
  BY DEF Kinds, Indexed
<1>2. ASSUME NEW n \in Names
      PROVE  Find(s, "command", n) # 0 <=>
               \E x \in DOMAIN s.table["command"] :
                 s.table["command"][x].name = n /\ Active(s, s.table["command"][x])
  <2> DEFINE p == Find(s, "command", n)
  <2>1. /\ p # 0 => p \in DOMAIN s.table["command"] /\ s.table["command"][p].name = n
                    /\ Active(s, s.table["command"][p])
        /\ p = 0 => \A x \in DOMAIN s.table["command"] :
                      s.table["command"][x].name = n => ~ Active(s, s.table["command"][x])
    BY <1>1, FoundIsThere
  <2> QED
    BY <2>1
<1> QED
  BY <1>2 DEF Visible

\* The position that Place gives is that of the name, or the next free one.
LEMMA PlaceFacts ==
  ASSUME NEW t \in Seq(Entry), NEW k, NEW n, Place(t, k, n) # 0
  PROVE  LET i == Place(t, k, n)
         IN  \/ i = Len(t) + 1 /\ Holding(t, n) = {}
             \/ i \in Holding(t, n)
<1> DEFINE H == Holding(t, n)
<1>1. H \subseteq 1 .. Len(t) /\ Len(t) \in Nat
  BY LenProperties DEF Holding
<1>2. H # {} => \E i \in H : \A j \in H : i <= j
  <2> HIDE DEF H
  <2> QED
    BY <1>1, Extremes
<1>3. H # {} => (CHOOSE i \in H : \A j \in H : i <= j) \in H
  <2> HIDE DEF H
  <2> QED
    BY <1>2
<1> QED
  BY <1>3 DEF Place

\* Entry e is written where its name is, or at the end.
Written(t, i, e) == IF i <= Len(t) THEN [t EXCEPT ![i] = e] ELSE Append(t, e)

\* Writing at the place of a name keeps the table free of duplicates.
LEMMA WrittenFacts ==
  ASSUME NEW t \in Seq(Entry), NEW e \in Entry, NEW i,
         \/ i = Len(t) + 1 /\ Holding(t, e.name) = {}
         \/ i \in Holding(t, e.name)
  PROVE  LET u == Written(t, i, e)
         IN  /\ u \in Seq(Entry)
             /\ \A x \in DOMAIN u : u[x] = e \/ (x \in DOMAIN t /\ u[x] = t[x])
             /\ Distinct(t) => Distinct(u)
<1> DEFINE u == Written(t, i, e)
           n == Len(t)
<1>1. n \in Nat /\ DOMAIN t = 1 .. n /\ t \in [1 .. n -> Entry]
  BY LenProperties
<1>2. CASE i = n + 1 /\ Holding(t, e.name) = {}
  <2>0. ~ (i <= n)
    <3> HIDE DEF n
    <3> QED
      BY <1>1, <1>2
  <2>1. u = Append(t, e)
    BY <2>0 DEF Written
  <2>2. u \in Seq(Entry) /\ Len(u) = n + 1 /\ u[n + 1] = e /\ \A x \in 1 .. n : u[x] = t[x]
    BY <2>1, AppendProperties
  <2>3. DOMAIN u = 1 .. n + 1
    BY <2>2, LenProperties
  <2> HIDE DEF u, n
  <2>4. \A x \in DOMAIN u : (x = n + 1 /\ u[x] = e) \/ (x \in DOMAIN t /\ u[x] = t[x])
    BY <1>1, <2>2, <2>3
  <2>5. \A x \in DOMAIN t : t[x].name # e.name
    BY <1>2 DEF Holding
  <2>6. Distinct(t) => Distinct(u)
    BY <2>4, <2>5 DEF Distinct
  <2> QED
    BY <2>2, <2>4, <2>6 DEF u
<1>3. CASE i \in Holding(t, e.name)
  <2>1. i \in 1 .. n /\ t[i].name = e.name
    BY <1>1, <1>3 DEF Holding
  <2>2. u = [t EXCEPT ![i] = e]
    BY <1>1, <2>1 DEF Written
  <2>3. u \in [1 .. n -> Entry]
    BY <1>1, <2>1, <2>2
  <2>4. u \in Seq(Entry)
    BY <1>1, <2>3, IsASeq
  <2>5. DOMAIN u = DOMAIN t /\ u[i] = e /\ \A x \in DOMAIN t : x # i => u[x] = t[x]
    BY <1>1, <2>1, <2>2
  <2> HIDE DEF u, n
  <2>6. \A x \in DOMAIN t : u[x].name = t[x].name
    BY <2>1, <2>5
  <2>7. Distinct(t) => Distinct(u)
    BY <2>5, <2>6 DEF Distinct
  <2> QED
    BY <2>4, <2>5, <2>7 DEF u
<1> QED
  BY <1>2, <1>3 DEF n

\* Registering keeps the shell in order.
LEMMA StoredOK ==
  ASSUME NEW s, ShellOK(s), NEW k \in Kinds, NEW e \in Entry, Place(s.table[k], k, e.name) # 0
  PROVE  LET u == Stored(s, k, Place(s.table[k], k, e.name), e)
         IN  /\ ShellOK(u) /\ u.plugins = s.plugins
             /\ \A j \in Kinds : \A x \in DOMAIN u.table[j] :
                  \/ u.table[j][x] = e /\ j = k
                  \/ x \in DOMAIN s.table[j] /\ u.table[j][x] = s.table[j][x]
<1> DEFINE i == Place(s.table[k], k, e.name)
           t == Written(s.table[k], i, e)
           u == Stored(s, k, i, e)
<1>1. /\ s.table \in [Kinds -> Seq(Entry)] /\ s.index \in [Indexed -> Seq(Nat)]
      /\ s.plugins \in Seq(Plugin) /\ s \in Shell /\ s.table[k] \in Seq(Entry)
      /\ \A j \in Indexed : Distinct(s.table[j]) /\ s.index[j] = Rebuilt(s.table[j])
  BY ShellFacts
<1>2. /\ t \in Seq(Entry) /\ \A x \in DOMAIN t : t[x] = e \/ (x \in DOMAIN s.table[k] /\ t[x] = s.table[k][x])
      /\ Distinct(s.table[k]) => Distinct(t)
  BY <1>1, PlaceFacts, WrittenFacts
<1>3. u = [s EXCEPT !.table = [s.table EXCEPT ![k] = t],
                    !.index = IF k \in Indexed THEN [s.index EXCEPT ![k] = Rebuilt(t)] ELSE s.index]
  BY <1>1 DEF Stored, Written, Shell
<1>4. k \in Indexed => Rebuilt(t) \in Seq(Nat)
  <2>1. ASSUME k \in Indexed PROVE Rebuilt(t) \in Seq(Nat)
    <3>1. Sorts(t, Rebuilt(t), Len(t)) /\ Len(t) \in Nat
      BY <1>1, <1>2, <2>1, RebuiltSorts
    <3>2. Rebuilt(t) \in [1 .. Len(t) -> Nat]
      BY <3>1 DEF Sorts
    <3> QED
      BY <3>1, <3>2, IsASeq
  <2> QED
    BY <2>1
<1> HIDE DEF i, t, u
<1>5. /\ u.table = [s.table EXCEPT ![k] = t] /\ u.plugins = s.plugins
      /\ u.index = IF k \in Indexed THEN [s.index EXCEPT ![k] = Rebuilt(t)] ELSE s.index
  BY <1>1, <1>3 DEF Shell
<1>6. u \in Shell
  <2>1. [s.table EXCEPT ![k] = t] \in [Kinds -> Seq(Entry)]
    BY <1>1, <1>2
  <2>2. (IF k \in Indexed THEN [s.index EXCEPT ![k] = Rebuilt(t)] ELSE s.index) \in [Indexed -> Seq(Nat)]
    BY <1>1, <1>4
  <2> QED
    BY <1>1, <1>3, <2>1, <2>2 DEF Shell
<1>7. \A j \in Kinds : u.table[j] = IF j = k THEN t ELSE s.table[j]
  BY <1>1, <1>5
<1>8. ASSUME NEW j \in Indexed PROVE Distinct(u.table[j]) /\ u.index[j] = Rebuilt(u.table[j])
  <2>1. j \in Kinds
    BY DEF Kinds
  <2>2. CASE j = k
    <3>1. u.table[j] = t /\ u.index[j] = Rebuilt(t)
      BY <1>1, <1>5, <1>7, <2>1, <2>2
    <3> QED
      BY <3>1, <1>1, <1>2, <2>2
  <2>3. CASE j # k
    <3>1. u.table[j] = s.table[j] /\ u.index[j] = s.index[j]
      BY <1>1, <1>5, <1>7, <2>1, <2>3
    <3> QED
      BY <3>1, <1>1
  <2> QED
    BY <2>2, <2>3
<1>9. ShellOK(u)
  BY <1>5, <1>6, <1>8 DEF ShellOK
<1>10. \A j \in Kinds : \A x \in DOMAIN u.table[j] :
         \/ u.table[j][x] = e /\ j = k
         \/ x \in DOMAIN s.table[j] /\ u.table[j][x] = s.table[j][x]
  BY <1>2, <1>7
<1> QED
  BY <1>5, <1>9, <1>10 DEF u, i

\* arksh_shell_clone_subshell keeps the copy in order.
LEMMA CopiedOK ==
  ASSUME NEW s, ShellOK(s)
  PROVE  LET u == Copied(s)
         IN  /\ ShellOK(u) /\ u.table = s.table /\ DOMAIN u.plugins = DOMAIN s.plugins
             /\ Len(u.plugins) = Len(s.plugins)
             /\ \A q \in DOMAIN s.plugins : /\ u.plugins[q].lib = s.plugins[q].lib
                                            /\ u.plugins[q].handle = FALSE
                                            /\ u.plugins[q].active = s.plugins[q].active
<1> DEFINE u == Copied(s)
           n == Len(s.plugins)
           P == [q \in DOMAIN s.plugins |-> [s.plugins[q] EXCEPT !.handle = FALSE]]
           X == [k \in Indexed |-> Rebuilt(s.table[k])]
<1>1. /\ s \in Shell /\ s.table \in [Kinds -> Seq(Entry)] /\ s.index \in [Indexed -> Seq(Nat)]
      /\ s.plugins \in Seq(Plugin) /\ n \in Nat /\ DOMAIN s.plugins = 1 .. n
      /\ \A q \in DOMAIN s.plugins : s.plugins[q] \in Plugin
      /\ \A k \in Indexed : Distinct(s.table[k]) /\ s.index[k] = Rebuilt(s.table[k])
  BY ShellFacts
<1>2. u = [s EXCEPT !.plugins = P, !.index = X]
  BY <1>1 DEF Copied, Shell
<1>3. X = s.index
  <2>1. \A k \in Indexed : X[k] = s.index[k]
    BY <1>1
  <2> QED
    BY <1>1, <2>1
<1>4. \A q \in DOMAIN s.plugins : /\ P[q] \in Plugin /\ P[q].lib = s.plugins[q].lib
                                  /\ P[q].handle = FALSE /\ P[q].active = s.plugins[q].active
  BY <1>1 DEF Plugin
<1>5. P \in Seq(Plugin) /\ Len(P) = n /\ DOMAIN P = DOMAIN s.plugins
  <2>1. P \in [1 .. n -> Plugin]
    BY <1>1, <1>4
  <2> HIDE DEF P, n
  <2> QED
    BY <1>1, <2>1, IsASeq, LenProperties
<1> HIDE DEF P, X, u
<1>6. u.table = s.table /\ u.index = s.index /\ u.plugins = P /\ u \in Shell
  BY <1>1, <1>2, <1>3, <1>5 DEF Shell
<1>7. ShellOK(u)
  BY <1>1, <1>4, <1>5, <1>6 DEF ShellOK
<1> QED
  BY <1>4, <1>5, <1>6, <1>7 DEF u

\* plugin enable and disable touch only one flag.
LEMMA ActiveOK ==
  ASSUME NEW s, ShellOK(s), NEW p \in DOMAIN s.plugins, NEW a \in BOOLEAN
  PROVE  LET u == [s EXCEPT !.plugins[p].active = a]
         IN  /\ ShellOK(u) /\ u.table = s.table /\ DOMAIN u.plugins = DOMAIN s.plugins
             /\ Len(u.plugins) = Len(s.plugins)
             /\ \A q \in DOMAIN s.plugins : /\ u.plugins[q].lib = s.plugins[q].lib
                                            /\ u.plugins[q].handle = s.plugins[q].handle
<1> DEFINE u == [s EXCEPT !.plugins[p].active = a]
           n == Len(s.plugins)
           P == [s.plugins EXCEPT ![p] = [s.plugins[p] EXCEPT !.active = a]]
<1>1. /\ s \in Shell /\ s.table \in [Kinds -> Seq(Entry)] /\ s.index \in [Indexed -> Seq(Nat)]
      /\ s.plugins \in Seq(Plugin) /\ n \in Nat /\ DOMAIN s.plugins = 1 .. n
      /\ \A q \in DOMAIN s.plugins : s.plugins[q] \in Plugin
      /\ \A k \in Indexed : Distinct(s.table[k]) /\ s.index[k] = Rebuilt(s.table[k])
  BY ShellFacts
<1>2. u = [s EXCEPT !.plugins = P]
  BY <1>1 DEF Shell
<1>3. \A q \in DOMAIN s.plugins : /\ P[q] \in Plugin /\ P[q].lib = s.plugins[q].lib
                                  /\ P[q].handle = s.plugins[q].handle
  BY <1>1 DEF Plugin
<1>4. P \in Seq(Plugin) /\ Len(P) = n /\ DOMAIN P = DOMAIN s.plugins
  <2>0. DOMAIN P = DOMAIN s.plugins
    BY <1>1
  <2>1. P \in [1 .. n -> Plugin]
    <3>1. P = [q \in 1 .. n |-> P[q]]
      BY <1>1
    <3> HIDE DEF P, n
    <3> QED
      BY <1>1, <1>3, <3>1
  <2> HIDE DEF P, n
  <2> QED
    BY <1>1, <2>0, <2>1, IsASeq, LenProperties
<1> HIDE DEF P, u
<1>5. u.table = s.table /\ u.index = s.index /\ u.plugins = P /\ u \in Shell
  BY <1>1, <1>2, <1>4 DEF Shell
<1>6. ShellOK(u)
  BY <1>1, <1>3, <1>4, <1>5 DEF ShellOK
<1> QED
  BY <1>3, <1>4, <1>5, <1>6 DEF u

WithPlugin(s, l) == [s EXCEPT !.plugins = Append(@, [lib |-> l, handle |-> TRUE, active |-> TRUE])]

\* u is shell s with the plugin l behind its n plugins.
OneMore(s, u, l, n) ==
  /\ ShellOK(u) /\ u.table = s.table
  /\ n \in Nat /\ DOMAIN s.plugins = 1 .. n /\ DOMAIN u.plugins = 1 .. n + 1
  /\ Len(u.plugins) = n + 1
  /\ u.plugins[n + 1].lib = l /\ u.plugins[n + 1].handle = TRUE
  /\ \A q \in 1 .. n : u.plugins[q] = s.plugins[q]

\* The plugin whose init has succeeded is counted.
LEMMA CountedOK ==
  ASSUME NEW s, ShellOK(s), NEW l \in Libs, \A q \in DOMAIN s.plugins : s.plugins[q].lib # l
  PROVE  OneMore(s, WithPlugin(s, l), l, Len(s.plugins))
<1> DEFINE r == [lib |-> l, handle |-> TRUE, active |-> TRUE]
           u == WithPlugin(s, l)
           n == Len(s.plugins)
           P == Append(s.plugins, r)
<1>1. /\ s \in Shell /\ s.table \in [Kinds -> Seq(Entry)] /\ s.index \in [Indexed -> Seq(Nat)]
      /\ s.plugins \in Seq(Plugin) /\ n \in Nat /\ DOMAIN s.plugins = 1 .. n
      /\ \A k \in Indexed : Distinct(s.table[k]) /\ s.index[k] = Rebuilt(s.table[k])
  BY ShellFacts
<1>2. u = [s EXCEPT !.plugins = P]
  BY <1>1 DEF Shell, WithPlugin
<1>3. r \in Plugin /\ r.lib = l /\ r.handle = TRUE
  BY DEF Plugin
<1> HIDE DEF r
<1>4. P \in Seq(Plugin) /\ Len(P) = n + 1 /\ P[n + 1] = r /\ \A q \in 1 .. n : P[q] = s.plugins[q]
  BY <1>1, <1>3, AppendProperties
<1>5. DOMAIN P = 1 .. n + 1
  BY <1>4, LenProperties
<1> HIDE DEF P, u
<1>6. u.table = s.table /\ u.index = s.index /\ u.plugins = P /\ u \in Shell
  BY <1>1, <1>2, <1>4 DEF Shell
<1>7. \A a, b \in 1 .. n + 1 : P[a].lib = P[b].lib => a = b
  <2>1. \A a \in 1 .. n + 1 : a = n + 1 \/ (a \in 1 .. n /\ P[a] = s.plugins[a] /\ P[a].lib # l)
    <3> HIDE DEF n
    <3> QED
      BY <1>1, <1>4
  <2>2. P[n + 1].lib = l
    BY <1>3, <1>4
  <2> HIDE DEF n
  <2> QED
    BY <1>1, <2>1, <2>2 DEF ShellOK
<1>8. ShellOK(u)
  BY <1>1, <1>5, <1>6, <1>7 DEF ShellOK
<1> QED
  BY <1>1, <1>3, <1>4, <1>5, <1>6, <1>8 DEF OneMore, u, r

-----------------------------------------------------------------------------
(* The main shell and its clones *)

\* new is old with u as its last shell.
Becomes(old, new, n, u) ==
  /\ n \in Nat \ {0} /\ DOMAIN old = 1 .. n /\ DOMAIN new = 1 .. n /\ Len(old) = n /\ Len(new) = n
  /\ new[n] = u /\ \A i \in 1 .. n : i # n => new[i] = old[i]
  /\ ShellsOK(old) /\ ShellsOK(new) /\ new # <<>>
  /\ Last(old) = old[n] /\ Last(new) = u /\ ShellOK(old[n])

\* The shell that runs is the last of the stack of clones.
LEMMA ShellsFacts ==
  ASSUME NEW sh, ShellsOK(sh)
  PROVE  /\ Len(sh) \in Nat /\ DOMAIN sh = 1 .. Len(sh)
         /\ sh # <<>> => /\ Len(sh) \in Nat \ {0} /\ Last(sh) = sh[Len(sh)] /\ ShellOK(Last(sh))
                         /\ 1 \in DOMAIN sh /\ Len(sh) \in DOMAIN sh
<1>1. sh \in Seq(Shell) /\ \A i \in DOMAIN sh : ShellOK(sh[i])
  BY DEF ShellsOK
<1>2. Len(sh) \in Nat /\ DOMAIN sh = 1 .. Len(sh)
  BY <1>1, LenProperties
<1>3. ASSUME sh # <<>> PROVE Len(sh) \in Nat \ {0}
  BY <1>1, <1>3, EmptySeq
<1>4. Last(sh) = sh[Len(sh)]
  BY DEF Last
<1> QED
  BY <1>1, <1>2, <1>3, <1>4

\* Changing the shell that runs keeps the others.
LEMMA Replacing ==
  ASSUME NEW sh, ShellsOK(sh), sh # <<>>, NEW u, ShellOK(u)
  PROVE  Becomes(sh, [sh EXCEPT ![Len(sh)] = u], Len(sh), u)
<1> DEFINE n == Len(sh)
           new == [sh EXCEPT ![n] = u]
<1>1. /\ n \in Nat \ {0} /\ DOMAIN sh = 1 .. n /\ Last(sh) = sh[n] /\ ShellOK(sh[n])
      /\ sh \in [1 .. n -> Shell] /\ \A i \in 1 .. n : ShellOK(sh[i])
  BY ShellsFacts, LenProperties DEF ShellsOK
<1>2. u \in Shell
  BY DEF ShellOK
<1> HIDE DEF n
<1>3. n \in 1 .. n
  BY <1>1
<1>4. new \in [1 .. n -> Shell] /\ new[n] = u /\ \A i \in 1 .. n : i # n => new[i] = sh[i]
  BY <1>1, <1>2, <1>3
<1> HIDE DEF new
<1>5. new \in Seq(Shell) /\ Len(new) = n /\ DOMAIN new = 1 .. n
  BY <1>1, <1>4, IsASeq, LenProperties
<1>6. new # <<>> /\ Last(new) = u
  BY <1>1, <1>3, <1>4, <1>5 DEF Last
<1>7. ShellsOK(new)
  BY <1>1, <1>4, <1>5 DEF ShellsOK
<1>8. Len(sh) = n
  BY DEF n
<1>9. Becomes(sh, new, n, u)
  BY <1>1, <1>4, <1>5, <1>6, <1>7, <1>8 DEF Becomes
<1> QED
  BY <1>9 DEF n, new

\* The two shells have the same libraries and will close the same ones.
SamePlugins(s, u) ==
  /\ DOMAIN u.plugins = DOMAIN s.plugins
  /\ \A q \in DOMAIN s.plugins : u.plugins[q].lib = s.plugins[q].lib /\ u.plugins[q].handle = s.plugins[q].handle

\* A change that keeps the plugins of a shell keeps what it has open.
LEMMA ReplacingKeeps ==
  ASSUME NEW sh, NEW new, NEW n, NEW u, Becomes(sh, new, n, u), SamePlugins(sh[n], u)
  PROVE  /\ \A l : Openers(new, l) = Openers(sh, l)
         /\ HeldIn(sh) => HeldIn(new)
<1>1. ASSUME NEW i \in 1 .. n
      PROVE  /\ DOMAIN new[i].plugins = DOMAIN sh[i].plugins
             /\ \A q \in DOMAIN sh[i].plugins : /\ new[i].plugins[q].lib = sh[i].plugins[q].lib
                                                /\ new[i].plugins[q].handle = sh[i].plugins[q].handle
  BY DEF Becomes, SamePlugins
<1>2. \A i \in 1 .. n : \A l : Holds(new[i], l) <=> Holds(sh[i], l)
  BY <1>1 DEF Holds
<1>3. DOMAIN sh = 1 .. n /\ DOMAIN new = 1 .. n
  BY DEF Becomes
<1>4. \A l : Openers(new, l) = Openers(sh, l)
  BY <1>2, <1>3 DEF Openers
<1>5. ASSUME HeldIn(sh) PROVE HeldIn(new)
  <2>1. SUFFICES ASSUME NEW i \in 1 .. n, NEW q \in DOMAIN new[i].plugins
                 PROVE  \E j \in 1 .. i : Holds(new[j], new[i].plugins[q].lib)
    BY <1>3 DEF HeldIn
  <2>2. q \in DOMAIN sh[i].plugins /\ new[i].plugins[q].lib = sh[i].plugins[q].lib
    BY <1>1
  <2>3. PICK j \in 1 .. i : Holds(sh[j], sh[i].plugins[q].lib)
    BY <1>3, <1>5, <2>2 DEF HeldIn
  <2>4. j \in 1 .. n
    BY DEF Becomes
  <2> QED
    BY <1>2, <2>2, <2>3, <2>4
<1> QED
  BY <1>4, <1>5

\* Owners stay right when the changed shell has them right.
LEMMA ReplacingOwned ==
  ASSUME NEW sh, NEW new, NEW n, NEW u, Becomes(sh, new, n, u), NEW lib, NEW bad,
         OwnedIn(sh, lib, bad), EntriesOwned(u, TRUE, lib, bad)
  PROVE  OwnedIn(new, lib, bad)
<1>1. SUFFICES ASSUME NEW i \in 1 .. n PROVE EntriesOwned(new[i], i = n, lib, bad)
  BY DEF OwnedIn, Becomes
<1>2. CASE i = n
  <2>1. new[i] = u
    BY <1>2 DEF Becomes
  <2> QED
    BY <1>2, <2>1 DEF EntriesOwned, OwnedBy
<1>3. CASE i # n
  <2>1. new[i] = sh[i]
    BY <1>3 DEF Becomes
  <2>2. EntriesOwned(sh[i], i = n, lib, bad)
    BY DEF OwnedIn, Becomes
  <2> QED
    BY <2>1, <2>2
<1> QED
  BY <1>2, <1>3

\* Whose entries are at rest: owned by a plugin that is counted
LEMMA OwnedAtRest ==
  ASSUME NEW sh, NEW bad, NEW lib, NEW more, OwnedIn(sh, NoLib, bad)
  PROVE  OwnedIn(sh, lib, bad \cup more)
BY BoundsAssumption DEF OwnedIn, EntriesOwned, OwnedBy

\* Entries of a load that fails belong from then on to a failed library.
LEMMA OwnedUnlessFailed ==
  ASSUME NEW sh, NEW bad, NEW lib, OwnedIn(sh, lib, bad)
  PROVE  OwnedIn(sh, NoLib, bad \cup {lib})
BY DEF OwnedIn, EntriesOwned, OwnedBy

\* There is a finite number of shells that will close a library.
LEMMA OpenersFinite ==
  ASSUME NEW sh, ShellsOK(sh), NEW l
  PROVE  IsFiniteSet(Openers(sh, l)) /\ Cardinality(Openers(sh, l)) \in Nat
<1>1. Len(sh) \in Nat /\ DOMAIN sh = 1 .. Len(sh)
  BY ShellsFacts
<1>2. IsFiniteSet(1 .. Len(sh))
  BY <1>1, FS_Interval
<1>3. Openers(sh, l) \subseteq 1 .. Len(sh)
  BY <1>1 DEF Openers
<1>4. IsFiniteSet(Openers(sh, l))
  BY <1>2, <1>3, FS_Subset
<1> QED
  BY <1>4, FS_CardinalityType

\* A clone of the last shell is put above it.
LEMMA Cloning ==
  ASSUME NEW sh, ShellsOK(sh), sh # <<>>
  PROVE  LET new == Append(sh, Copied(Last(sh)))
         IN  /\ ShellsOK(new) /\ new # <<>> /\ Len(new) # 1 /\ new[1] = sh[1]
             /\ \A l : Openers(new, l) = Openers(sh, l)
             /\ HeldIn(sh) => HeldIn(new)
             /\ \A bad : OwnedIn(sh, NoLib, bad) => OwnedIn(new, NoLib, bad)
<1> DEFINE n == Len(sh)
           s == Last(sh)
           u == Copied(s)
           new == Append(sh, u)
<1>1. n \in Nat \ {0} /\ DOMAIN sh = 1 .. n /\ s = sh[n] /\ ShellOK(s) /\ sh \in Seq(Shell)
  BY ShellsFacts DEF ShellsOK
<1>2. /\ ShellOK(u) /\ u.table = s.table /\ DOMAIN u.plugins = DOMAIN s.plugins
      /\ Len(u.plugins) = Len(s.plugins)
      /\ \A q \in DOMAIN s.plugins : u.plugins[q].lib = s.plugins[q].lib /\ u.plugins[q].handle = FALSE
  BY <1>1, CopiedOK
<1>3. u \in Shell
  BY <1>2 DEF ShellOK
<1> HIDE DEF u, s
<1>4. new \in Seq(Shell) /\ Len(new) = n + 1 /\ new[n + 1] = u /\ \A i \in 1 .. n : new[i] = sh[i]
  BY <1>1, <1>3, AppendProperties
<1>5. DOMAIN new = 1 .. n + 1
  BY <1>4, LenProperties
<1> HIDE DEF n, new
<1>6. \A i \in 1 .. n + 1 : i = n + 1 \/ i \in 1 .. n
  BY <1>1
<1>7. ShellsOK(new)
  BY <1>1, <1>2, <1>4, <1>5, <1>6 DEF ShellsOK
<1>8. new # <<>> /\ Len(new) # 1 /\ new[1] = sh[1]
  BY <1>1, <1>4
<1>9. \A l : ~ Holds(u, l)
  BY <1>2 DEF Holds
<1>10. ASSUME NEW l PROVE Openers(new, l) = Openers(sh, l)
  <2>1. 1 .. n \subseteq 1 .. n + 1
    BY <1>1
  <2> QED
    BY <1>1, <1>4, <1>5, <1>6, <1>9, <2>1 DEF Openers
<1>11. ASSUME HeldIn(sh) PROVE HeldIn(new)
  <2>1. SUFFICES ASSUME NEW i \in 1 .. n + 1, NEW q \in DOMAIN new[i].plugins
                 PROVE  \E j \in 1 .. i : Holds(new[j], new[i].plugins[q].lib)
    BY <1>5 DEF HeldIn
  <2>2. PICK m \in 1 .. n : /\ m <= i /\ q \in DOMAIN sh[m].plugins
                            /\ new[i].plugins[q].lib = sh[m].plugins[q].lib
    <3>1. CASE i \in 1 .. n
      BY <3>1, <1>4
    <3>2. CASE i = n + 1
      <4>1. n \in 1 .. n /\ n <= i
        BY <3>2, <1>1
      <4>2. q \in DOMAIN sh[n].plugins /\ new[i].plugins[q].lib = sh[n].plugins[q].lib
        BY <3>2, <1>1, <1>2, <1>4
      <4> QED
        BY <4>1, <4>2
    <3> QED
      BY <1>6, <3>1, <3>2
  <2>3. PICK j \in 1 .. m : Holds(sh[j], sh[m].plugins[q].lib)
    BY <1>1, <1>11, <2>2 DEF HeldIn
  <2>4. j \in 1 .. n /\ j \in 1 .. i
    BY <1>1, <2>2
  <2> QED
    BY <1>4, <2>2, <2>3, <2>4
<1>12. ASSUME NEW bad, OwnedIn(sh, NoLib, bad) PROVE OwnedIn(new, NoLib, bad)
  <2>1. \A i \in 1 .. n : EntriesOwned(sh[i], i = n, NoLib, bad)
    BY <1>1, <1>12 DEF OwnedIn, n
  <2>2. SUFFICES ASSUME NEW i \in 1 .. n + 1 PROVE EntriesOwned(new[i], i = n + 1, NoLib, bad)
    BY <1>4, <1>5 DEF OwnedIn
  <2>3. CASE i \in 1 .. n
    <3>1. EntriesOwned(sh[i], i = n, NoLib, bad)
      BY <2>1, <2>3
    <3>2. new[i] = sh[i]
      BY <1>4, <2>3
    <3> QED
      BY <3>1, <3>2, BoundsAssumption DEF EntriesOwned, OwnedBy
  <2>4. CASE i = n + 1
    <3>1. n \in 1 .. n
      BY <1>1
    <3>2. EntriesOwned(s, n = n, NoLib, bad)
      BY <1>1, <2>1, <3>1
    <3>3. new[i] = u
      BY <1>4, <2>4
    <3> QED
      BY <1>2, <3>2, <3>3, BoundsAssumption, SMTT(40) DEF EntriesOwned, OwnedBy
  <2> QED
    BY <1>6, <2>3, <2>4
<1> QED
  BY <1>7, <1>8, <1>10, <1>11, <1>12 DEF new, u, s

\* The last shell is destroyed.
LEMMA Destroying ==
  ASSUME NEW sh, ShellsOK(sh), sh # <<>>
  PROVE  LET new == Front(sh)
             n   == Len(sh)
         IN  /\ ShellsOK(new) /\ (new # <<>> => new[1] = sh[1] /\ n # 1)
             /\ \A l : /\ Openers(new, l) = Openers(sh, l) \ {n}
                       /\ n \in Openers(sh, l) <=> Holds(Last(sh), l)
             /\ HeldIn(sh) => HeldIn(new)
             /\ \A bad : OwnedIn(sh, NoLib, bad) => OwnedIn(new, NoLib, bad)
<1> DEFINE n == Len(sh)
           new == Front(sh)
<1>1. n \in Nat \ {0} /\ DOMAIN sh = 1 .. n /\ Last(sh) = sh[n] /\ sh \in Seq(Shell)
  BY ShellsFacts DEF ShellsOK
<1>2. new = SubSeq(sh, 1, n - 1)
  BY DEF Front
<1>3. new \in Seq(Shell) /\ Len(new) = n - 1 /\ \A i \in 1 .. n - 1 : new[i] = sh[i]
  BY <1>1, <1>2
<1>4. DOMAIN new = 1 .. n - 1
  BY <1>3, LenProperties
<1>5. new # <<>> => n - 1 # 0
  BY <1>3, EmptySeq
<1> HIDE DEF n, new
<1>6. \A i \in 1 .. n - 1 : i \in 1 .. n /\ i # n
  BY <1>1
<1>7. ShellsOK(new)
  BY <1>1, <1>3, <1>4, <1>6 DEF ShellsOK
<1>8. new # <<>> => new[1] = sh[1] /\ n # 1
  BY <1>1, <1>3, <1>5
<1>9. ASSUME NEW l PROVE Openers(new, l) = Openers(sh, l) \ {n} /\ (n \in Openers(sh, l) <=> Holds(Last(sh), l))
  <2>1. \A i \in 1 .. n : i \in 1 .. n - 1 \/ i = n
    BY <1>1
  <2>2. n \in 1 .. n
    BY <1>1
  <2> QED
    BY <1>1, <1>3, <1>4, <1>6, <2>1, <2>2 DEF Openers
<1>10. ASSUME HeldIn(sh) PROVE HeldIn(new)
  <2>1. SUFFICES ASSUME NEW i \in 1 .. n - 1, NEW q \in DOMAIN new[i].plugins
                 PROVE  \E j \in 1 .. i : Holds(new[j], new[i].plugins[q].lib)
    BY <1>4 DEF HeldIn
  <2>2. PICK j \in 1 .. i : Holds(sh[j], sh[i].plugins[q].lib)
    BY <1>1, <1>3, <1>6, <1>10, <2>1 DEF HeldIn
  <2>3. j \in 1 .. n - 1
    BY <1>1
  <2> QED
    BY <1>3, <2>2, <2>3
<1>11. ASSUME NEW bad, OwnedIn(sh, NoLib, bad) PROVE OwnedIn(new, NoLib, bad)
  <2>1. SUFFICES ASSUME NEW i \in 1 .. n - 1 PROVE EntriesOwned(new[i], i = n - 1, NoLib, bad)
    BY <1>3, <1>4 DEF OwnedIn
  <2>2. EntriesOwned(sh[i], i = n, NoLib, bad) /\ new[i] = sh[i]
    BY <1>1, <1>3, <1>6, <1>11 DEF OwnedIn, n
  <2> QED
    BY <2>2, BoundsAssumption DEF EntriesOwned, OwnedBy
<1> QED
  BY <1>7, <1>8, <1>9, <1>10, <1>11 DEF new, n

-----------------------------------------------------------------------------
(* The cache of completions *)

\* The names of the active commands, in the order of the index, are those that
\* the shell finds.
LEMMA CollectsVisible ==
  ASSUME NEW s, ShellOK(s)
  PROVE  LET t   == s.table["command"]
             idx == s.index["command"]
         IN  {t[idx[i]].name : i \in {j \in DOMAIN idx : Active(s, t[idx[j]])}} = Visible(s)
<1> DEFINE t == s.table["command"]
           idx == s.index["command"]
           m == Len(t)
<1>1. "command" \in Kinds /\ "command" \in Indexed
  BY DEF Kinds, Indexed
<1>2. t \in Seq(Entry) /\ m \in Nat /\ DOMAIN t = 1 .. m /\ Distinct(t) /\ idx = Rebuilt(t)
  BY <1>1, ShellFacts
<1>3. Sorts(t, idx, m)
  BY <1>2, RebuiltSorts
<1>4. \A x \in DOMAIN t : t[x].name \in Names
  <2>1. \A x \in DOMAIN t : t[x] \in Entry
    BY <1>2, ElementOfSeq
  <2> QED
    BY <2>1 DEF Entry
<1>5. Visible(s) = {n \in Names : \E x \in DOMAIN t : t[x].name = n /\ Active(s, t[x])}
  BY VisibleFacts
<1> HIDE DEF t, idx, m
<1>6. DOMAIN idx = 1 .. m /\ (\A a \in 1 .. m : idx[a] \in 1 .. m) /\ \A x \in 1 .. m : \E a \in 1 .. m : idx[a] = x
  BY <1>3 DEF Sorts
<1>7. {t[idx[i]].name : i \in {j \in DOMAIN idx : Active(s, t[idx[j]])}}
        = {n \in Names : \E x \in DOMAIN t : t[x].name = n /\ Active(s, t[x])}
  <2> DEFINE A == {j \in DOMAIN idx : Active(s, t[idx[j]])}
             B == {n \in Names : \E x \in DOMAIN t : t[x].name = n /\ Active(s, t[x])}
  <2>1. ASSUME NEW i \in A PROVE t[idx[i]].name \in B
    <3>1. idx[i] \in DOMAIN t /\ Active(s, t[idx[i]])
      BY <1>2, <1>6
    <3> QED
      BY <3>1, <1>4
  <2>2. ASSUME NEW n \in B PROVE \E i \in A : t[idx[i]].name = n
    <3>1. PICK x \in DOMAIN t : t[x].name = n /\ Active(s, t[x])
      OBVIOUS
    <3>2. PICK a \in 1 .. m : idx[a] = x
      BY <1>2, <1>6
    <3> QED
      BY <1>6, <3>1, <3>2
  <2> HIDE DEF A, B
  <2>3. {t[idx[i]].name : i \in A} = B
    BY <2>1, <2>2
  <2> QED
    BY <2>3 DEF A, B
<1> QED
  BY <1>5, <1>7 DEF t, idx

\* Counting a plugin changes nothing that is visible, when no command is owned
\* by the slot that it fills.
LEMMA CountedVisible ==
  ASSUME NEW s, ShellOK(s), NEW u, ShellOK(u), u.table = s.table,
         NEW n \in Nat, Len(s.plugins) = n, Len(u.plugins) = n + 1,
         \A q \in 1 .. n : u.plugins[q] = s.plugins[q],
         \A x \in DOMAIN s.table["command"] : s.table["command"][x].owner <= n
  PROVE  Visible(u) = Visible(s)
<1> DEFINE t == s.table["command"]
<1>1. "command" \in Kinds
  BY DEF Kinds, Indexed
<1>2. \A x \in DOMAIN t : t[x].owner \in Nat
  <2>1. \A x \in DOMAIN t : t[x] \in Entry
    BY <1>1, ShellFacts
  <2>2. \A e \in Entry : e.owner \in Nat
    BY BoundsAssumption DEF Entry
  <2> QED
    BY <2>1, <2>2
<1>3. ASSUME NEW x \in DOMAIN t PROVE Active(u, t[x]) <=> Active(s, t[x])
  <2> DEFINE o == t[x].owner
  <2>1. o \in Nat /\ o <= n
    BY <1>2
  <2> HIDE DEF o
  <2>2. o = 0 \/ o \in 1 .. n
    BY <2>1
  <2>3. o <= n + 1
    BY <2>1
  <2> QED
    BY <2>1, <2>2, <2>3 DEF Active, o
<1>4. Visible(u) = {m \in Names : \E x \in DOMAIN t : t[x].name = m /\ Active(u, t[x])}
  BY VisibleFacts
<1>5. Visible(s) = {m \in Names : \E x \in DOMAIN t : t[x].name = m /\ Active(s, t[x])}
  BY VisibleFacts
<1> QED
  BY <1>3, <1>4, <1>5

\* When nothing registers and no init has failed, what has an owner has one
\* that is counted.
LEMMA OwnersCounted ==
  ASSUME NEW sh, ShellsOK(sh), sh # <<>>, OwnedIn(sh, NoLib, {})
  PROVE  \A x \in DOMAIN sh[1].table["command"] :
           sh[1].table["command"][x].owner <= Len(sh[1].plugins)
<1> DEFINE s == sh[1]
           n == Len(s.plugins)
<1>1. 1 \in DOMAIN sh /\ ShellOK(s)
  BY ShellsFacts DEF ShellsOK
<1>2. "command" \in Kinds
  BY DEF Kinds, Indexed
<1>3. n \in Nat /\ DOMAIN s.plugins = 1 .. n /\ \A x \in DOMAIN s.table["command"] : s.table["command"][x] \in Entry
  BY <1>1, <1>2, ShellFacts
<1>4. EntriesOwned(s, 1 = Len(sh), NoLib, {})
  BY <1>1 DEF OwnedIn
<1> HIDE DEF n
<1>5. SUFFICES ASSUME NEW x \in DOMAIN s.table["command"] PROVE s.table["command"][x].owner <= n
  BY DEF n
<1> DEFINE e == s.table["command"][x]
<1>6. e.fn \in Libs \cup {NoLib}
  BY <1>3 DEF Entry
<1>7. e.fn = NoLib => e.owner = 0
  BY <1>2, <1>4 DEF EntriesOwned, OwnedBy
<1>8. e.fn \in Libs => e.owner \in 1 .. n
  BY <1>2, <1>3, <1>4, BoundsAssumption DEF EntriesOwned, OwnedBy
<1> QED
  BY <1>3, <1>6, <1>7, <1>8

\* A step that only replaces a clone, or that makes the cache stale or leaves
\* the main shell as it was, keeps the cache right.
LEMMA DirtiesKeeps ==
  ASSUME Cached, Dirties, failed' = failed, NEW n, NEW u, Becomes(shells, shells', n, u)
  PROVE  Cached'
<1>1. CASE Main
  <2>1. cache' = Stale
    BY <1>1 DEF Dirties
  <2> QED
    BY <2>1 DEF Cached, Stale
<1>2. CASE ~ Main
  <2>1. cache' = cache /\ Len(shells) = n /\ n \in Nat \ {0} /\ n # 1 /\ Len(shells') = n /\ shells # <<>>
    BY <1>2 DEF Dirties, Main, Becomes
  <2>2. shells'[1] = shells[1]
    BY <2>1 DEF Becomes
  <2> QED
    BY <2>1, <2>2 DEF Cached, Stale
<1> QED
  BY <1>1, <1>2

-----------------------------------------------------------------------------
(* The steps of a load *)

\* dlopen, before the plugin is known to be acceptable.
LEMMA LoadOpensStep ==
  ASSUME PluginsInv, shells # <<>>, NEW l \in Libs, LoadOpens(l)
  PROVE  PluginsInv'
<1>1. /\ loading = NoLib /\ shells' = shells /\ failed' = failed /\ cache' = cache
      /\ ph' = "query" /\ loading' = l /\ l # NoLib /\ opened' = [opened EXCEPT ![l] = @ + 1]
      /\ ph = "ready"
  BY BoundsAssumption DEF PluginsInv, Types, LoadOpens
<1>2. Types'
  BY <1>1 DEF PluginsInv, Types
<1>3. ShellsOK(shells)' /\ HeldIn(shells)'
  BY <1>1 DEF PluginsInv
<1>4. Filling'
  BY <1>1 DEF Filling, LoadOpens, Slot, Current
<1>5. OwnedIn(shells, Registering, failed)'
  <2>1. Registering = NoLib /\ Registering' = NoLib
    BY <1>1 DEF Registering
  <2> QED
    BY <1>1, <2>1 DEF PluginsInv
<1>6. Opened'
  <2>1. SUFFICES ASSUME NEW k \in Libs
                 PROVE  opened'[k] = Cardinality(Openers(shells, k)) + (IF l = k THEN 1 ELSE 0)
    BY <1>1 DEF Opened
  <2> DEFINE c == Cardinality(Openers(shells, k))
  <2>2. opened[k] = c + 0 /\ c \in Nat
    BY <1>1, BoundsAssumption, OpenersFinite DEF PluginsInv, Opened
  <2>3. opened'[k] = IF l = k THEN opened[k] + 1 ELSE opened[k]
    BY <1>1 DEF PluginsInv, Types
  <2> HIDE DEF c
  <2>4. opened'[k] = c + (IF l = k THEN 1 ELSE 0)
    BY <2>2, <2>3
  <2> QED
    BY <2>4 DEF c
<1>7. Cached'
  BY <1>1 DEF PluginsInv, Cached, Stale
<1> QED
  BY <1>2, <1>3, <1>4, <1>5, <1>6, <1>7 DEF PluginsInv

\* A library that is closed again is open as often as shells will close it.
LEMMA ClosesKeeps ==
  ASSUME PluginsInv, ph # "ready", Closes, Ready, shells' = shells, failed' \subseteq Libs
  PROVE  Types' /\ Filling' /\ Opened' /\ Registering' = NoLib /\ loading \in Libs
<1>1. /\ loading \in Libs /\ opened \in [Libs -> Int] /\ ph' = "ready" /\ loading' = NoLib
      /\ opened' = [opened EXCEPT ![loading] = @ - 1]
  BY DEF PluginsInv, Types, Closes, Ready
<1>2. opened' \in [Libs -> Int]
  BY <1>1
<1>3. Types' /\ Filling' /\ Registering' = NoLib
  BY <1>1, <1>2 DEF Types, Filling, Registering
<1>4. Opened'
  <2>1. SUFFICES ASSUME NEW k \in Libs PROVE opened'[k] = Cardinality(Openers(shells, k)) + 0
    BY <1>1, BoundsAssumption DEF Opened
  <2> DEFINE c == Cardinality(Openers(shells, k))
  <2>2. opened[k] = c + (IF loading = k THEN 1 ELSE 0) /\ c \in Nat
    BY OpenersFinite DEF PluginsInv, Opened
  <2>3. opened'[k] = IF loading = k THEN opened[k] - 1 ELSE opened[k]
    BY <1>1
  <2> HIDE DEF c
  <2>4. opened'[k] = c + 0
    BY <2>2, <2>3
  <2> QED
    BY <2>4 DEF c
<1> QED
  BY <1>1, <1>3, <1>4

\* A library without the entry points is closed again.
LEMMA LoadRejectedStep ==
  ASSUME PluginsInv, LoadRejected
  PROVE  PluginsInv'
<1>1. /\ ph = "query" /\ Closes /\ Ready /\ shells' = shells /\ failed' = failed /\ cache' = cache
      /\ failed \subseteq Libs
  BY DEF PluginsInv, Types, LoadRejected
<1>2. Types' /\ Filling' /\ Opened' /\ Registering' = NoLib
  BY <1>1, ClosesKeeps
<1>3. Registering = NoLib
  BY <1>1 DEF Registering
<1>4. ShellsOK(shells)' /\ HeldIn(shells)' /\ OwnedIn(shells, Registering, failed)'
  BY <1>1, <1>2, <1>3 DEF PluginsInv
<1>5. Cached'
  BY <1>1 DEF PluginsInv, Cached, Stale
<1> QED
  BY <1>2, <1>4, <1>5 DEF PluginsInv

\* The library is acceptable and its init starts to register.
LEMMA LoadInitStep ==
  ASSUME PluginsInv, LoadInit
  PROVE  PluginsInv'
<1>1. /\ ph = "query" /\ ph' = "init" /\ shells' = shells /\ failed' = failed /\ cache' = cache
      /\ opened' = opened /\ loading' = loading
  BY DEF LoadInit
<1>2. Types' /\ Filling' /\ Opened' /\ Cached'
  BY <1>1 DEF PluginsInv, Types, Filling, Opened, Cached, Stale, Slot, Current
<1>3. OwnedIn(shells, loading, failed \cup {})
  <2>1. OwnedIn(shells, NoLib, failed)
    BY <1>1 DEF PluginsInv, Registering
  <2> QED
    BY <2>1, OwnedAtRest
<1>4. failed \cup {} = failed /\ Registering' = loading
  BY <1>1 DEF Registering
<1>5. ShellsOK(shells)' /\ HeldIn(shells)' /\ OwnedIn(shells, Registering, failed)'
  BY <1>1, <1>3, <1>4 DEF PluginsInv
<1> QED
  BY <1>2, <1>5 DEF PluginsInv

\* A library whose init fails is closed; what it has registered stays.
LEMMA LoadFailsStep ==
  ASSUME PluginsInv, LoadFails
  PROVE  PluginsInv'
<1>1. /\ ph = "init" /\ Closes /\ Ready /\ shells' = shells /\ failed' = failed \cup {loading}
      /\ failed \subseteq Libs /\ loading \in Libs
  BY DEF PluginsInv, Types, LoadFails
<1>2. failed' \subseteq Libs /\ failed' # {}
  BY <1>1
<1>3. Types' /\ Filling' /\ Opened' /\ Registering' = NoLib
  BY <1>1, <1>2, ClosesKeeps
<1>4. OwnedIn(shells, NoLib, failed \cup {loading})
  <2>1. OwnedIn(shells, loading, failed)
    BY <1>1 DEF PluginsInv, Registering
  <2> QED
    BY <2>1, OwnedUnlessFailed
<1>5. ShellsOK(shells)' /\ HeldIn(shells)' /\ OwnedIn(shells, Registering, failed)'
  BY <1>1, <1>3, <1>4 DEF PluginsInv
<1>6. Cached'
  BY <1>2 DEF Cached
<1> QED
  BY <1>3, <1>5, <1>6 DEF PluginsInv

\* What any replacement of the last shell keeps, whose plugins are the same
LEMMA ReplacingStep ==
  ASSUME PluginsInv, NEW u, Becomes(shells, shells', Len(shells), u), SamePlugins(Current, u),
         Len(u.plugins) = Len(Current.plugins), Dirties,
         EntriesOwned(u, TRUE, Registering, failed), UNCHANGED <<opened, ph, loading, failed>>
  PROVE  PluginsInv'
<1> DEFINE n == Len(shells)
<1>1. Current = shells[n]
  BY DEF Becomes, Current
<1>2. Types' /\ Registering' = Registering /\ failed' = failed
  BY DEF PluginsInv, Types, Registering
<1>3. ShellsOK(shells)'
  BY DEF Becomes
<1>4. (\A l : Openers(shells', l) = Openers(shells, l)) /\ HeldIn(shells)'
  <2>1. (\A l : Openers(shells', l) = Openers(shells, l)) /\ (HeldIn(shells) => HeldIn(shells'))
    BY <1>1, ReplacingKeeps
  <2> QED
    BY <2>1 DEF PluginsInv
<1>5. Opened'
  BY <1>4 DEF PluginsInv, Opened
<1>6. OwnedIn(shells, Registering, failed)'
  <2>1. OwnedIn(shells', Registering, failed)
    <3>1. OwnedIn(shells, Registering, failed)
      BY DEF PluginsInv
    <3> QED
      BY <3>1, ReplacingOwned
  <2> QED
    BY <1>2, <2>1
<1>7. Filling'
  <2>1. Last(shells') = u /\ shells' # <<>>
    BY DEF Becomes
  <2> QED
    BY <2>1 DEF PluginsInv, Filling, Slot, Current, SamePlugins
<1>8. Cached'
  BY DirtiesKeeps DEF PluginsInv
<1> QED
  BY <1>2, <1>3, <1>4, <1>5, <1>6, <1>7, <1>8 DEF PluginsInv

\* An entry is stored in the last shell, and it has the owner that it should.
LEMMA StoringStep ==
  ASSUME PluginsInv, shells # <<>>, NEW k \in Kinds, NEW e \in Entry,
         Place(Current.table[k], k, e.name) # 0,
         Changes(Stored(Current, k, Place(Current.table[k], k, e.name), e)),
         OwnedBy(Current, e, TRUE, Registering, failed),
         Dirties, UNCHANGED <<opened, ph, loading, failed>>
  PROVE  PluginsInv'
<1> DEFINE s == Current
           u == Stored(s, k, Place(s.table[k], k, e.name), e)
<1>1. ShellsOK(shells) /\ ShellOK(s) /\ s = shells[Len(shells)] /\ Len(shells) \in DOMAIN shells
  BY ShellsFacts DEF PluginsInv, Current
<1>2. /\ ShellOK(u) /\ u.plugins = s.plugins
      /\ \A j \in Kinds : \A x \in DOMAIN u.table[j] :
           \/ u.table[j][x] = e /\ j = k
           \/ x \in DOMAIN s.table[j] /\ u.table[j][x] = s.table[j][x]
  BY <1>1, StoredOK
<1>3. shells' = [shells EXCEPT ![Len(shells)] = u]
  BY DEF Changes
<1> HIDE DEF u
<1>4. Becomes(shells, shells', Len(shells), u)
  BY <1>1, <1>2, <1>3, Replacing
<1>5. SamePlugins(s, u) /\ Len(u.plugins) = Len(s.plugins)
  BY <1>2 DEF SamePlugins
<1>6. EntriesOwned(u, TRUE, Registering, failed)
  <2>1. EntriesOwned(s, Len(shells) = Len(shells), Registering, failed)
    BY <1>1 DEF PluginsInv, OwnedIn
  <2>2. \A j \in Kinds : \A x \in DOMAIN s.table[j] : OwnedBy(s, s.table[j][x], TRUE, Registering, failed)
    BY <2>1 DEF EntriesOwned, OwnedBy
  <2>3. \A j \in Kinds : \A x \in DOMAIN u.table[j] : OwnedBy(s, u.table[j][x], TRUE, Registering, failed)
    BY <1>2, <2>2
  <2> QED
    BY <1>2, <2>3 DEF EntriesOwned, OwnedBy
<1> QED
  BY <1>4, <1>5, <1>6, ReplacingStep

\* A plugin under way registers an entry.
LEMMA RegisterStep ==
  ASSUME PluginsInv, shells # <<>>, NEW o \in Offered, Register(o[1], o[2])
  PROVE  PluginsInv'
<1> DEFINE k == o[1]
           n == o[2]
           e == [name |-> n, fn |-> loading, owner |-> Owner]
           m == Len(Current.plugins)
<1>1. k \in Kinds /\ n \in Names
  BY BoundsAssumption DEF Kinds, Indexed, Names
<1>2. /\ ph = "init" /\ Place(Current.table[k], k, n) # 0 /\ Dirties
      /\ Changes(Stored(Current, k, Place(Current.table[k], k, n), e))
      /\ UNCHANGED <<opened, ph, loading, failed>>
  BY DEF Register
<1>3. loading \in Libs /\ loading # NoLib /\ Registering = loading
  BY <1>2, BoundsAssumption DEF PluginsInv, Types, Registering
<1>4. m \in Nat /\ Owner = m + 1 /\ m + 1 <= MaxPlugins
  <2>1. ShellOK(Current)
    BY ShellsFacts DEF PluginsInv, Current
  <2> QED
    BY <1>2, <2>1, ShellFacts DEF PluginsInv, Filling, Owner, Slot
<1>5. Owner \in 0 .. MaxPlugins
  <2> HIDE DEF m
  <2> QED
    BY <1>4, BoundsAssumption
<1>6. e \in Entry /\ e.name = n
  BY <1>1, <1>3, <1>5 DEF Entry
<1>7. OwnedBy(Current, e, TRUE, Registering, failed)
  BY <1>3, <1>4 DEF OwnedBy
<1> HIDE DEF e, n, k
<1> QED
  BY <1>1, <1>2, <1>6, <1>7, StoringStep

\* extend defines a method in the shell that runs.
LEMMA ExtendStep ==
  ASSUME PluginsInv, shells # <<>>, NEW n \in Names, Extend(n)
  PROVE  PluginsInv'
<1> DEFINE e == [name |-> n, fn |-> NoLib, owner |-> 0]
           k == "extension"
<1>1. /\ Place(Current.table[k], k, n) # 0 /\ Dirties
      /\ Changes(Stored(Current, k, Place(Current.table[k], k, n), e))
      /\ UNCHANGED <<opened, ph, loading, failed>>
  BY DEF Extend, load
<1>2. k \in Kinds
  BY DEF Kinds
<1>3. 0 \in 0 .. MaxPlugins
  BY BoundsAssumption
<1>4. e \in Entry /\ e.name = n
  BY <1>3 DEF Entry
<1>5. OwnedBy(Current, e, TRUE, Registering, failed)
  <2>1. NoLib \notin Libs
    BY BoundsAssumption
  <2> QED
    BY <2>1 DEF OwnedBy
<1> HIDE DEF e, k
<1> QED
  BY <1>1, <1>2, <1>4, <1>5, StoringStep

\* plugin enable and plugin disable.
LEMMA SetActiveStep ==
  ASSUME PluginsInv, shells # <<>>, NEW p \in DOMAIN Current.plugins, NEW a \in BOOLEAN, SetActive(p, a)
  PROVE  PluginsInv'
<1> DEFINE s == Current
           u == [s EXCEPT !.plugins[p].active = a]
<1>1. ShellsOK(shells) /\ ShellOK(s) /\ s = shells[Len(shells)] /\ Len(shells) \in DOMAIN shells
  BY ShellsFacts DEF PluginsInv, Current
<1>2. shells' = [shells EXCEPT ![Len(shells)] = u] /\ Dirties /\ UNCHANGED <<opened, ph, loading, failed>>
  BY DEF SetActive, Changes, load
<1>3. /\ ShellOK(u) /\ u.table = s.table /\ DOMAIN u.plugins = DOMAIN s.plugins
      /\ Len(u.plugins) = Len(s.plugins)
      /\ \A q \in DOMAIN s.plugins : /\ u.plugins[q].lib = s.plugins[q].lib
                                     /\ u.plugins[q].handle = s.plugins[q].handle
  BY <1>1, ActiveOK
<1> HIDE DEF u
<1>4. Becomes(shells, shells', Len(shells), u)
  BY <1>1, <1>2, <1>3, Replacing
<1>5. SamePlugins(s, u)
  BY <1>3 DEF SamePlugins
<1>6. EntriesOwned(u, TRUE, Registering, failed)
  <2>1. EntriesOwned(s, Len(shells) = Len(shells), Registering, failed)
    BY <1>1 DEF PluginsInv, OwnedIn
  <2> QED
    BY <1>3, <2>1 DEF EntriesOwned, OwnedBy
<1> QED
  BY <1>2, <1>3, <1>4, <1>5, <1>6, ReplacingStep

\* A plugin whose init succeeds is counted and activated.
LEMMA LoadSucceedsStep ==
  ASSUME PluginsInv, shells # <<>>, LoadSucceeds
  PROVE  PluginsInv'
<1> DEFINE n == Len(shells)
           s == Current
           u == WithPlugin(s, loading)
           m == Len(s.plugins)
<1>1. ShellsOK(shells) /\ ShellOK(s) /\ s = shells[n] /\ n \in DOMAIN shells
  BY ShellsFacts DEF PluginsInv, Current
<1>2. /\ ph = "init" /\ ph' = "ready" /\ loading' = NoLib /\ opened' = opened /\ cache' = cache
      /\ failed' = failed /\ shells' = [shells EXCEPT ![n] = u]
  BY DEF LoadSucceeds, Ready, Changes, WithPlugin
<1>3. loading \in Libs /\ Registering = loading /\ Registering' = NoLib /\ NoLib \notin Libs
  BY <1>2, BoundsAssumption DEF PluginsInv, Types, Registering
<1>4. \A q \in DOMAIN s.plugins : s.plugins[q].lib # loading
  BY <1>2 DEF PluginsInv, Filling
<1>5. /\ ShellOK(u) /\ u.table = s.table
      /\ m \in Nat /\ DOMAIN s.plugins = 1 .. m /\ DOMAIN u.plugins = 1 .. m + 1
      /\ Len(u.plugins) = m + 1
      /\ u.plugins[m + 1].lib = loading /\ u.plugins[m + 1].handle = TRUE
      /\ \A q \in 1 .. m : u.plugins[q] = s.plugins[q]
  <2>1. OneMore(s, u, loading, m)
    <3> HIDE DEF s
    <3> QED
      BY <1>1, <1>3, <1>4, CountedOK
  <2> QED
    BY <2>1 DEF OneMore
<1> HIDE DEF u
<1>6. Becomes(shells, shells', n, u)
  BY <1>1, <1>2, <1>5, Replacing
<1>m. m = Len(s.plugins)
  OBVIOUS
<1> HIDE DEF m
<1>7. Types' /\ Filling'
  BY <1>2, <1>3 DEF PluginsInv, Types, Filling
<1>8. ShellsOK(shells)'
  BY <1>6 DEF Becomes
<1>9. \A q \in 1 .. m + 1 : q = m + 1 \/ q \in 1 .. m
  BY <1>5
<1>10. 1 .. m \subseteq 1 .. m + 1 /\ m + 1 \in 1 .. m + 1
  BY <1>5
<1>11. \A l : Holds(u, l) <=> l = loading \/ Holds(s, l)
  BY <1>5, <1>9, <1>10 DEF Holds
<1>12. ~ Holds(s, loading)
  BY <1>4 DEF Holds
<1>13. /\ n \in Nat \ {0} /\ DOMAIN shells = 1 .. n /\ DOMAIN shells' = 1 .. n
       /\ shells'[n] = u /\ (\A i \in 1 .. n : i # n => shells'[i] = shells[i]) /\ Len(shells') = n
  BY <1>6 DEF Becomes
<1> HIDE DEF n, s
<1>14. /\ Openers(shells', loading) = Openers(shells, loading) \cup {n} /\ n \notin Openers(shells, loading)
       /\ \A l : l # loading => Openers(shells', l) = Openers(shells, l)
  BY <1>1, <1>11, <1>12, <1>13 DEF Openers
<1>15. Opened'
  <2>1. SUFFICES ASSUME NEW l \in Libs PROVE opened[l] = Cardinality(Openers(shells', l)) + 0
    BY <1>2, <1>3 DEF Opened
  <2> DEFINE c == Cardinality(Openers(shells, l))
             d == Cardinality(Openers(shells', l))
  <2>2. opened[l] = c + (IF loading = l THEN 1 ELSE 0) /\ c \in Nat /\ IsFiniteSet(Openers(shells, l))
    BY OpenersFinite DEF PluginsInv, Opened
  <2>3. d = IF loading = l THEN c + 1 ELSE c
    <3>1. CASE loading = l
      <4>1. d = c + 1
        BY <1>14, <2>2, <3>1, FS_AddElement
      <4> QED
        BY <3>1, <4>1
    <3>2. CASE loading # l
      BY <1>14, <3>2
    <3> QED
      BY <3>1, <3>2
  <2> HIDE DEF c, d
  <2>4. opened[l] = d + 0
    BY <2>2, <2>3
  <2> QED
    BY <2>4 DEF d
<1>16. HeldIn(shells)'
  <2>1. SUFFICES ASSUME NEW i \in 1 .. n, NEW q \in DOMAIN shells'[i].plugins
                 PROVE  \E j \in 1 .. i : Holds(shells'[j], shells'[i].plugins[q].lib)
    BY <1>13 DEF HeldIn
  <2>2. \A j \in 1 .. n : \A l : Holds(shells[j], l) => Holds(shells'[j], l)
    BY <1>1, <1>11, <1>13
  <2>3. CASE i = n /\ q = m + 1
    <3>1. i \in 1 .. i /\ Holds(shells'[i], shells'[i].plugins[q].lib)
      BY <2>3, <1>5, <1>11, <1>13
    <3> QED
      BY <3>1
  <2>4. CASE ~ (i = n /\ q = m + 1)
    <3>1. q \in DOMAIN shells[i].plugins /\ shells'[i].plugins[q].lib = shells[i].plugins[q].lib
      BY <2>4, <1>1, <1>5, <1>9, <1>13
    <3>2. PICK j \in 1 .. i : Holds(shells[j], shells[i].plugins[q].lib)
      BY <3>1, <1>13 DEF PluginsInv, HeldIn
    <3>3. j \in 1 .. n
      BY <1>13
    <3> QED
      BY <2>2, <3>1, <3>2, <3>3
  <2> QED
    BY <2>3, <2>4
<1>17. OwnedIn(shells, Registering, failed)'
  <2>1. SUFFICES ASSUME NEW i \in 1 .. n PROVE EntriesOwned(shells'[i], i = n, NoLib, failed)
    BY <1>2, <1>3, <1>13 DEF OwnedIn
  <2>2. EntriesOwned(shells[i], i = n, loading, failed)
    BY <1>3, <1>13 DEF PluginsInv, OwnedIn, n
  <2>3. CASE i = n
    <3>1. shells'[i] = u /\ shells[i] = s
      BY <2>3, <1>1, <1>13
    <3>2. SUFFICES ASSUME NEW k \in Kinds, NEW x \in DOMAIN s.table[k]
                   PROVE  OwnedBy(u, s.table[k][x], i = n, NoLib, failed)
      BY <3>1, <1>5 DEF EntriesOwned
    <3> DEFINE e == s.table[k][x]
    <3>3. OwnedBy(s, e, i = n, loading, failed)
      BY <2>2, <3>1 DEF EntriesOwned
    <3> HIDE DEF e
    <3>4. e.fn \in Libs \ failed => e.owner \in DOMAIN u.plugins /\ u.plugins[e.owner].lib = e.fn
      BY <3>3, <1>m, <1>5, <1>10 DEF OwnedBy
    <3>5. OwnedBy(u, e, i = n, NoLib, failed)
      BY <3>3, <3>4 DEF OwnedBy
    <3> QED
      BY <3>5 DEF e
  <2>4. CASE i # n
    <3>1. shells'[i] = shells[i]
      BY <2>4, <1>13
    <3> QED
      BY <2>2, <2>4, <3>1 DEF EntriesOwned, OwnedBy
  <2> QED
    BY <2>3, <2>4
<1>18. Cached'
  <2>1. SUFFICES ASSUME failed = {}, cache # Stale
                 PROVE  /\ cache = Visible(shells'[1])
                        /\ n = 1 => \A x \in DOMAIN shells'[1].table["command"] :
                                      shells'[1].table["command"][x].owner <= Len(shells'[1].plugins)
    BY <1>2, <1>13 DEF Cached, Stale
  <2>2. /\ cache = Visible(shells[1])
        /\ n = 1 => \A x \in DOMAIN shells[1].table["command"] :
                      shells[1].table["command"][x].owner <= Len(shells[1].plugins)
    BY <2>1 DEF PluginsInv, Cached, n
  <2>3. CASE n # 1
    BY <2>2, <2>3, <1>13
  <2>4. CASE n = 1
    <3>1. shells'[1] = u /\ shells[1] = s
      BY <2>4, <1>1, <1>13
    <3>2. \A x \in DOMAIN s.table["command"] : s.table["command"][x].owner <= m
      BY <2>2, <2>4, <3>1, <1>m
    <3>3. Visible(u) = Visible(s)
      BY <1>1, <1>5, <1>m, <3>2, CountedVisible
    <3>4. \A x \in DOMAIN s.table["command"] : s.table["command"][x].owner <= m + 1
      <4>1. \A x \in DOMAIN s.table["command"] : s.table["command"][x] \in Entry
        <5>1. "command" \in Kinds
          BY DEF Kinds, Indexed
        <5> QED
          BY <1>1, <5>1, ShellFacts
      <4>2. \A e \in Entry : e.owner \in Nat
        BY BoundsAssumption DEF Entry
      <4> QED
        BY <1>5, <3>2, <4>1, <4>2
    <3> QED
      BY <2>2, <3>1, <3>3, <3>4, <1>5
  <2> QED
    BY <2>3, <2>4
<1> QED
  BY <1>7, <1>8, <1>15, <1>16, <1>17, <1>18 DEF PluginsInv

-----------------------------------------------------------------------------
(* The other steps *)

\* The completion cache is filled, or served as it is.
LEMMA CompleteStep ==
  ASSUME PluginsInv, shells # <<>>, Complete
  PROVE  PluginsInv'
<1>1. /\ Len(shells) = 1 /\ ph = "ready" /\ shells' = shells /\ opened' = opened /\ failed' = failed
      /\ ph' = ph /\ loading' = loading
  BY DEF Complete, load, Main
<1>2. Types' /\ ShellsOK(shells)' /\ Filling' /\ HeldIn(shells)' /\ Opened'
  BY <1>1 DEF PluginsInv, Types, Filling, Opened, Slot, Current
<1>3. Registering = NoLib /\ Registering' = NoLib
  BY <1>1 DEF Registering
<1>4. OwnedIn(shells, NoLib, failed)
  BY <1>3 DEF PluginsInv
<1>5. OwnedIn(shells, Registering, failed)'
  BY <1>1, <1>3, <1>4
<1>6. Cached'
  <2>1. SUFFICES ASSUME failed = {}, cache' # Stale
                 PROVE  /\ cache' = Visible(shells[1])
                        /\ \A x \in DOMAIN shells[1].table["command"] :
                             shells[1].table["command"][x].owner <= Len(shells[1].plugins)
    BY <1>1 DEF Cached, Stale
  <2>2. ShellsOK(shells) /\ Current = shells[1] /\ ShellOK(Current)
    BY <1>1, ShellsFacts DEF PluginsInv, Current
  <2>3. \A x \in DOMAIN shells[1].table["command"] :
          shells[1].table["command"][x].owner <= Len(shells[1].plugins)
    BY <1>4, <2>1, <2>2, OwnersCounted
  <2>4. CASE cache = Stale
    <3>1. cache' = {Current.table["command"][Current.index["command"][i]].name :
                      i \in {j \in DOMAIN Current.index["command"] :
                               Active(Current, Current.table["command"][Current.index["command"][j]])}}
      BY <2>4 DEF Complete
    <3>2. cache' = Visible(Current)
      BY <2>2, <3>1, CollectsVisible
    <3> QED
      BY <2>2, <2>3, <3>2
  <2>5. CASE cache # Stale
    <3>1. cache' = cache
      BY <2>5 DEF Complete
    <3>2. cache = Visible(shells[1])
      BY <2>1, <2>5 DEF PluginsInv, Cached
    <3> QED
      BY <2>3, <3>1, <3>2
  <2> QED
    BY <2>4, <2>5
<1> QED
  BY <1>2, <1>5, <1>6 DEF PluginsInv

\* A substitution clones the shell without its handles.
LEMMA CloneStep ==
  ASSUME PluginsInv, shells # <<>>, Clone
  PROVE  PluginsInv'
<1>1. /\ ph = "ready" /\ shells' = Append(shells, Copied(Last(shells))) /\ opened' = opened
      /\ failed' = failed /\ ph' = ph /\ loading' = loading /\ cache' = cache
  BY DEF Clone, load, Current
<1>2. Types' /\ Filling'
  BY <1>1 DEF PluginsInv, Types, Filling
<1>3. Registering = NoLib /\ Registering' = NoLib
  BY <1>1 DEF Registering
<1>4. /\ ShellsOK(shells') /\ shells' # <<>> /\ Len(shells') # 1 /\ shells'[1] = shells[1]
      /\ \A l : Openers(shells', l) = Openers(shells, l)
      /\ HeldIn(shells) => HeldIn(shells')
      /\ \A bad : OwnedIn(shells, NoLib, bad) => OwnedIn(shells', NoLib, bad)
  BY <1>1, Cloning DEF PluginsInv
<1>5. ShellsOK(shells)' /\ HeldIn(shells)' /\ OwnedIn(shells, Registering, failed)'
  BY <1>1, <1>3, <1>4 DEF PluginsInv
<1>6. Opened'
  BY <1>1, <1>4 DEF PluginsInv, Opened
<1>7. Cached'
  BY <1>1, <1>4 DEF PluginsInv, Cached, Stale
<1> QED
  BY <1>2, <1>5, <1>6, <1>7 DEF PluginsInv

\* A shell is destroyed and closes the handles of its own.
LEMMA DestroyStep ==
  ASSUME PluginsInv, shells # <<>>, Destroy
  PROVE  PluginsInv'
<1> DEFINE n == Len(shells)
<1>1. /\ ph = "ready" /\ shells' = Front(shells) /\ opened' = [l \in Libs |-> opened[l] - Handles(Current, l)]
      /\ failed' = failed /\ ph' = ph /\ loading' = loading /\ cache' = cache
  BY DEF Destroy, load
<1>2. Registering = NoLib /\ Registering' = NoLib /\ loading = NoLib /\ NoLib \notin Libs
  BY <1>1, BoundsAssumption DEF Registering, PluginsInv, Types
<1>3. /\ ShellsOK(shells') /\ (shells' # <<>> => shells'[1] = shells[1] /\ n # 1)
      /\ \A l : /\ Openers(shells', l) = Openers(shells, l) \ {n}
                /\ n \in Openers(shells, l) <=> Holds(Last(shells), l)
      /\ HeldIn(shells) => HeldIn(shells')
      /\ \A bad : OwnedIn(shells, NoLib, bad) => OwnedIn(shells', NoLib, bad)
  BY <1>1, Destroying DEF PluginsInv
<1>4. ShellsOK(shells)' /\ HeldIn(shells)' /\ OwnedIn(shells, Registering, failed)'
  BY <1>1, <1>2, <1>3 DEF PluginsInv
<1>5. ASSUME NEW l \in Libs
      PROVE  /\ opened'[l] = Cardinality(Openers(shells', l))
             /\ opened'[l] \in Int
  <2> DEFINE c == Cardinality(Openers(shells, l))
             d == Cardinality(Openers(shells', l))
  <2>1. opened[l] = c + 0 /\ c \in Nat /\ IsFiniteSet(Openers(shells, l))
    BY <1>2, OpenersFinite DEF PluginsInv, Opened
  <2>2. Handles(Current, l) = IF Holds(Last(shells), l) THEN 1 ELSE 0
    BY ShellsFacts, HandlesFacts DEF PluginsInv, Current
  <2>3. opened'[l] = opened[l] - Handles(Current, l)
    BY <1>1
  <2>4. d = IF Holds(Last(shells), l) THEN c - 1 ELSE c
    <3>1. CASE Holds(Last(shells), l)
      <4>1. d = c - 1
        BY <1>3, <2>1, <3>1, FS_RemoveElement
      <4> QED
        BY <3>1, <4>1
    <3>2. CASE ~ Holds(Last(shells), l)
      <4>1. Openers(shells', l) = Openers(shells, l)
        BY <1>3, <3>2
      <4> QED
        BY <3>2, <4>1
    <3> QED
      BY <3>1, <3>2
  <2> HIDE DEF c, d
  <2>5. opened'[l] = d /\ opened'[l] \in Int
    BY <2>1, <2>2, <2>3, <2>4
  <2> QED
    BY <2>5 DEF d
<1>6. opened' = [l \in Libs |-> opened'[l]]
  BY <1>1
<1>7. Types' /\ Filling'
  BY <1>1, <1>2, <1>5, <1>6 DEF PluginsInv, Types, Filling
<1>8. Opened'
  <2>1. SUFFICES ASSUME NEW l \in Libs PROVE opened'[l] = Cardinality(Openers(shells', l)) + 0
    BY <1>1, <1>2 DEF Opened
  <2> DEFINE d == Cardinality(Openers(shells', l))
  <2>2. opened'[l] = d /\ d \in Int
    BY <1>5
  <2> HIDE DEF d
  <2>3. opened'[l] = d + 0
    BY <2>2
  <2> QED
    BY <2>3 DEF d
<1>9. Cached'
  <2>1. SUFFICES ASSUME failed = {}, cache # Stale, shells' # <<>>
                 PROVE  /\ cache = Visible(shells'[1])
                        /\ \A x \in DOMAIN shells'[1].table["command"] :
                             shells'[1].table["command"][x].owner <= Len(shells'[1].plugins)
    BY <1>1 DEF Cached, Stale
  <2>2. OwnedIn(shells', NoLib, {})
    BY <1>1, <1>2, <1>4, <2>1
  <2>3. \A x \in DOMAIN shells'[1].table["command"] :
          shells'[1].table["command"][x].owner <= Len(shells'[1].plugins)
    BY <1>3, <2>1, <2>2, OwnersCounted
  <2>4. cache = Visible(shells[1]) /\ shells'[1] = shells[1]
    BY <1>3, <2>1 DEF PluginsInv, Cached
  <2> QED
    BY <2>3, <2>4
<1> QED
  BY <1>4, <1>7, <1>8, <1>9 DEF PluginsInv

-----------------------------------------------------------------------------
\* The shell starts with its built-ins registered and no library open.
LEMMA InitInv == Init => PluginsInv
<1>1. SUFFICES ASSUME Init PROVE PluginsInv
  OBVIOUS
<1> DEFINE c == Cardinality(Builtins)
<1>2. PICK order \in [1 .. c -> Builtins] :
        /\ \A i, j \in DOMAIN order : order[i] = order[j] => i = j
        /\ shells = <<[table   |-> [k \in Kinds |-> IF k \in Indexed THEN Registered(order) ELSE <<>>],
                       index   |-> [k \in Indexed |-> Rebuilt(Registered(order))],
                       plugins |-> <<>>]>>
  BY <1>1 DEF Init
<1> DEFINE t == Registered(order)
           s == [table   |-> [k \in Kinds |-> IF k \in Indexed THEN t ELSE <<>>],
                 index   |-> [k \in Indexed |-> Rebuilt(t)],
                 plugins |-> <<>>]
<1>3. c \in Nat
  <2>1. Builtins \subseteq 1 .. MaxName /\ IsFiniteSet(1 .. MaxName)
    BY BoundsAssumption, FS_Interval
  <2> QED
    BY <2>1, FS_Subset, FS_CardinalityType
<1> HIDE DEF c
<1>4. t \in [1 .. c -> Entry] /\ \A x \in 1 .. c : t[x].name = order[x] /\ t[x].owner = 0 /\ t[x].fn = NoLib
  <2>1. \A x \in 1 .. c : order[x] \in Names
    BY BoundsAssumption DEF Names
  <2>2. 0 \in 0 .. MaxPlugins
    BY BoundsAssumption
  <2> QED
    BY <2>1, <2>2 DEF Registered, Entry
<1> HIDE DEF t
<1>5. t \in Seq(Entry) /\ DOMAIN t = 1 .. c
  BY <1>3, <1>4, IsASeq
<1>6. Distinct(t)
  BY <1>2, <1>4, <1>5 DEF Distinct
<1>7. Rebuilt(t) \in Seq(Nat)
  <2>1. Sorts(t, Rebuilt(t), Len(t)) /\ Len(t) \in Nat
    BY <1>5, <1>6, RebuiltSorts, LenProperties
  <2>2. Rebuilt(t) \in [1 .. Len(t) -> Nat]
    BY <2>1 DEF Sorts
  <2> QED
    BY <2>1, <2>2, IsASeq
<1>8. /\ s.table = [k \in Kinds |-> IF k \in Indexed THEN t ELSE <<>>]
      /\ s.index = [k \in Indexed |-> Rebuilt(t)] /\ s.plugins = <<>>
  OBVIOUS
<1>9. s \in Shell
  <2>1. [k \in Kinds |-> IF k \in Indexed THEN t ELSE <<>>] \in [Kinds -> Seq(Entry)]
    BY <1>5
  <2>2. [k \in Indexed |-> Rebuilt(t)] \in [Indexed -> Seq(Nat)]
    BY <1>7
  <2> QED
    BY <2>1, <2>2 DEF Shell
<1> HIDE DEF s
<1>10. /\ \A k \in Indexed : s.table[k] = t /\ s.index[k] = Rebuilt(t)
       /\ \A k \in Kinds : s.table[k] = t \/ s.table[k] = <<>>
  BY <1>8 DEF Kinds
<1>11. ShellOK(s)
  BY <1>6, <1>8, <1>9, <1>10 DEF ShellOK
<1>12. shells = <<s>>
  BY <1>2 DEF s, t
<1>13. shells \in Seq(Shell) /\ Len(shells) = 1 /\ DOMAIN shells = {1} /\ shells[1] = s
  BY <1>9, <1>12
<1>14. ShellsOK(shells)
  BY <1>11, <1>13 DEF ShellsOK
<1>15. Types /\ Filling
  BY <1>1, BoundsAssumption DEF Init, Types, Filling
<1>16. OwnedIn(shells, Registering, failed)
  <2>1. \A k \in Kinds : \A x \in DOMAIN s.table[k] : s.table[k][x].owner = 0 /\ s.table[k][x].fn = NoLib
    <3>1. DOMAIN <<>> = {}
      OBVIOUS
    <3>2. \A x \in DOMAIN t : t[x].owner = 0 /\ t[x].fn = NoLib
      BY <1>4, <1>5
    <3>3. SUFFICES ASSUME NEW k \in Kinds, NEW x \in DOMAIN s.table[k]
                   PROVE  s.table[k][x].owner = 0 /\ s.table[k][x].fn = NoLib
      OBVIOUS
    <3>4. s.table[k] = t
      BY <1>10, <3>1
    <3> QED
      BY <3>2, <3>4
  <2>2. NoLib \notin Libs
    BY BoundsAssumption
  <2> QED
    BY <1>13, <2>1, <2>2 DEF OwnedIn, EntriesOwned, OwnedBy
<1>17. DOMAIN s.plugins = {}
  BY <1>8
<1>18. HeldIn(shells)
  BY <1>13, <1>17 DEF HeldIn
<1>19. Opened
  <2>1. \A l : Openers(shells, l) = {}
    BY <1>13, <1>17 DEF Openers, Holds
  <2>2. \A l \in Libs : opened[l] = 0 /\ loading # l
    BY <1>1, BoundsAssumption DEF Init
  <2>3. Cardinality({}) = 0
    BY FS_EmptySet
  <2> QED
    BY <2>1, <2>2, <2>3 DEF Opened
<1>20. Cached
  BY <1>1 DEF Init, Cached
<1> QED
  BY <1>14, <1>15, <1>16, <1>18, <1>19, <1>20 DEF PluginsInv

\* One case for each action.
LEMMA NextInv == PluginsInv /\ [Next]_vars => PluginsInv'
<1>1. SUFFICES ASSUME PluginsInv, [Next]_vars PROVE PluginsInv'
  OBVIOUS
<1>2. CASE UNCHANGED vars
  BY <1>1, <1>2 DEF vars, PluginsInv, Types, Filling, Registering, Opened, Cached, Stale, Slot, Current
<1>3. CASE Next
  <2>1. shells # <<>>
    BY <1>3 DEF Next
  <2>2. CASE \E l \in Libs : LoadOpens(l)
    BY <1>1, <2>1, <2>2, LoadOpensStep
  <2>3. CASE LoadRejected
    BY <1>1, <2>3, LoadRejectedStep
  <2>4. CASE LoadInit
    BY <1>1, <2>4, LoadInitStep
  <2>5. CASE LoadSucceeds
    BY <1>1, <2>1, <2>5, LoadSucceedsStep
  <2>6. CASE LoadFails
    BY <1>1, <2>6, LoadFailsStep
  <2>7. CASE \E o \in Offered : Register(o[1], o[2])
    BY <1>1, <2>1, <2>7, RegisterStep
  <2>8. CASE \E i \in DOMAIN Current.plugins, a \in BOOLEAN : SetActive(i, a)
    BY <1>1, <2>1, <2>8, SetActiveStep
  <2>9. CASE \E o \in Offered : o[1] = "extension" /\ Extend(o[2])
    <3>1. PICK o \in Offered : Extend(o[2])
      BY <2>9
    <3>2. o[2] \in Names
      BY BoundsAssumption DEF Names
    <3> QED
      BY <1>1, <2>1, <3>1, <3>2, ExtendStep
  <2>10. CASE Complete
    BY <1>1, <2>1, <2>10, CompleteStep
  <2>11. CASE Clone
    BY <1>1, <2>1, <2>11, CloneStep
  <2>12. CASE Destroy
    BY <1>1, <2>1, <2>12, DestroyStep
  <2> QED
    BY <1>3, <2>2, <2>3, <2>4, <2>5, <2>6, <2>7, <2>8, <2>9, <2>10, <2>11, <2>12 DEF Next
<1> QED
  BY <1>1, <1>2, <1>3

\* The registry, the plugins and the cache are always in order, whatever is
\* loaded, rejected, enabled, extended, cloned and destroyed (shell.c, plugin.c).
THEOREM RegistryInOrder == Spec => []PluginsInv
<1>1. Init => PluginsInv
  BY InitInv
<1>2. PluginsInv /\ [Next]_vars => PluginsInv'
  BY NextInv
<1> QED
  BY <1>1, <1>2, PTL DEF Spec

\* find_name_index_entry finds exactly the names that the table holds, in the
\* shell and in every clone: the index is always the insertion sort of a table
\* without duplicates, and the binary search over it is exact (shell.c:293).
THEOREM FindsExactly == Spec => []FindExact
<1>1. ASSUME PluginsInv PROVE FindExact
  <2>1. SUFFICES ASSUME NEW i \in DOMAIN shells, NEW k \in Indexed, NEW n \in Names
                 PROVE  LET p == Search(shells[i].table[k], shells[i].index[k], n)
                        IN  Holding(shells[i].table[k], n) = (IF p = 0 THEN {} ELSE {p})
    BY DEF FindExact
  <2>2. ShellOK(shells[i])
    BY <1>1 DEF PluginsInv, ShellsOK
  <2>3. k \in Kinds /\ n \in Int
    BY BoundsAssumption DEF Kinds, Names
  <2>4. /\ shells[i].table[k] \in Seq(Entry) /\ Distinct(shells[i].table[k])
        /\ shells[i].index[k] = Rebuilt(shells[i].table[k])
    BY <2>2, <2>3, ShellFacts
  <2> QED
    BY <2>3, <2>4, SearchExact
<1> QED
  BY <1>1, RegistryInOrder, PTL

\* The dlopen count of a library is the number of shells that will close it and
\* one for a load under way: neither rejected or failed loads nor the plugins of
\* substitutions leak a library or close one twice (plugin.c:281, shell.c:3595).
THEOREM NeitherLeakedNorClosedTwice == Spec => []OpenCount
<1>1. ASSUME PluginsInv PROVE OpenCount
  <2>1. SUFFICES ASSUME NEW l \in Libs
                 PROVE  opened[l] = Cardinality({i \in DOMAIN shells : Handles(shells[i], l) = 1})
                                      + (IF loading = l THEN 1 ELSE 0)
    BY DEF OpenCount
  <2>2. \A i \in DOMAIN shells : Handles(shells[i], l) = 1 <=> Holds(shells[i], l)
    BY <1>1, HandlesFacts DEF PluginsInv, ShellsOK
  <2>3. {i \in DOMAIN shells : Handles(shells[i], l) = 1} = Openers(shells, l)
    BY <2>2 DEF Openers
  <2> QED
    BY <1>1, <2>3 DEF PluginsInv, Opened
<1> QED
  BY <1>1, RegistryInOrder, PTL

\* What a lookup finds is code of the shell or of a library that is open and
\* whose plugin owns the entry, unless that library's init has once failed: a
\* clone that is destroyed closes no library that another shell still calls
\* (shell.c:1253, shell.c:3748).
THEOREM FoundIsCallable == Spec => []CallableLoaded
<1>1. ASSUME PluginsInv PROVE CallableLoaded
  <2>1. SUFFICES ASSUME NEW i \in DOMAIN shells, NEW k \in Kinds, NEW n \in Names,
                        Find(shells[i], k, n) # 0,
                        shells[i].table[k][Find(shells[i], k, n)].fn \notin failed \cup {NoLib}
                 PROVE  LET s == shells[i]
                            e == s.table[k][Find(s, k, n)]
                        IN  opened[e.fn] > 0 /\ e.owner # 0 /\ s.plugins[e.owner].lib = e.fn
    BY DEF CallableLoaded
  <2> DEFINE s == shells[i]
             p == Find(s, k, n)
             e == s.table[k][p]
             m == Len(s.plugins)
  <2>2. ShellsOK(shells) /\ ShellOK(s)
    BY <1>1 DEF PluginsInv, ShellsOK
  <2>3. p \in DOMAIN s.table[k] /\ Active(s, e)
    BY <2>1, <2>2, FoundIsThere
  <2>4. e \in Entry /\ m \in Nat /\ DOMAIN s.plugins = 1 .. m
    BY <2>2, <2>3, ShellFacts
  <2>5. EntriesOwned(s, i = Len(shells), Registering, failed)
    BY <1>1 DEF PluginsInv, OwnedIn
  <2>6. OwnedBy(s, e, i = Len(shells), Registering, failed)
    BY <2>3, <2>5 DEF EntriesOwned
  <2>7. e.fn \in Libs \ failed
    BY <2>1, <2>4 DEF Entry
  <2> HIDE DEF e, m, p
  <2>8. e.owner \in 1 .. m /\ s.plugins[e.owner].lib = e.fn
    <3>1. e.owner # m + 1
      <4>1. e.owner = 0 \/ e.owner <= m
        BY <2>3 DEF Active, m
      <4> QED
        BY <2>4, <4>1
    <3> QED
      BY <2>4, <2>6, <2>7, <3>1 DEF OwnedBy, m
  <2>9. PICK j \in 1 .. i : Holds(shells[j], e.fn)
    BY <1>1, <2>4, <2>8 DEF PluginsInv, HeldIn
  <2>10. j \in Openers(shells, e.fn)
    <3>1. Len(shells) \in Nat /\ DOMAIN shells = 1 .. Len(shells)
      BY <2>2, ShellsFacts
    <3>2. j \in 1 .. Len(shells)
      BY <3>1
    <3> QED
      BY <2>9, <3>1, <3>2 DEF Openers
  <2>11. opened[e.fn] > 0
    <3> DEFINE c == Cardinality(Openers(shells, e.fn))
    <3>1. IsFiniteSet(Openers(shells, e.fn)) /\ c \in Nat
      BY <2>2, OpenersFinite
    <3>2. c # 0
      BY <2>10, <3>1, FS_EmptySet
    <3>3. opened[e.fn] = c + (IF loading = e.fn THEN 1 ELSE 0)
      BY <1>1, <2>7 DEF PluginsInv, Opened
    <3> HIDE DEF c
    <3> QED
      BY <3>1, <3>2, <3>3
  <2>12. e.owner # 0
    BY <2>4, <2>8
  <2> QED
    BY <2>8, <2>11, <2>12 DEF e, p
<1> QED
  BY <1>1, RegistryInOrder, PTL

\* A command completion that is served from the cache is the list of commands
\* that the main shell finds (shell.c:262, line_editor.c:720).
THEOREM CacheIsFresh == Spec => []CacheFresh
<1>1. ASSUME PluginsInv PROVE CacheFresh
  BY <1>1 DEF PluginsInv, Cached, CacheFresh
<1> QED
  BY <1>1, RegistryInOrder, PTL
=============================================================================
