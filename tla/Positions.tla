----------------------------- MODULE Positions -----------------------------
(***************************************************************************)
(* Facts about sets of numbers and about sequences that the proofs of       *)
(* several components use.  Induction is stated for a set, so that no       *)
(* operator has to be given.                                                *)
(***************************************************************************)
EXTENDS Integers, Sequences, SequenceTheorems, WellFoundedInduction, TLAPS

\* A set of positions that is not empty has a first and a last one.
LEMMA Extremes ==
  ASSUME NEW n \in Nat, NEW I, I \subseteq 1 .. n, I # {}
  PROVE  /\ \E i \in I : \A k \in I : i <= k
         /\ \E i \in I : \A k \in I : k <= i
<1> DEFINE R == {ss \in Nat \X Nat : ss[1] < ss[2]}
<1> DEFINE J == {n - i : i \in I}
<1>1. IsWellFoundedOn(R, Nat)
  BY NatLessThanWellFounded, Zenon DEF OpToRel
<1>2. \E i \in I : \A k \in I : ~ (<<k, i>> \in R)
  <2>1. I \subseteq Nat
    OBVIOUS
  <2>2. QED
    BY <1>1, <2>1, WFMin
<1>3. \A i \in I : i \in Nat /\ n - i \in Nat
  OBVIOUS
<1>4. \E x \in J : \A y \in J : ~ (<<y, x>> \in R)
  <2>1. J \subseteq Nat
    BY <1>3
  <2>2. PICK i \in I : TRUE
    OBVIOUS
  <2>3. n - i \in J
    BY <2>2
  <2>4. J # {}
    BY <2>3
  <2>5. QED
    BY <1>1, <2>1, <2>4, WFMin
<1>5. \A a, b \in Nat : <<a, b>> \in R <=> a < b
  OBVIOUS
<1> HIDE DEF R
<1>6. \E i \in I : \A k \in I : i <= k
  <2>1. PICK i \in I : \A k \in I : ~ (<<k, i>> \in R)
    BY <1>2
  <2>2. \A k \in I : i <= k
    <3>1. SUFFICES ASSUME NEW k \in I PROVE i <= k
      OBVIOUS
    <3>2. ~ (<<k, i>> \in R)
      BY <2>1
    <3>3. ~ (k < i)
      BY <3>2, <1>3, <1>5
    <3>4. i \in Int /\ k \in Int
      BY <1>3
    <3>5. QED
      BY <3>3, <3>4
  <2>3. QED
    BY <2>2
<1>7. \E i \in I : \A k \in I : k <= i
  <2>1. PICK x \in J : \A y \in J : ~ (<<y, x>> \in R)
    BY <1>4
  <2>2. PICK i \in I : x = n - i
    OBVIOUS
  <2>3. \A k \in I : k <= i
    <3>1. SUFFICES ASSUME NEW k \in I PROVE k <= i
      OBVIOUS
    <3>2. ~ (<<n - k, n - i>> \in R)
      BY <2>1, <2>2
    <3>3. ~ (n - k < n - i)
      BY <3>2, <1>3, <1>5
    <3>4. \A a, b, c \in Int : ~ (c - b < c - a) => b <= a
      OBVIOUS
    <3>5. n \in Int /\ i \in Int /\ k \in Int
      BY <1>3
    <3>6. QED
      BY <3>3, <3>4, <3>5
  <2>4. QED
    BY <2>3
<1>8. QED
  BY <1>6, <1>7

\* A set of numbers that has 0, and with a number below n the next one, has all
\* the numbers up to n.
LEMMA Induction ==
  ASSUME NEW n \in Nat, NEW S, 0 \in S, \A k \in 0 .. n - 1 : k \in S => k + 1 \in S
  PROVE  0 .. n \subseteq S
<1> DEFINE T == {k \in 1 .. n : k \notin S}
<1>1. SUFFICES ASSUME T # {} PROVE FALSE
  OBVIOUS
<1>2. PICK i \in T : \A k \in T : i <= k
  BY <1>1, Extremes
<1>3. i - 1 \in 0 .. n - 1 /\ i - 1 \in S
  BY <1>2
<1>4. i - 1 + 1 \in S
  BY <1>3
<1> QED
  BY <1>2, <1>4

\* A function of a set into itself can be applied n times in a row.
Iteration(f, S, a, g, n) ==
  f \in [0 .. n -> S] /\ f[0] = a /\ \A k \in 1 .. n : f[k] = g[f[k - 1]]

\* A function on a set can be iterated any number of times.
LEMMA Iterates ==
  ASSUME NEW S, NEW a \in S, NEW g \in [S -> S], NEW n \in Nat
  PROVE  \E f : Iteration(f, S, a, g, n)
<1> DEFINE T == {m \in 0 .. n : \E f : Iteration(f, S, a, g, m)}
<1>1. \E f : Iteration(f, S, a, g, 0)
  <2> WITNESS [k \in 0 .. 0 |-> a]
  <2> QED
    BY DEF Iteration
<1>2. ASSUME NEW m \in 0 .. n - 1, NEW f, Iteration(f, S, a, g, m)
      PROVE  \E h : Iteration(h, S, a, g, m + 1)
  <2> DEFINE h == [k \in 0 .. m + 1 |-> IF k = m + 1 THEN g[f[m]] ELSE f[k]]
  <2>1. f \in [0 .. m -> S] /\ f[0] = a /\ \A k \in 1 .. m : f[k] = g[f[k - 1]]
    BY <1>2 DEF Iteration
  <2>2. h \in [0 .. m + 1 -> S]
    BY <2>1
  <2>3. h[0] = a
    BY <2>1
  <2>4. \A k \in 1 .. m + 1 : h[k] = g[h[k - 1]]
    BY <2>1
  <2>5. Iteration(h, S, a, g, m + 1)
    BY <2>2, <2>3, <2>4 DEF Iteration
  <2> QED
    BY <2>5
<1>3. 0 \in T /\ \A k \in 0 .. n - 1 : k \in T => k + 1 \in T
  BY <1>1, <1>2
<1>4. n \in T
  <2> HIDE DEF T
  <2> QED
    BY <1>3, Induction
<1> QED
  BY <1>4

\* A function of the positions 0 .. n whose value at one is computed from the value
\* at the one before exists.
Recursion(f, S, a, g, n) ==
  f \in [0 .. n -> S] /\ f[0] = a /\ \A i \in 1 .. n : f[i] = g[i][f[i - 1]]

LEMMA Recurs ==
  ASSUME NEW n \in Nat, NEW S, NEW a \in S, NEW g \in [1 .. n -> [S -> S]]
  PROVE  \E f : Recursion(f, S, a, g, n)
<1> DEFINE T == {m \in 0 .. n : \E f : Recursion(f, S, a, g, m)}
<1>1. \E f : Recursion(f, S, a, g, 0)
  <2> WITNESS [k \in 0 .. 0 |-> a]
  <2> QED
    BY DEF Recursion
<1>2. ASSUME NEW m \in 0 .. n - 1, NEW f, Recursion(f, S, a, g, m)
      PROVE  \E h : Recursion(h, S, a, g, m + 1)
  <2> DEFINE h == [k \in 0 .. m + 1 |-> IF k = m + 1 THEN g[m + 1][f[m]] ELSE f[k]]
  <2>1. f \in [0 .. m -> S] /\ f[0] = a /\ \A k \in 1 .. m : f[k] = g[k][f[k - 1]]
    BY <1>2 DEF Recursion
  <2>2. h \in [0 .. m + 1 -> S]
    BY <2>1
  <2>3. h[0] = a
    BY <2>1
  <2>4. \A k \in 1 .. m + 1 : h[k] = g[k][h[k - 1]]
    BY <2>1
  <2>5. Recursion(h, S, a, g, m + 1)
    BY <2>2, <2>3, <2>4 DEF Recursion
  <2> QED
    BY <2>5
<1>3. 0 \in T /\ \A k \in 0 .. n - 1 : k \in T => k + 1 \in T
  BY <1>1, <1>2
<1>4. n \in T
  <2> HIDE DEF T
  <2>1. 0 .. n \subseteq T
    BY <1>3, Induction
  <2> QED
    BY <2>1
<1> QED
  BY <1>4

-----------------------------------------------------------------------------
(* Sequences, whatever their elements are *)

IsSeq(s) == \E S : s \in Seq(S)
Shorter(s) == SubSeq(s, 1, Len(s) - 1)

\* The positions of a sequence
LEMMA SeqFacts ==
  ASSUME NEW s, IsSeq(s)
  PROVE  Len(s) \in Nat /\ DOMAIN s = 1 .. Len(s) /\ (s # <<>> => Len(s) # 0)
<1>1. PICK S : s \in Seq(S)
  BY DEF IsSeq
<1> QED
  BY <1>1, LenProperties, EmptySeq

\* What Append does to each position of any sequence
LEMMA AppendAny ==
  ASSUME NEW s, IsSeq(s), NEW e
  PROVE  /\ IsSeq(Append(s, e))
         /\ Len(Append(s, e)) = Len(s) + 1 /\ DOMAIN Append(s, e) = 1 .. Len(s) + 1
         /\ Append(s, e)[Len(s) + 1] = e /\ \A i \in 1 .. Len(s) : Append(s, e)[i] = s[i]
         /\ Shorter(Append(s, e)) = s
<1>1. PICK S : s \in Seq(S)
  BY DEF IsSeq
<1> DEFINE T == S \cup {e}
           u == Append(s, e)
           n == Len(s)
<1>2. s \in Seq(T) /\ e \in T
  BY <1>1
<1> HIDE DEF T
<1>3. u \in Seq(T) /\ Len(u) = n + 1 /\ u[n + 1] = e /\ \A i \in 1 .. n : u[i] = s[i]
  BY <1>2, AppendProperties
<1>4. DOMAIN u = 1 .. n + 1
  BY <1>3, LenProperties
<1>5. n \in Nat
  BY <1>1, LenProperties
<1>6. Shorter(u) = s
  <2>1. Shorter(u) = SubSeq(u, 1, n)
    <3>1. Shorter(u) = SubSeq(u, 1, Len(u) - 1)
      BY DEF Shorter
    <3>2. Len(u) - 1 = n
      <4> HIDE DEF u, n
      <4> QED
        BY <1>3, <1>5
    <3> QED
      BY <3>1, <3>2
  <2> DEFINE v == SubSeq(u, 1, n)
  <2>2. v \in Seq(T) /\ Len(v) = n /\ \A i \in 1 .. n : v[i] = u[i]
    <3> HIDE DEF u, n
    <3> QED
      BY <1>3, <1>5
  <2> HIDE DEF v, u
  <2>3. v = s
    BY <1>2, <1>3, <2>2, SeqEqual
  <2> QED
    BY <2>1, <2>3 DEF v
<1> QED
  BY <1>3, <1>4, <1>6 DEF IsSeq

\* What dropping the last element does to each position
LEMMA ShorterAny ==
  ASSUME NEW s, IsSeq(s), s # <<>>
  PROVE  /\ IsSeq(Shorter(s))
         /\ Len(s) \in Nat \ {0} /\ DOMAIN s = 1 .. Len(s)
         /\ Len(Shorter(s)) = Len(s) - 1 /\ DOMAIN Shorter(s) = 1 .. Len(s) - 1
         /\ \A i \in 1 .. Len(s) - 1 : Shorter(s)[i] = s[i]
<1>1. PICK S : s \in Seq(S)
  BY DEF IsSeq
<1> DEFINE n == Len(s)
           v == Shorter(s)
<1>2. n \in Nat \ {0} /\ DOMAIN s = 1 .. n
  BY <1>1, SeqFacts
<1>3. v = SubSeq(s, 1, n - 1)
  BY DEF Shorter
<1> HIDE DEF v
<1>4. v \in Seq(S) /\ Len(v) = n - 1 /\ \A i \in 1 .. n - 1 : v[i] = s[i]
  BY <1>1, <1>2, <1>3
<1>5. DOMAIN v = 1 .. n - 1
  BY <1>4, LenProperties
<1> QED
  BY <1>2, <1>4, <1>5 DEF v, IsSeq

\* Replacing one element
LEMMA ReplacedAny ==
  ASSUME NEW s, IsSeq(s), NEW k \in DOMAIN s, NEW v
  PROVE  LET u == [s EXCEPT ![k] = v]
         IN  /\ IsSeq(u)
             /\ DOMAIN u = DOMAIN s /\ Len(u) = Len(s) /\ u[k] = v
             /\ \A i \in DOMAIN s : i # k => u[i] = s[i]
<1>1. PICK S : s \in Seq(S)
  BY DEF IsSeq
<1> DEFINE T == S \cup {v}
           n == Len(s)
           u == [s EXCEPT ![k] = v]
<1>2. n \in Nat /\ DOMAIN s = 1 .. n /\ s \in [1 .. n -> S]
  BY <1>1, LenProperties
<1> HIDE DEF n
<1>3. u \in [1 .. n -> T]
  BY <1>2
<1>4. DOMAIN u = DOMAIN s /\ u[k] = v /\ \A i \in DOMAIN s : i # k => u[i] = s[i]
  BY <1>2
<1> HIDE DEF u, T
<1>5. u \in Seq(T)
  BY <1>2, <1>3, IsASeq
<1>6. Len(u) = n
  BY <1>2, <1>3, <1>5, LenProperties
<1> QED
  BY <1>4, <1>5, <1>6 DEF u, n, IsSeq
\* Adding an element to a sequence of elements of one set
LEMMA AppendOf ==
  ASSUME NEW S, NEW s \in Seq(S), NEW e \in S
  PROVE  /\ Append(s, e) \in Seq(S) /\ Append(s, e) # <<>>
         /\ Len(Append(s, e)) = Len(s) + 1 /\ Append(s, e)[Len(s) + 1] = e
         /\ \A i \in 1 .. Len(s) : Append(s, e)[i] = s[i]
         /\ SubSeq(Append(s, e), 1, Len(s)) = s
<1> DEFINE u == Append(s, e)
<1>1. Len(s) \in Nat
  BY LenProperties
<1>2. /\ u \in Seq(S) /\ Len(u) = Len(s) + 1 /\ u[Len(s) + 1] = e
      /\ \A i \in 1 .. Len(s) : u[i] = s[i]
  BY AppendProperties
<1>3. SubSeq(u, 1, Len(s)) = s
  BY <1>1
<1> HIDE DEF u
<1>4. u # <<>>
  BY <1>1, <1>2, EmptySeq
<1> QED
  BY <1>2, <1>3, <1>4 DEF u

\* Adding two elements
LEMMA AppendTwo ==
  ASSUME NEW S, NEW s \in Seq(S), NEW a \in S, NEW b \in S
  PROVE  s \o <<a, b>> = Append(Append(s, a), b)
OBVIOUS
=============================================================================
