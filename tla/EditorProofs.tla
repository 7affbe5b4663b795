----------------------------- MODULE EditorProofs ----------------------------
(***************************************************************************)
(* Proofs about Editor, for every set of characters, every file and every   *)
(* limit.                                                                   *)
(***************************************************************************)
EXTENDS Editor, Positions, TLAPS

-----------------------------------------------------------------------------
(* Texts *)

\* No newline is in t.
OneLine(t) == \A i \in 1 .. Len(t) : t[i] # NL

\* A normalised entry: one line that fits, with no space around it
Normal(e) ==
  /\ e \in Text /\ Len(e) <= MaxLine /\ OneLine(e)
  /\ e # <<>> => ~IsSpace(e[1]) /\ ~IsSpace(e[Len(e)])

\* What any part of a text is
LEMMA PartOf ==
  ASSUME NEW t \in Text, NEW a \in 1 .. Len(t) + 1, NEW b \in a - 1 .. Len(t)
  PROVE  /\ SubSeq(t, a, b) \in Text
         /\ Len(SubSeq(t, a, b)) = b - a + 1
         /\ \A i \in 1 .. b - a + 1 : SubSeq(t, a, b)[i] = t[a + i - 1]
BY DEF Text

\* The whole of a text
LEMMA WholeText ==
  ASSUME NEW t \in Text
  PROVE  SubSeq(t, 1, Len(t)) = t /\ Cut(t, Len(t)) = t
BY DEF Text, Cut

\* A part that starts and ends at a character which is no space
LEMMA PartNormal ==
  ASSUME NEW t \in Text, OneLine(t), Len(t) <= MaxLine,
         NEW a \in 1 .. Len(t), NEW b \in a .. Len(t), ~IsSpace(t[a]), ~IsSpace(t[b])
  PROVE  Normal(SubSeq(t, a, b))
<1> DEFINE n == Len(t)
           e == SubSeq(t, a, b)
           m == b - a + 1
<1>1. n \in Nat /\ MaxLine \in Nat /\ a \in 1 .. n /\ b \in a .. n /\ n <= MaxLine
  BY LenProperties, EditorAssumption DEF Text
<1>2. e \in Text /\ Len(e) = b - a + 1 /\ \A i \in 1 .. b - a + 1 : e[i] = t[a + i - 1]
  BY <1>1, PartOf
<1>3. \A i \in 1 .. n : t[i] # NL
  BY DEF OneLine
<1> HIDE DEF n, e
<1>4. b - a + 1 \in 1 .. n /\ 1 \in 1 .. b - a + 1
  BY <1>1
<1>5. Len(e) <= MaxLine /\ Len(e) \in Nat
  BY <1>1, <1>2
<1>6. OneLine(e)
  BY <1>1, <1>2, <1>3 DEF OneLine
<1>7. e[1] = t[a] /\ e[Len(e)] = t[b]
  BY <1>1, <1>2
<1> QED
  BY <1>2, <1>5, <1>6, <1>7 DEF Normal, e

\* Trimming leaves no space and no newline at either end.
LEMMA TrimNormal ==
  ASSUME NEW t \in Text, OneLine(t), Len(t) <= MaxLine
  PROVE  Normal(Trim(t))
<1> DEFINE P == {i \in DOMAIN t : ~IsSpace(t[i])}
           a == CHOOSE i \in P : \A k \in P : i <= k
           b == CHOOSE i \in P : \A k \in P : k <= i
<1>1. Len(t) \in Nat /\ DOMAIN t = 1 .. Len(t) /\ MaxLine \in Nat
  BY LenProperties, EditorAssumption DEF Text
<1>2. ASSUME P = {} PROVE Normal(Trim(t))
  <2>1. Trim(t) = <<>>
    BY <1>2 DEF Trim
  <2>2. <<>> \in Text /\ Len(<<>>) = 0
    BY EmptySeq DEF Text
  <2> QED
    BY <1>1, <2>1, <2>2 DEF Normal, OneLine
<1>3. ASSUME P # {} PROVE Normal(Trim(t))
  <2>1. a \in P /\ b \in P /\ a <= b
    BY <1>1, <1>3, Extremes
  <2>2. Trim(t) = SubSeq(t, a, b)
    BY <1>3 DEF Trim
  <2>3. \A i \in P : i \in 1 .. Len(t) /\ ~IsSpace(t[i])
    BY <1>1
  <2> HIDE DEF a, b, P
  <2>4. a \in 1 .. Len(t) /\ b \in 1 .. Len(t) /\ ~IsSpace(t[a]) /\ ~IsSpace(t[b])
    BY <2>1, <2>3
  <2>5. b \in a .. Len(t)
    BY <1>1, <2>1, <2>4
  <2> QED
    BY <2>2, <2>4, <2>5, PartNormal
<1> QED
  BY <1>2, <1>3

\* An entry that is normalised has nothing to trim.
LEMMA TrimSame ==
  ASSUME NEW e, Normal(e)
  PROVE  Trim(e) = e
<1> DEFINE P == {i \in DOMAIN e : ~IsSpace(e[i])}
           n == Len(e)
<1>1. e \in Text /\ n \in Nat /\ DOMAIN e = 1 .. n
  BY LenProperties DEF Text, Normal
<1>2. CASE e = <<>>
  BY <1>1, <1>2 DEF Trim
<1>3. CASE e # <<>>
  <2>1. n # 0
    BY <1>1, <1>3, EmptySeq DEF Text
  <2>2. ~IsSpace(e[1]) /\ ~IsSpace(e[n])
    <3>1. \A i \in 1 .. n : e[i] # NL
      BY DEF Normal, OneLine
    <3>2. 1 \in 1 .. n /\ n \in 1 .. n
      <4> HIDE DEF n
      <4> QED
        BY <1>1, <2>1
    <3> QED
      BY <1>3, <3>1, <3>2 DEF Normal
  <2>3. \A i : i \in P <=> i \in 1 .. n /\ ~IsSpace(e[i])
    BY <1>1
  <2>4. P # {} => Trim(e) = SubSeq(e, CHOOSE i \in P : \A k \in P : i <= k,
                                      CHOOSE i \in P : \A k \in P : k <= i)
    BY DEF Trim
  <2>5. SubSeq(e, 1, n) = e
    BY <1>1, WholeText
  <2> HIDE DEF P, n
  <2>6. 1 \in P /\ n \in P /\ \A i \in P : i \in Int /\ 1 <= i /\ i <= n
    BY <1>1, <2>1, <2>2, <2>3
  <2>7. (CHOOSE i \in P : \A k \in P : i <= k) = 1
    BY <2>6
  <2>8. (CHOOSE i \in P : \A k \in P : k <= i) = n
    <3>1. \A j \in P : (\A k \in P : k <= j) => j = n
      BY <1>1, <2>6
    <3>2. n \in P /\ \A k \in P : k <= n
      BY <2>6
    <3> QED
      BY <3>1, <3>2, Zenon
  <2> QED
    BY <2>4, <2>5, <2>6, <2>7, <2>8
<1> QED
  BY <1>2, <1>3

\* What trim_trailing_newlines leaves
LEMMA WithoutNewlinesText ==
  ASSUME NEW t \in Text
  PROVE  /\ WithoutNewlines(t) \in Text
         /\ OneLine(t) => WithoutNewlines(t) = t
         /\ (\A i \in 1 .. Len(t) : t[i] = NL) => WithoutNewlines(t) = <<>>
         /\ Len(t) # 0 /\ t[Len(t)] = NL /\ OneLine(Cut(t, Len(t) - 1)) =>
              WithoutNewlines(t) = Cut(t, Len(t) - 1)
<1> DEFINE P == {i \in DOMAIN t : t[i] # NL}
           b == CHOOSE i \in P : \A k \in P : k <= i
           n == Len(t)
<1>1. n \in Nat /\ DOMAIN t = 1 .. n
  BY LenProperties DEF Text
<1>2. P = {} => WithoutNewlines(t) = <<>>
  BY DEF WithoutNewlines
<1>3. P # {} => WithoutNewlines(t) = Cut(t, b)
  BY DEF WithoutNewlines
<1>4. P # {} => b \in P /\ \A k \in P : k <= b
  BY <1>1, Extremes
<1>5. \A i : i \in P <=> i \in 1 .. n /\ t[i] # NL
  BY <1>1
<1> HIDE DEF P, b, n
<1>6. WithoutNewlines(t) \in Text
  <2>1. P # {} => Cut(t, b) \in Text
    BY <1>1, <1>4, <1>5, PartOf DEF Cut, n
  <2>2. <<>> \in Text
    BY EmptySeq DEF Text
  <2> QED
    BY <1>2, <1>3, <2>1, <2>2
<1>7. ASSUME OneLine(t) PROVE WithoutNewlines(t) = t
  <2>1. CASE n = 0
    <3>1. P = {} /\ t = <<>>
      BY <1>1, <1>5, <2>1, EmptySeq DEF Text, n
    <3> QED
      BY <1>2, <3>1
  <2>2. CASE n # 0
    <3>1. n \in P
      BY <1>1, <1>5, <1>7, <2>2 DEF OneLine, n
    <3>2. b = n
      BY <1>1, <1>4, <1>5, <3>1
    <3> QED
      BY <1>3, <3>1, <3>2, WholeText DEF n
  <2> QED
    BY <2>1, <2>2
<1>8. ASSUME \A i \in 1 .. n : t[i] = NL PROVE WithoutNewlines(t) = <<>>
  BY <1>2, <1>5, <1>8
<1>9. ASSUME n # 0, t[n] = NL, OneLine(Cut(t, n - 1)) PROVE WithoutNewlines(t) = Cut(t, n - 1)
  <2>1. Len(Cut(t, n - 1)) = n - 1 /\ \A i \in 1 .. n - 1 : Cut(t, n - 1)[i] = t[i]
    BY <1>1, <1>9, PartOf DEF Cut, n
  <2>2. \A i \in 1 .. n - 1 : i \in P
    BY <1>1, <1>5, <1>9, <2>1 DEF OneLine
  <2>3. n \notin P
    BY <1>5, <1>9
  <2>4. CASE n = 1
    <3>1. P = {}
      BY <1>1, <1>5, <2>3, <2>4
    <3>2. Cut(t, 0) = <<>>
      BY EmptySeq DEF Cut, Text
    <3> QED
      BY <1>2, <2>4, <3>1, <3>2
  <2>5. CASE n # 1
    <3>1. n - 1 \in P
      BY <1>1, <1>9, <2>2, <2>5
    <3>2. b = n - 1
      BY <1>1, <1>4, <1>5, <2>3, <3>1
    <3> QED
      BY <1>3, <3>1, <3>2
  <2> QED
    BY <2>4, <2>5
<1> QED
  BY <1>6, <1>7, <1>8, <1>9 DEF n

-----------------------------------------------------------------------------
(* normalize_history_entry *)

\* What has been read of a text so far
JoinState == [out : Text, end : BOOLEAN]
Fits(s)   == s \in JoinState /\ OneLine(s.out) /\ Len(s.out) <= MaxLine

Joins(f, t) ==
  f = [i \in 0 .. Len(t) |->
         IF i = 0 THEN [out |-> <<>>, end |-> FALSE] ELSE Joining(f[i - 1], t, i)]

\* A character more, which is no newline
LEMMA OneMore ==
  ASSUME NEW t \in Text, OneLine(t), NEW c \in Char, c # NL
  PROVE  Append(t, c) \in Text /\ OneLine(Append(t, c)) /\ Len(Append(t, c)) = Len(t) + 1
<1> DEFINE u == Append(t, c)
<1>1. /\ u \in Text /\ Len(u) = Len(t) + 1 /\ u[Len(t) + 1] = c
      /\ \A i \in 1 .. Len(t) : u[i] = t[i]
  BY AppendOf DEF Text
<1>2. Len(t) \in Nat
  BY LenProperties DEF Text
<1> HIDE DEF u
<1>3. ASSUME NEW i \in 1 .. Len(t) + 1 PROVE u[i] # NL
  <2>1. CASE i = Len(t) + 1
    BY <1>1, <2>1
  <2>2. CASE i # Len(t) + 1
    <3>1. i \in 1 .. Len(t)
      BY <1>2, <2>2
    <3> QED
      BY <1>1, <3>1 DEF OneLine
  <2> QED
    BY <2>1, <2>2
<1>4. OneLine(u)
  BY <1>1, <1>3 DEF OneLine
<1> QED
  BY <1>1, <1>4 DEF u

\* A space, where there is none, and a separator
LEMMA SeparatorFits ==
  ASSUME NEW t \in Text, OneLine(t), NEW b \in Char, b # NL, NEW c \in Char, c # NL,
         NEW u, u = t \/ u = Append(t, b)
  PROVE  /\ u \in Text /\ OneLine(u) /\ Len(u) \in Nat /\ Len(u) <= Len(t) + 1
         /\ u \o <<c, b>> \in Text /\ OneLine(u \o <<c, b>>) /\ Len(u \o <<c, b>>) = Len(u) + 2
<1>1. Len(t) \in Nat
  BY LenProperties DEF Text
<1>2. u \in Text /\ OneLine(u) /\ Len(u) <= Len(t) + 1
  <2>1. CASE u = t
    BY <1>1, <2>1
  <2>2. CASE u = Append(t, b)
    <3>1. u \in Text /\ OneLine(u) /\ Len(u) = Len(t) + 1
      BY <2>2, OneMore
    <3> QED
      BY <1>1, <3>1
  <2> QED
    BY <2>1, <2>2
<1>3. Len(u) \in Nat
  BY <1>2, LenProperties DEF Text
<1>4. u \o <<c, b>> = Append(Append(u, c), b)
  BY <1>2, AppendTwo DEF Text
<1>5. Append(u, c) \in Text /\ OneLine(Append(u, c)) /\ Len(Append(u, c)) = Len(u) + 1
  BY <1>2, OneMore
<1>6. /\ Append(Append(u, c), b) \in Text /\ OneLine(Append(Append(u, c), b))
      /\ Len(Append(Append(u, c), b)) = Len(u) + 1 + 1
  BY <1>5, OneMore
<1>7. Len(u \o <<c, b>>) = Len(u) + 2
  BY <1>3, <1>4, <1>6
<1> QED
  BY <1>2, <1>3, <1>4, <1>6, <1>7, Zenon

\* One character of the text leaves what is out on one line, and no longer than it may be.
LEMMA JoiningFits ==
  ASSUME NEW t \in Text, NEW i \in 1 .. Len(t), NEW s, Fits(s)
  PROVE  Fits(Joining(s, t, i))
<1>1. /\ s \in JoinState /\ s.out \in Text /\ s.end \in BOOLEAN
      /\ OneLine(s.out) /\ Len(s.out) <= MaxLine
  BY DEF Fits, JoinState
<1>2. Len(s.out) \in Nat /\ MaxLine \in Nat /\ t[i] \in Char
  BY <1>1, LenProperties, EditorAssumption DEF Text
<1>3. CASE s.end \/ Len(s.out) >= MaxLine
  <2>1. Joining(s, t, i) = [s EXCEPT !.end = TRUE]
    BY <1>3 DEF Joining
  <2> QED
    BY <1>1, <2>1 DEF Fits, JoinState
<1>4. CASE ~ (s.end \/ Len(s.out) >= MaxLine) /\ t[i] # NL
  <2>1. Joining(s, t, i) = [s EXCEPT !.out = Append(s.out, t[i])]
    BY <1>4 DEF Joining
  <2>2. /\ Append(s.out, t[i]) \in Text /\ OneLine(Append(s.out, t[i]))
        /\ Len(Append(s.out, t[i])) = Len(s.out) + 1
    BY <1>1, <1>2, <1>4, OneMore
  <2>3. Len(s.out) + 1 <= MaxLine
    BY <1>2, <1>4
  <2> QED
    BY <1>1, <2>1, <2>2, <2>3 DEF Fits, JoinState
<1>5. CASE ~ (s.end \/ Len(s.out) >= MaxLine) /\ t[i] = NL
  <2>1. " " # NL /\ ";" # NL /\ " " \in Char /\ ";" \in Char
    BY EditorAssumption DEF NL
  <2> DEFINE u == Spaced(s.out)
             v == Spaced(s.out) \o <<";", " ">>
  <2>2. /\ u \in Text /\ OneLine(u) /\ Len(u) <= Len(s.out) + 1
        /\ v \in Text /\ OneLine(v) /\ Len(v) = Len(u) + 2 /\ Len(u) \in Nat
    <3> DEFINE b == " "
               c == ";"
    <3>1. u = s.out \/ u = Append(s.out, b)
      BY DEF Spaced
    <3>2. v = u \o <<c, b>>
      OBVIOUS
    <3>3. b \in Char /\ c \in Char /\ b # NL /\ c # NL
      BY <2>1
    <3>4. s.out \in Text /\ OneLine(s.out)
      BY <1>1
    <3> HIDE DEF b, c, u, v
    <3>5. /\ u \in Text /\ OneLine(u) /\ Len(u) \in Nat /\ Len(u) <= Len(s.out) + 1
          /\ u \o <<c, b>> \in Text /\ OneLine(u \o <<c, b>>) /\ Len(u \o <<c, b>>) = Len(u) + 2
      BY <3>1, <3>3, <3>4, SeparatorFits, ZenonT(30)
    <3> QED
      BY <3>2, <3>5, Zenon
  <2>3. Len(u) \in Nat
    BY <2>2
  <2>4. \/ Joining(s, t, i) = s
        \/ Joining(s, t, i) = [out |-> u, end |-> TRUE]
        \/ Len(u) + 2 <= MaxLine /\ Joining(s, t, i) = [s EXCEPT !.out = v]
    <3>1. Joining(s, t, i) = IF i > 1 /\ t[i - 1] = NL THEN s
                             ELSE IF Len(u) + 2 > MaxLine THEN [out |-> u, end |-> TRUE]
                             ELSE [s EXCEPT !.out = v]
      BY <1>5 DEF Joining
    <3> HIDE DEF u, v
    <3>2. Len(u) + 2 > MaxLine \/ Len(u) + 2 <= MaxLine
      BY <1>2, <2>3
    <3> QED
      BY <3>1, <3>2
  <2> HIDE DEF u, v
  <2>5. Len(u) <= MaxLine
    BY <1>2, <1>5, <2>2, <2>3
  <2>6. ASSUME Joining(s, t, i) = [out |-> u, end |-> TRUE] PROVE Fits(Joining(s, t, i))
    BY <2>2, <2>5, <2>6 DEF Fits, JoinState
  <2>7. ASSUME Len(u) + 2 <= MaxLine, Joining(s, t, i) = [s EXCEPT !.out = v]
        PROVE  Fits(Joining(s, t, i))
    BY <1>1, <2>2, <2>7 DEF Fits, JoinState
  <2> QED
    BY <2>4, <2>6, <2>7
<1> QED
  BY <1>3, <1>4, <1>5

\* It reads the whole text, one character after the other.
JoinRun(t) == CHOOSE f : Joins(f, t)

LEMMA JoinRunExists ==
  ASSUME NEW t \in Text
  PROVE  \E f : Joins(f, t)
<1> DEFINE n == Len(t)
           S == {s \in JoinState : Fits(s)}
           a == [out |-> <<>>, end |-> FALSE]
           g == [i \in 1 .. n |-> [s \in S |-> Joining(s, t, i)]]
<1>1. n \in Nat /\ MaxLine \in Nat
  BY LenProperties, EditorAssumption DEF Text
<1>2. a \in S
  <2>1. <<>> \in Text /\ Len(<<>>) = 0
    BY EmptySeq DEF Text
  <2>2. OneLine(<<>>)
    BY <2>1 DEF OneLine
  <2>3. a \in JoinState /\ a.out = <<>>
    BY <2>1 DEF JoinState
  <2> HIDE DEF a
  <2> QED
    BY <1>1, <2>1, <2>2, <2>3 DEF Fits
<1>3. \A i \in 1 .. n : \A s \in S : Joining(s, t, i) \in S
  <2>1. ASSUME NEW i \in 1 .. n, NEW s \in S PROVE Joining(s, t, i) \in S
    <3>1. Fits(Joining(s, t, i))
      BY JoiningFits
    <3> QED
      BY <3>1 DEF Fits
  <2> QED
    BY <2>1
<1>4. g \in [1 .. n -> [S -> S]]
  BY <1>3
<1> HIDE DEF n, S, a
<1>5. PICK f : Recursion(f, S, a, g, n)
  <2> HIDE DEF g
  <2> QED
    BY <1>1, <1>2, <1>4, Recurs
<1>6. f \in [0 .. n -> S] /\ f[0] = a /\ \A i \in 1 .. n : f[i] = g[i][f[i - 1]]
  <2> HIDE DEF g
  <2> QED
    BY <1>5 DEF Recursion
<1>7. ASSUME NEW i \in 1 .. n PROVE f[i] = Joining(f[i - 1], t, i)
  <2>1. f[i - 1] \in S
    BY <1>1, <1>6
  <2> QED
    BY <1>6, <2>1
<1>8. f = [i \in 0 .. n |-> IF i = 0 THEN a ELSE Joining(f[i - 1], t, i)]
  <2> HIDE DEF g
  <2>1. \A i \in 0 .. n : f[i] = IF i = 0 THEN a ELSE Joining(f[i - 1], t, i)
    BY <1>1, <1>6, <1>7
  <2> QED
    BY <1>6, <2>1
<1> QED
  BY <1>8 DEF Joins, n, a

\* What it computes
LEMMA JoinRunIs ==
  ASSUME NEW t \in Text
  PROVE  /\ JoinRun(t)[0] = [out |-> <<>>, end |-> FALSE]
         /\ \A i \in 1 .. Len(t) : JoinRun(t)[i] = Joining(JoinRun(t)[i - 1], t, i)
         /\ Normalized(t) = Trim(JoinRun(t)[Len(t)].out)
<1> DEFINE f == JoinRun(t)
<1>1. Joins(f, t)
  BY JoinRunExists DEF JoinRun
<1>2. Normalized(t) = Trim(f[Len(t)].out)
  BY DEF Normalized, JoinRun, Joins
<1>3. Len(t) \in Nat
  BY LenProperties DEF Text
<1> HIDE DEF f
<1>4. \A i \in 0 .. Len(t) :
        f[i] = IF i = 0 THEN [out |-> <<>>, end |-> FALSE] ELSE Joining(f[i - 1], t, i)
  BY <1>1 DEF Joins
<1> QED
  BY <1>2, <1>3, <1>4 DEF f

\* All along, what is out is on one line that is not too long.
LEMMA JoinRunFits ==
  ASSUME NEW t \in Text
  PROVE  \A i \in 0 .. Len(t) : Fits(JoinRun(t)[i])
<1> DEFINE f == JoinRun(t)
           T == {i \in 0 .. Len(t) : Fits(f[i])}
<1>1. /\ f[0] = [out |-> <<>>, end |-> FALSE]
      /\ \A i \in 1 .. Len(t) : f[i] = Joining(f[i - 1], t, i)
  BY JoinRunIs
<1>2. Len(t) \in Nat /\ MaxLine \in Nat
  BY LenProperties, EditorAssumption DEF Text
<1> HIDE DEF f
<1>3. Fits(f[0])
  <2>1. <<>> \in Text /\ Len(<<>>) = 0
    BY EmptySeq DEF Text
  <2>2. OneLine(<<>>)
    BY <2>1 DEF OneLine
  <2>3. f[0] \in JoinState /\ f[0].out = <<>>
    BY <1>1, <2>1 DEF JoinState
  <2> QED
    BY <1>2, <2>1, <2>2, <2>3 DEF Fits
<1>4. ASSUME NEW k \in 0 .. Len(t) - 1, k \in T PROVE k + 1 \in T
  <2>1. k + 1 \in 1 .. Len(t) /\ k + 1 - 1 = k /\ k + 1 \in 0 .. Len(t)
    BY <1>2
  <2>2. f[k + 1] = Joining(f[k], t, k + 1)
    BY <1>1, <2>1
  <2>3. Fits(Joining(f[k], t, k + 1))
    BY <1>4, <2>1, JoiningFits
  <2> QED
    BY <2>1, <2>2, <2>3
<1>5. 0 .. Len(t) \subseteq T
  <2>1. 0 \in T
    BY <1>2, <1>3
  <2> HIDE DEF T
  <2> QED
    BY <1>2, <1>4, <2>1, Induction
<1> QED
  BY <1>5 DEF f

\* What normalize_history_entry returns is normalised ...
LEMMA NormalizedNormal ==
  ASSUME NEW t \in Text
  PROVE  Normal(Normalized(t))
<1>1. Len(t) \in 0 .. Len(t)
  BY LenProperties DEF Text
<1>2. Fits(JoinRun(t)[Len(t)])
  BY <1>1, JoinRunFits
<1> QED
  BY <1>2, JoinRunIs, TrimNormal DEF Fits, JoinState

\* ... and it leaves what is normalised as it is.
LEMMA NormalizedSame ==
  ASSUME NEW e, Normal(e)
  PROVE  Normalized(e) = e
<1> DEFINE n == Len(e)
           f == JoinRun(e)
           T == {i \in 0 .. n : f[i].out = Cut(e, i) /\ ~f[i].end}
<1>1. e \in Text /\ n \in Nat /\ MaxLine \in Nat /\ n <= MaxLine /\ \A i \in 1 .. n : e[i] # NL
  BY LenProperties, EditorAssumption DEF Text, Normal, OneLine
<1>2. /\ f[0] = [out |-> <<>>, end |-> FALSE]
      /\ \A i \in 1 .. n : f[i] = Joining(f[i - 1], e, i)
      /\ Normalized(e) = Trim(f[n].out)
  BY <1>1, JoinRunIs
<1>3. \A i \in 0 .. n : Cut(e, i) \in Text /\ Len(Cut(e, i)) = i
  BY <1>1, PartOf DEF Cut
<1>4. \A i \in 0 .. n - 1 : Append(Cut(e, i), e[i + 1]) = Cut(e, i + 1)
  BY <1>1 DEF Cut, Text
<1>5. Cut(e, n) = e /\ Cut(e, 0) = <<>>
  <2>1. Cut(e, n) = e
    BY <1>1, WholeText
  <2>2. Cut(e, 0) \in Seq(Char) /\ Len(Cut(e, 0)) = 0
    BY <1>1, <1>3 DEF Text
  <2> QED
    BY <2>1, <2>2, EmptySeq
<1>6. \A i \in 0 .. n : f[i] \in JoinState
  BY <1>1, JoinRunFits DEF Fits
<1> HIDE DEF n, f
<1>7. 0 \in T
  <2>1. f[0].out = <<>> /\ ~f[0].end
    BY <1>2
  <2> QED
    BY <1>1, <1>5, <2>1
<1>8. ASSUME NEW k \in 0 .. n - 1, k \in T PROVE k + 1 \in T
  <2>1. k + 1 \in 1 .. n /\ k + 1 - 1 = k /\ k \in 0 .. n /\ k + 1 \in 0 .. n /\ k < MaxLine
    BY <1>1
  <2>2. f[k].out = Cut(e, k) /\ ~f[k].end /\ Len(f[k].out) = k
    BY <1>3, <1>8, <2>1
  <2>3. f[k + 1] = Joining(f[k], e, k + 1) /\ e[k + 1] # NL /\ ~ (Len(f[k].out) >= MaxLine)
    BY <1>1, <1>2, <2>1, <2>2
  <2>4. f[k + 1] = [f[k] EXCEPT !.out = Append(f[k].out, e[k + 1])]
    BY <2>2, <2>3 DEF Joining
  <2>5. Append(f[k].out, e[k + 1]) = Cut(e, k + 1)
    BY <1>4, <2>2
  <2>6. f[k] \in JoinState
    BY <1>6, <2>1
  <2>7. f[k + 1].out = Cut(e, k + 1) /\ f[k + 1].end = f[k].end
    BY <2>4, <2>5, <2>6 DEF JoinState
  <2> QED
    BY <2>1, <2>2, <2>7
<1>9. n \in T
  <2> HIDE DEF T
  <2>1. 0 .. n \subseteq T
    BY <1>1, <1>7, <1>8, Induction
  <2> QED
    BY <1>1, <2>1
<1>10. f[n].out = e
  BY <1>5, <1>9
<1> QED
  BY <1>2, <1>10, TrimSame

-----------------------------------------------------------------------------
(* arksh_shell_history_add *)

\* An entry of the history: normalised, and neither blank nor a comment
Entry == {e \in Text : Normal(e) /\ ~IsBlank(e)}

\* No entry is equal to the one before it.
NoRepeat(h) == \A i \in 2 .. Len(h) : h[i] # h[i - 1]

\* A history that the code may hold
Clean(h) == h \in Seq(Entry) /\ Len(h) <= MaxHistory /\ NoRepeat(h)

LEMMA EmptyText == <<>> \in Text /\ Len(<<>>) = 0 /\ OneLine(<<>>) /\ Normal(<<>>)
<1>1. <<>> \in Text /\ Len(<<>>) = 0
  BY EmptySeq DEF Text
<1>2. MaxLine \in Nat
  BY EditorAssumption
<1> QED
  BY <1>1, <1>2 DEF OneLine, Normal

\* The entry that a text becomes
LEMMA EntryNormal ==
  ASSUME NEW t \in Text
  PROVE  Normal(EntryOf(t))
<1> DEFINE n == IF Len(t) < MaxLine THEN Len(t) ELSE MaxLine
<1>1. Len(t) \in Nat /\ MaxLine \in Nat
  BY LenProperties, EditorAssumption DEF Text
<1>2. n \in 0 .. Len(t)
  BY <1>1
<1>3. EntryOf(t) = Normalized(WithoutNewlines(Cut(t, n)))
  BY DEF EntryOf
<1> HIDE DEF n
<1>4. Cut(t, n) \in Text
  BY <1>1, <1>2, PartOf DEF Cut
<1>5. WithoutNewlines(Cut(t, n)) \in Text
  BY <1>4, WithoutNewlinesText
<1> QED
  BY <1>3, <1>5, NormalizedNormal

\* What is normalised becomes itself.
LEMMA EntrySame ==
  ASSUME NEW e, Normal(e)
  PROVE  EntryOf(e) = e
<1> DEFINE n == IF Len(e) < MaxLine THEN Len(e) ELSE MaxLine
<1>1. e \in Text /\ Len(e) <= MaxLine /\ OneLine(e)
  BY DEF Normal
<1>2. Len(e) \in Nat /\ MaxLine \in Nat
  BY <1>1, LenProperties, EditorAssumption DEF Text
<1>3. n = Len(e)
  BY <1>1, <1>2
<1>4. EntryOf(e) = Normalized(WithoutNewlines(Cut(e, n)))
  BY DEF EntryOf
<1> HIDE DEF n
<1>5. Cut(e, n) = e
  BY <1>1, <1>3, WholeText
<1>6. WithoutNewlines(e) = e
  BY <1>1, WithoutNewlinesText
<1> QED
  BY <1>4, <1>5, <1>6, NormalizedSame

LEMMA EntryIn ==
  ASSUME NEW t \in Text, ~IsBlank(EntryOf(t))
  PROVE  EntryOf(t) \in Entry
BY EntryNormal DEF Entry, Normal

\* Nothing is added when nothing is entered.
LEMMA NothingAdded ==
  ASSUME NEW h
  PROVE  Added(h, <<>>) = h
BY EmptyText, EntrySame DEF Added, IsBlank

\* The sequence that a full one becomes
LEMMA Pushed ==
  ASSUME NEW S, NEW M \in Nat \ {0}, NEW h \in Seq(S), Len(h) <= M, NoRepeat(h),
         NEW e \in S, h = <<>> \/ h[Len(h)] # e
  PROVE  LET g == Append(IF Len(h) >= M THEN Tail(h) ELSE h, e)
         IN  g \in Seq(S) /\ Len(g) <= M /\ NoRepeat(g)
<1> DEFINE k == IF Len(h) >= M THEN Tail(h) ELSE h
           g == Append(k, e)
           d == IF Len(h) >= M THEN 1 ELSE 0
<1>1. Len(h) \in Nat /\ (Len(h) # 0 => h # <<>>)
  BY LenProperties, EmptySeq
<1>2. k \in Seq(S) /\ Len(k) = Len(h) - d /\ \A i \in 1 .. Len(h) - d : k[i] = h[i + d]
  <2>1. CASE Len(h) >= M
    <3>1. h # <<>>
      BY <1>1, <2>1, EmptySeq
    <3>2. Tail(h) \in Seq(S) /\ Len(Tail(h)) = Len(h) - 1 /\ \A i \in 1 .. Len(h) - 1 : Tail(h)[i] = h[i + 1]
      BY <1>1, <3>1, HeadTailProperties
    <3> QED
      BY <2>1, <3>2
  <2>2. CASE ~ (Len(h) >= M)
    BY <1>1, <2>2
  <2> QED
    BY <2>1, <2>2
<1>3. d \in {0, 1} /\ (d = 0 => Len(h) < M)
  BY <1>1
<1>4. /\ g \in Seq(S) /\ Len(g) = Len(k) + 1 /\ g[Len(k) + 1] = e
      /\ \A i \in 1 .. Len(k) : g[i] = k[i]
  <2> HIDE DEF k
  <2> QED
    BY <1>2, AppendOf
<1> HIDE DEF k, g, d
<1>5. Len(g) <= M
  BY <1>1, <1>2, <1>3, <1>4
<1>6. ASSUME NEW i \in 2 .. Len(g) PROVE g[i] # g[i - 1]
  <2>1. CASE i = Len(g)
    <3>1. Len(h) # 0 /\ i - 1 = Len(k) /\ i - 1 \in 1 .. Len(h) - d /\ i - 1 + d = Len(h)
      BY <1>1, <1>2, <1>3, <1>4, <2>1
    <3>2. g[i - 1] = h[Len(h)]
      BY <1>2, <1>4, <3>1
    <3>3. g[i] = e
      BY <1>4, <2>1
    <3> QED
      BY <1>1, <3>1, <3>2, <3>3, EmptySeq
  <2>2. CASE i # Len(g)
    <3>1. PICK j \in 2 .. Len(h) :
             j = i + d /\ i - 1 + d = j - 1 /\ i \in 1 .. Len(k) /\ i - 1 \in 1 .. Len(k)
      BY <1>1, <1>2, <1>3, <1>4, <2>2
    <3>2. g[i] = h[j] /\ g[i - 1] = h[j - 1]
      BY <1>2, <1>4, <3>1
    <3> QED
      BY <3>2 DEF NoRepeat
  <2> QED
    BY <2>1, <2>2
<1> QED
  BY <1>4, <1>5, <1>6 DEF NoRepeat, g, k

\* Whatever is added, the history stays clean.
LEMMA AddedClean ==
  ASSUME NEW h, Clean(h), NEW t \in Text
  PROVE  Clean(Added(h, t))
<1> DEFINE e == EntryOf(t)
<1>1. h \in Seq(Entry) /\ Len(h) <= MaxHistory /\ NoRepeat(h) /\ MaxHistory \in Nat \ {0}
  BY EditorAssumption DEF Clean
<1>2. CASE IsBlank(e) \/ (h # <<>> /\ h[Len(h)] = e)
  <2>1. Added(h, t) = h
    BY <1>2 DEF Added, Last
  <2> QED
    BY <2>1
<1>3. CASE ~ (IsBlank(e) \/ (h # <<>> /\ h[Len(h)] = e))
  <2>1. Added(h, t) = Append(IF Len(h) >= MaxHistory THEN Tail(h) ELSE h, e)
    BY <1>3 DEF Added, Last
  <2>2. e \in Entry
    BY <1>3, EntryIn
  <2> HIDE DEF e
  <2>3. LET g == Append(IF Len(h) >= MaxHistory THEN Tail(h) ELSE h, e)
        IN  g \in Seq(Entry) /\ Len(g) <= MaxHistory /\ NoRepeat(g)
    BY <1>1, <1>3, <2>2, Pushed
  <2> QED
    BY <2>1, <2>3 DEF Clean
<1> QED
  BY <1>2, <1>3

\* The start of a clean history is clean, and the next entry extends it.
LEMMA CleanGrows ==
  ASSUME NEW h, Clean(h), NEW k \in 0 .. Len(h)
  PROVE  /\ Clean(Cut(h, k)) /\ Len(Cut(h, k)) = k
         /\ k < Len(h) => Added(Cut(h, k), h[k + 1]) = Cut(h, k + 1)
<1> DEFINE g == Cut(h, k)
<1>1. /\ h \in Seq(Entry) /\ Len(h) \in Nat /\ Len(h) <= MaxHistory /\ NoRepeat(h)
      /\ MaxHistory \in Nat \ {0} /\ k \in Nat /\ k <= Len(h)
  <2>1. h \in Seq(Entry) /\ Len(h) <= MaxHistory /\ NoRepeat(h) /\ MaxHistory \in Nat \ {0}
    BY EditorAssumption DEF Clean
  <2>2. Len(h) \in Nat
    BY <2>1, LenProperties
  <2> QED
    BY <2>1, <2>2
<1>2. g \in Seq(Entry) /\ Len(g) = k /\ \A i \in 1 .. k : g[i] = h[i]
  BY <1>1 DEF Cut
<1>3. k < Len(h) => Append(g, h[k + 1]) = Cut(h, k + 1)
  BY <1>1 DEF Cut
<1> HIDE DEF g
<1>4. Clean(g)
  <2>1. \A i \in 2 .. k : i \in 2 .. Len(h) /\ i \in 1 .. k /\ i - 1 \in 1 .. k
    BY <1>1
  <2>2. NoRepeat(g)
    BY <1>1, <1>2, <2>1 DEF NoRepeat
  <2> QED
    BY <1>1, <1>2, <2>2 DEF Clean
<1>5. ASSUME k < Len(h) PROVE Added(g, h[k + 1]) = Cut(h, k + 1)
  <2> DEFINE e == h[k + 1]
  <2>1. e \in Entry
    BY <1>1, <1>5
  <2>2. EntryOf(e) = e /\ ~IsBlank(e)
    BY <2>1, EntrySame DEF Entry
  <2>3. ASSUME g # <<>> PROVE g[Len(g)] # e
    <3>1. k # 0
      BY <1>2, <2>3, EmptySeq
    <3>2. k \in 1 .. k /\ k + 1 \in 2 .. Len(h) /\ k + 1 - 1 = k
      BY <1>1, <1>5, <3>1
    <3>3. h[k + 1] # h[k]
      BY <1>1, <3>2 DEF NoRepeat
    <3> QED
      BY <1>2, <3>2, <3>3
  <2>4. ~ (Len(g) >= MaxHistory)
    BY <1>1, <1>2, <1>5
  <2> HIDE DEF e
  <2>5. Added(g, e) = Append(g, e)
    BY <2>2, <2>3, <2>4 DEF Added, Last
  <2> QED
    BY <1>3, <1>5, <2>5 DEF e
<1> QED
  BY <1>2, <1>4, <1>5 DEF g

-----------------------------------------------------------------------------
(* The history that the commands ask for *)

Keeps(f, s) ==
  f = [i \in 0 .. Len(s) |->
         IF i = 0 THEN <<>>
         ELSE IF i > 1 /\ s[i] = s[i - 1] THEN f[i - 1] ELSE Append(f[i - 1], s[i])]
KeepRun(s) == CHOOSE f : Keeps(f, s)

\* What of the first i entries of a sequence is kept, for each i
LEMMA KeepRunIs ==
  ASSUME NEW S, NEW s \in Seq(S)
  PROVE  /\ KeepRun(s)[0] = <<>> /\ Deduped(s) = KeepRun(s)[Len(s)]
         /\ \A i \in 1 .. Len(s) :
              KeepRun(s)[i] = IF i > 1 /\ s[i] = s[i - 1] THEN KeepRun(s)[i - 1]
                              ELSE Append(KeepRun(s)[i - 1], s[i])
<1> DEFINE n == Len(s)
           step(i, r) == IF i > 1 /\ s[i] = s[i - 1] THEN r ELSE Append(r, s[i])
           g == [i \in 1 .. n |-> [r \in Seq(S) |-> step(i, r)]]
<1>1. n \in Nat /\ <<>> \in Seq(S) /\ \A i \in 1 .. n : s[i] \in S
  BY LenProperties, EmptySeq
<1>2. \E f : Keeps(f, s)
  <2>1. \A i \in 1 .. n : \A r \in Seq(S) : step(i, r) \in Seq(S)
    BY <1>1
  <2>2. g \in [1 .. n -> [Seq(S) -> Seq(S)]]
    BY <2>1
  <2>3. PICK f : Recursion(f, Seq(S), <<>>, g, n)
    <3> HIDE DEF g, n
    <3> QED
      BY <1>1, <2>2, Recurs
  <2>4. f \in [0 .. n -> Seq(S)] /\ f[0] = <<>> /\ \A i \in 1 .. n : f[i] = g[i][f[i - 1]]
    <3> HIDE DEF g, n
    <3> QED
      BY <2>3 DEF Recursion
  <2>5. \A i \in 1 .. n : f[i - 1] \in Seq(S)
    <3> HIDE DEF g, n
    <3> QED
      BY <1>1, <2>4
  <2>6. \A i \in 1 .. n : g[i][f[i - 1]] = step(i, f[i - 1])
    BY <2>5
  <2>7. \A i \in 1 .. n : f[i] = step(i, f[i - 1])
    <3> HIDE DEF g, n, step
    <3> QED
      BY <2>4, <2>6
  <2>8. \A i \in 0 .. n : f[i] = IF i = 0 THEN <<>> ELSE step(i, f[i - 1])
    <3> HIDE DEF g, n, step
    <3> QED
      BY <1>1, <2>4, <2>7
  <2>9. f = [i \in 0 .. n |-> IF i = 0 THEN <<>> ELSE step(i, f[i - 1])]
    <3> HIDE DEF g, n, step
    <3> QED
      BY <2>4, <2>8
  <2>10. Keeps(f, s)
    BY <2>9 DEF Keeps
  <2> QED
    BY <2>10
<1> DEFINE f == KeepRun(s)
<1>3. Keeps(f, s)
  BY <1>2 DEF KeepRun
<1>4. Deduped(s) = f[n]
  BY DEF Deduped, KeepRun, Keeps
<1> HIDE DEF f
<1>5. \A i \in 0 .. Len(s) :
        f[i] = IF i = 0 THEN <<>>
               ELSE IF i > 1 /\ s[i] = s[i - 1] THEN f[i - 1] ELSE Append(f[i - 1], s[i])
  BY <1>3 DEF Keeps
<1> QED
  BY <1>1, <1>4, <1>5 DEF f

\* What is kept of each start ends with the entry that it ends with.
LEMMA KeepRunEnds ==
  ASSUME NEW S, NEW s \in Seq(S)
  PROVE  \A i \in 0 .. Len(s) :
           /\ KeepRun(s)[i] \in Seq(S)
           /\ i # 0 => KeepRun(s)[i] # <<>> /\ Last(KeepRun(s)[i]) = s[i]
<1> DEFINE n == Len(s)
           f == KeepRun(s)
           Kept(i, r) == r \in Seq(S) /\ (i # 0 => r # <<>> /\ Last(r) = s[i])
           T == {i \in 0 .. n : Kept(i, f[i])}
<1>1. n \in Nat /\ <<>> \in Seq(S) /\ \A i \in 1 .. n : s[i] \in S
  BY LenProperties, EmptySeq
<1>2. f[0] = <<>> /\ \A i \in 1 .. n : f[i] = IF i > 1 /\ s[i] = s[i - 1] THEN f[i - 1]
                                                 ELSE Append(f[i - 1], s[i])
  BY KeepRunIs
<1> HIDE DEF f, n
<1>3. 0 \in T
  <2>1. 0 \in 0 .. n /\ f[0] \in Seq(S)
    BY <1>1, <1>2
  <2> QED
    BY <2>1
<1>4. ASSUME NEW k \in 0 .. n - 1, k \in T PROVE k + 1 \in T
  <2>1. k + 1 \in 1 .. n /\ k + 1 - 1 = k /\ k + 1 \in 0 .. n /\ k + 1 # 0 /\ (k + 1 > 1 <=> k # 0)
    BY <1>1
  <2>2. f[k] \in Seq(S) /\ s[k + 1] \in S /\ (k # 0 => f[k] # <<>> /\ Last(f[k]) = s[k])
    BY <1>1, <1>4, <2>1
  <2>3. f[k + 1] = IF k # 0 /\ s[k + 1] = s[k] THEN f[k] ELSE Append(f[k], s[k + 1])
    BY <1>2, <2>1
  <2>4. CASE k # 0 /\ s[k + 1] = s[k]
    BY <2>1, <2>2, <2>3, <2>4
  <2>5. CASE ~ (k # 0 /\ s[k + 1] = s[k])
    <3>1. f[k + 1] = Append(f[k], s[k + 1])
      BY <2>3, <2>5
    <3>2. f[k + 1] \in Seq(S) /\ f[k + 1] # <<>> /\ Last(f[k + 1]) = s[k + 1]
      BY <2>2, <3>1, AppendOf DEF Last
    <3> QED
      BY <2>1, <3>2
  <2> QED
    BY <2>4, <2>5
<1>5. 0 .. n \subseteq T
  <2> HIDE DEF T
  <2> QED
    BY <1>1, <1>3, <1>4, Induction
<1> QED
  BY <1>5 DEF n, f

\* A sequence without repetitions is kept.
LEMMA DedupedSame ==
  ASSUME NEW S, NEW s \in Seq(S), NoRepeat(s)
  PROVE  Deduped(s) = s
<1> DEFINE n == Len(s)
           f == KeepRun(s)
           T == {i \in 0 .. n : f[i] = Cut(s, i)}
<1>1. n \in Nat
  BY LenProperties
<1>2. /\ f[0] = <<>> /\ Deduped(s) = f[n]
      /\ \A i \in 1 .. n : f[i] = IF i > 1 /\ s[i] = s[i - 1] THEN f[i - 1]
                                   ELSE Append(f[i - 1], s[i])
  BY KeepRunIs
<1>3. Cut(s, 0) = <<>> /\ Cut(s, n) = s
  BY SubSeqEmpty, SubSeqFull DEF Cut
<1>4. \A k \in 0 .. n - 1 : Append(Cut(s, k), s[k + 1]) = Cut(s, k + 1)
  BY DEF Cut
<1>5. \A i \in 2 .. n : s[i] # s[i - 1]
  BY DEF NoRepeat
<1> HIDE DEF f, n
<1>6. 0 \in T
  BY <1>1, <1>2, <1>3
<1>7. ASSUME NEW k \in 0 .. n - 1, k \in T PROVE k + 1 \in T
  <2>1. k + 1 \in 1 .. n /\ k + 1 - 1 = k /\ k + 1 \in 0 .. n /\ (k + 1 > 1 => k + 1 \in 2 .. n)
    BY <1>1
  <2> DEFINE j == k + 1
  <2>4. j \in 1 .. n /\ j - 1 = k /\ ~ (j > 1 /\ s[j] = s[j - 1])
    BY <1>5, <2>1
  <2>2. f[k + 1] = Append(f[k], s[k + 1])
    <3> HIDE DEF j
    <3>1. f[j] = Append(f[j - 1], s[j])
      BY <1>2, <2>4
    <3> QED
      BY <2>4, <3>1 DEF j
  <2>3. f[k + 1] = Cut(s, k + 1)
    BY <1>4, <1>7, <2>2
  <2> QED
    BY <2>1, <2>3
<1>8. 0 .. n \subseteq T
  <2> HIDE DEF T
  <2> QED
    BY <1>1, <1>6, <1>7, Induction
<1> QED
  BY <1>1, <1>2, <1>3, <1>8

\* One command more: it is kept unless it repeats the one before it.
LEMMA DedupedAppend ==
  ASSUME NEW S, NEW s \in Seq(S), NEW e \in S
  PROVE  /\ Deduped(s) \in Seq(S)
         /\ s = <<>> => Deduped(s) = <<>>
         /\ s # <<>> => Deduped(s) # <<>> /\ Last(Deduped(s)) = Last(s)
         /\ Deduped(Append(s, e)) = IF s # <<>> /\ Last(s) = e THEN Deduped(s)
                                     ELSE Append(Deduped(s), e)
<1> DEFINE n == Len(s)
           u == Append(s, e)
           f == KeepRun(s)
           h == KeepRun(u)
           T == {i \in 0 .. n : f[i] = h[i]}
<1>1. n \in Nat /\ (s # <<>> <=> n # 0)
  BY LenProperties, EmptySeq
<1>2. u \in Seq(S) /\ Len(u) = n + 1 /\ u[n + 1] = e /\ \A i \in 1 .. n : u[i] = s[i]
  BY AppendOf
<1>3. /\ f[0] = <<>> /\ Deduped(s) = f[n]
      /\ \A i \in 1 .. n : f[i] = IF i > 1 /\ s[i] = s[i - 1] THEN f[i - 1]
                                   ELSE Append(f[i - 1], s[i])
  BY KeepRunIs
<1>4. /\ h[0] = <<>> /\ Deduped(u) = h[n + 1]
      /\ \A i \in 1 .. n + 1 : h[i] = IF i > 1 /\ u[i] = u[i - 1] THEN h[i - 1]
                                       ELSE Append(h[i - 1], u[i])
  <2> HIDE DEF n, u
  <2> QED
    BY <1>2, KeepRunIs
<1>5. f[n] \in Seq(S) /\ (n # 0 => f[n] # <<>> /\ Last(f[n]) = s[n])
  <2>1. n \in 0 .. n
    BY <1>1
  <2> QED
    BY <2>1, KeepRunEnds
<1>6. Last(s) = s[n]
  BY DEF Last
<1> HIDE DEF f, h, n, u
<1>7. 0 \in T
  BY <1>1, <1>3, <1>4
<1>8. ASSUME NEW k \in 0 .. n - 1, k \in T PROVE k + 1 \in T
  <2>1. /\ k + 1 \in 1 .. n /\ k + 1 \in 1 .. n + 1 /\ k + 1 - 1 = k /\ k + 1 \in 0 .. n
        /\ (k + 1 > 1 => k \in 1 .. n)
    BY <1>1
  <2>2. u[k + 1] = s[k + 1] /\ (k + 1 > 1 => u[k] = s[k])
    BY <1>2, <2>1
  <2>3. f[k + 1] = h[k + 1]
    BY <1>3, <1>4, <1>8, <2>1, <2>2
  <2> QED
    BY <2>1, <2>3
<1>9. f[n] = h[n]
  <2> HIDE DEF T
  <2>1. 0 .. n \subseteq T
    BY <1>1, <1>7, <1>8, Induction
  <2> QED
    BY <1>1, <2>1 DEF T
<1>10. Deduped(u) = IF n # 0 /\ s[n] = e THEN f[n] ELSE Append(f[n], e)
  <2>1. n + 1 \in 1 .. n + 1 /\ n + 1 - 1 = n /\ (n + 1 > 1 <=> n # 0) /\ (n # 0 => n \in 1 .. n)
    BY <1>1
  <2>2. h[n + 1] = IF n # 0 /\ e = u[n] THEN h[n] ELSE Append(h[n], e)
    BY <1>2, <1>4, <2>1
  <2>3. n # 0 => u[n] = s[n]
    BY <1>2, <2>1
  <2> QED
    BY <1>4, <1>9, <2>2, <2>3
<1>11. s = <<>> => Deduped(s) = <<>>
  BY <1>1, <1>3
<1> QED
  BY <1>1, <1>3, <1>5, <1>6, <1>10, <1>11 DEF u

\* Adding to the newest M entries gives the newest M with the entry added.
LEMMA NewestAppend ==
  ASSUME NEW S, NEW M \in Nat \ {0}, NEW d \in Seq(S), NEW e \in S
  PROVE  LET w == Newest(d, M)
         IN  /\ w \in Seq(S)
             /\ d # <<>> => w # <<>> /\ Last(w) = Last(d)
             /\ Newest(Append(d, e), M) = Append(IF Len(w) >= M THEN Tail(w) ELSE w, e)
<1> DEFINE n == Len(d)
           w == Newest(d, M)
           u == Append(d, e)
           v == Newest(u, M)
<1>1. n \in Nat /\ M \in Nat /\ M > 0 /\ (d # <<>> <=> n # 0)
  BY LenProperties, EmptySeq
<1>2. /\ u \in Seq(S) /\ Len(u) = n + 1 /\ u[n + 1] = e /\ \A i \in 1 .. n : u[i] = d[i]
      /\ SubSeq(u, 1, n) = d
  BY AppendOf
<1>3. ASSUME n < M
      PROVE  w = d /\ v = u
  <2>1. w = SubSeq(d, 1, n) /\ v = SubSeq(u, 1, n + 1)
    <3> HIDE DEF n, u
    <3>1. ~ (n > M) /\ ~ (n + 1 > M)
      BY <1>1, <1>3
    <3> QED
      BY <1>2, <3>1 DEF Newest, n
  <2>2. SubSeq(d, 1, n) = d
    BY SubSeqFull
  <2>3. SubSeq(u, 1, n + 1) = u
    <3> HIDE DEF u, n
    <3> QED
      BY <1>2, SubSeqFull
  <2> QED
    BY <2>1, <2>2, <2>3
<1>4. ASSUME n >= M
      PROVE  /\ w = SubSeq(d, n - M + 1, n) /\ v = SubSeq(u, n - M + 2, n + 1)
             /\ w \in Seq(S) /\ Len(w) = M /\ \A i \in 1 .. M : w[i] = d[n - M + i]
             /\ v \in Seq(S) /\ Len(v) = M /\ \A i \in 1 .. M : v[i] = u[n - M + 1 + i]
  <2> HIDE DEF n, u
  <2>1. w = SubSeq(d, n - M + 1, n)
    <3>1. w = SubSeq(d, IF n > M THEN n - M + 1 ELSE 1, n)
      BY DEF Newest, n
    <3>2. (IF n > M THEN n - M + 1 ELSE 1) = n - M + 1
      BY <1>1, <1>4
    <3> QED
      BY <3>1, <3>2
  <2>2. v = SubSeq(u, n - M + 2, n + 1)
    <3>1. v = SubSeq(u, IF Len(u) > M THEN Len(u) - M + 1 ELSE 1, Len(u))
      BY DEF Newest
    <3>2. (IF Len(u) > M THEN Len(u) - M + 1 ELSE 1) = n - M + 2
      BY <1>1, <1>2, <1>4
    <3>3. Len(u) = n + 1
      BY <1>2
    <3> QED
      BY <3>1, <3>2, <3>3
  <2>3. n - M + 1 \in 1 .. n /\ n - M + 2 \in 1 .. n + 1
    BY <1>1, <1>4
  <2>4. \A i \in n - M + 1 .. n : d[i] \in S
    BY <1>1, <2>3 DEF n
  <2>5. \A i \in n - M + 2 .. n + 1 : u[i] \in S
    BY <1>1, <1>2, <2>3
  <2> HIDE DEF w, v
  <2>6. /\ w \in Seq(S) /\ Len(w) = n - (n - M + 1) + 1
        /\ \A i \in 1 .. n - (n - M + 1) + 1 : w[i] = d[n - M + 1 + i - 1]
    BY <1>1, <1>4, <2>1, <2>4, SubSeqProperties
  <2>7. /\ v \in Seq(S) /\ Len(v) = n + 1 - (n - M + 2) + 1
        /\ \A i \in 1 .. n + 1 - (n - M + 2) + 1 : v[i] = u[n - M + 2 + i - 1]
    BY <1>1, <1>4, <2>2, <2>5, SubSeqProperties
  <2>8. n - (n - M + 1) + 1 = M /\ n + 1 - (n - M + 2) + 1 = M
    BY <1>1
  <2>9. \A i \in 1 .. M : n - M + 1 + i - 1 = n - M + i /\ n - M + 2 + i - 1 = n - M + 1 + i
    BY <1>1
  <2> QED
    BY <2>1, <2>2, <2>6, <2>7, <2>8, <2>9
<1>5. CASE n < M
  <2>1. w = d /\ v = u
    BY <1>3, <1>5
  <2>2. ~ (Len(w) >= M)
    BY <1>1, <1>5, <2>1
  <2> QED
    BY <2>1, <2>2
<1>6. CASE n >= M
  <2>1. /\ w \in Seq(S) /\ Len(w) = M /\ \A i \in 1 .. M : w[i] = d[n - M + i]
        /\ v \in Seq(S) /\ Len(v) = M /\ \A i \in 1 .. M : v[i] = u[n - M + 1 + i]
    BY <1>4, <1>6
  <2> HIDE DEF w, v, n, u
  <2>2. w # <<>> /\ d # <<>>
    BY <1>1, <1>6, <2>1, EmptySeq
  <2>3. Last(w) = Last(d)
    <3>1. M \in 1 .. M /\ n - M + M = n
      BY <1>1
    <3>2. w[M] = d[n]
      BY <2>1, <3>1
    <3> QED
      BY <2>1, <3>2 DEF Last, n
  <2> DEFINE k == Tail(w)
             g == Append(k, e)
  <2>4. k \in Seq(S) /\ Len(k) = M - 1 /\ \A i \in 1 .. M - 1 : k[i] = w[i + 1]
    BY <2>1, <2>2, HeadTailProperties
  <2>5. /\ g \in Seq(S) /\ Len(g) = M /\ g[M] = e
        /\ \A i \in 1 .. M - 1 : g[i] = k[i]
    <3>1. M - 1 + 1 = M
      BY <1>1
    <3> HIDE DEF k
    <3> QED
      BY <2>4, <3>1, AppendOf
  <2> HIDE DEF k, g
  <2>6. ASSUME NEW i \in 1 .. M PROVE v[i] = g[i]
    <3>1. CASE i = M
      <4>1. n - M + 1 + i = n + 1
        BY <1>1, <3>1
      <4> QED
        BY <1>2, <2>1, <2>5, <3>1, <4>1
    <3>2. CASE i # M
      <4>1. PICK j \in 1 .. n : j = n - M + 1 + i
        BY <1>1, <1>6, <3>2
      <4>2. i \in 1 .. M - 1 /\ i + 1 \in 1 .. M /\ n - M + (i + 1) = j
        BY <1>1, <3>2, <4>1
      <4>3. v[i] = d[j]
        BY <1>2, <2>1, <4>1
      <4>4. g[i] = d[j]
        BY <2>1, <2>4, <2>5, <4>2
      <4> QED
        BY <4>3, <4>4
    <3> QED
      BY <3>1, <3>2
  <2>7. v = g
    BY <2>1, <2>5, <2>6, SeqEqual
  <2>8. Len(w) >= M
    BY <1>1, <2>1
  <2> QED
    BY <2>1, <2>2, <2>3, <2>7, <2>8 DEF v, g, k, u, w
<1> QED
  BY <1>1, <1>5, <1>6

\* One command more, in the history and among what was wanted
LEMMA WantedAdded ==
  ASSUME NEW w \in Seq(Entry), NEW t \in Text, ~IsBlank(EntryOf(t))
  PROVE  Added(Newest(Deduped(w), MaxHistory), t) = Newest(Deduped(Append(w, EntryOf(t))), MaxHistory)
<1> DEFINE e == EntryOf(t)
           d == Deduped(w)
           h == Newest(d, MaxHistory)
<1>1. e \in Entry /\ MaxHistory \in Nat \ {0}
  BY EntryIn, EditorAssumption
<1>2. /\ d \in Seq(Entry)
      /\ w = <<>> => d = <<>>
      /\ w # <<>> => d # <<>> /\ Last(d) = Last(w)
      /\ Deduped(Append(w, e)) = IF w # <<>> /\ Last(w) = e THEN d ELSE Append(d, e)
  <2> HIDE DEF e
  <2> QED
    BY <1>1, DedupedAppend
<1>3. /\ h \in Seq(Entry)
      /\ d # <<>> => h # <<>> /\ Last(h) = Last(d)
      /\ Newest(Append(d, e), MaxHistory) = Append(IF Len(h) >= MaxHistory THEN Tail(h) ELSE h, e)
  <2>1. e \in Entry /\ d \in Seq(Entry) /\ MaxHistory \in Nat \ {0}
    BY <1>1, <1>2
  <2> HIDE DEF e, d
  <2>2. LET v == Newest(d, MaxHistory)
        IN  /\ v \in Seq(Entry)
            /\ d # <<>> => v # <<>> /\ Last(v) = Last(d)
            /\ Newest(Append(d, e), MaxHistory) = Append(IF Len(v) >= MaxHistory THEN Tail(v) ELSE v, e)
    <3> HIDE DEF h
    <3> QED
      BY <2>1, NewestAppend
  <2> QED
    BY <2>2
<1>4. d = <<>> => h = <<>>
  <2>1. Newest(<<>>, MaxHistory) = <<>>
    <3>1. Len(<<>>) = 0 /\ ~ (0 > MaxHistory)
      BY <1>1, EmptySeq
    <3>2. Newest(<<>>, MaxHistory) = SubSeq(<<>>, 1, 0)
      BY <3>1 DEF Newest
    <3> QED
      BY <3>2, SubSeqEmpty
  <2> HIDE DEF d
  <2> QED
    BY <2>1
<1>5. Added(h, t) = IF h # <<>> /\ Last(h) = e THEN h
                    ELSE Append(IF Len(h) >= MaxHistory THEN Tail(h) ELSE h, e)
  BY DEF Added
<1> HIDE DEF e, d, h
<1>6. (h # <<>> /\ Last(h) = e) <=> (w # <<>> /\ Last(w) = e)
  BY <1>2, <1>3, <1>4
<1> QED
  BY <1>2, <1>3, <1>5, <1>6 DEF e, d, h

\* A clean history is what it asks for itself.
LEMMA CleanWanted ==
  ASSUME NEW h, Clean(h)
  PROVE  Newest(Deduped(h), MaxHistory) = h
<1>1. /\ h \in Seq(Entry) /\ Len(h) <= MaxHistory /\ NoRepeat(h) /\ MaxHistory \in Nat
      /\ Len(h) \in Nat
  BY LenProperties, EditorAssumption DEF Clean
<1>2. Deduped(h) = h
  BY <1>1, DedupedSame
<1>3. Newest(h, MaxHistory) = SubSeq(h, 1, Len(h))
  <2>1. ~ (Len(h) > MaxHistory)
    BY <1>1
  <2> QED
    BY <2>1 DEF Newest
<1> QED
  BY <1>1, <1>2, <1>3, SubSeqFull

-----------------------------------------------------------------------------
(* load_history *)

ReadState == [history : {h \in Seq(Entry) : Clean(h)}, line : Text]
Reads(f, t) ==
  f = [i \in 0 .. Len(t) |->
         IF i = 0 THEN [history |-> <<>>, line |-> <<>>] ELSE Read(f[i - 1], t[i])]
ReadRun(t) == CHOOSE f : Reads(f, t)

\* One character of the file
LEMMA ReadKeeps ==
  ASSUME NEW s \in ReadState, NEW c \in Char
  PROVE  Read(s, c) \in ReadState
<1> DEFINE t == Append(s.line, c)
           a == Added(s.history, WithoutNewlines(t))
<1>1. t \in Text /\ Clean(s.history) /\ s.line \in Text
  BY AppendOf DEF ReadState, Text
<1>2. WithoutNewlines(t) \in Text
  BY <1>1, WithoutNewlinesText
<1>3. Clean(a)
  BY <1>1, <1>2, AddedClean
<1>4. Read(s, c) = IF c = NL \/ Len(t) = MaxLine THEN [history |-> a, line |-> <<>>]
                   ELSE [s EXCEPT !.line = t]
  BY DEF Read
<1> HIDE DEF t, a
<1>5. a \in {h \in Seq(Entry) : Clean(h)}
  BY <1>3 DEF Clean
<1>6. [history |-> a, line |-> <<>>] \in ReadState
  BY <1>5, EmptyText DEF ReadState
<1>7. [s EXCEPT !.line = t] \in ReadState
  BY <1>1 DEF ReadState
<1> QED
  BY <1>4, <1>6, <1>7

LEMMA NoHistory == Clean(<<>>)
<1>1. <<>> \in Seq(Entry) /\ Len(<<>>) = 0 /\ MaxHistory \in Nat
  BY EmptySeq, EditorAssumption
<1> QED
  BY <1>1 DEF Clean, NoRepeat

\* What has been loaded after each character of the file
LEMMA ReadRunIs ==
  ASSUME NEW t \in Text
  PROVE  /\ ReadRun(t)[0] = [history |-> <<>>, line |-> <<>>]
         /\ \A i \in 1 .. Len(t) : ReadRun(t)[i] = Read(ReadRun(t)[i - 1], t[i])
         /\ \A i \in 0 .. Len(t) : ReadRun(t)[i] \in ReadState
         /\ Loaded(t) = Added(ReadRun(t)[Len(t)].history, WithoutNewlines(ReadRun(t)[Len(t)].line))
<1> DEFINE n == Len(t)
           a == [history |-> <<>>, line |-> <<>>]
           g == [i \in 1 .. n |-> [s \in ReadState |-> Read(s, t[i])]]
           f == ReadRun(t)
           T == {i \in 0 .. n : f[i] \in ReadState}
<1>1. n \in Nat /\ \A i \in 1 .. n : t[i] \in Char
  BY LenProperties DEF Text
<1>2. a \in ReadState
  <2>1. <<>> \in {h \in Seq(Entry) : Clean(h)}
    BY NoHistory DEF Clean
  <2> QED
    BY <2>1, EmptyText DEF ReadState
<1>3. \A i \in 1 .. n : \A s \in ReadState : Read(s, t[i]) \in ReadState
  BY <1>1, ReadKeeps
<1>4. \E h : Reads(h, t)
  <2>1. g \in [1 .. n -> [ReadState -> ReadState]]
    BY <1>3
  <2> HIDE DEF n, a
  <2>2. PICK h : Recursion(h, ReadState, a, g, n)
    <3> HIDE DEF g
    <3> QED
      BY <1>1, <1>2, <2>1, Recurs
  <2>3. h \in [0 .. n -> ReadState] /\ h[0] = a /\ \A i \in 1 .. n : h[i] = g[i][h[i - 1]]
    <3> HIDE DEF g
    <3> QED
      BY <2>2 DEF Recursion
  <2>4. ASSUME NEW i \in 1 .. n PROVE h[i] = Read(h[i - 1], t[i])
    <3>1. h[i - 1] \in ReadState
      BY <1>1, <2>3
    <3> QED
      BY <2>3, <3>1
  <2>5. h = [i \in 0 .. n |-> IF i = 0 THEN a ELSE Read(h[i - 1], t[i])]
    <3> HIDE DEF g
    <3>1. \A i \in 0 .. n : h[i] = IF i = 0 THEN a ELSE Read(h[i - 1], t[i])
      BY <1>1, <2>3, <2>4
    <3> QED
      BY <2>3, <3>1
  <2>6. Reads(h, t)
    BY <2>5 DEF Reads, n, a
  <2> QED
    BY <2>6
<1>5. Reads(f, t)
  BY <1>4 DEF ReadRun
<1>6. Loaded(t) = Added(f[n].history, WithoutNewlines(f[n].line))
  BY DEF Loaded, ReadRun, Reads
<1> HIDE DEF f
<1>7. \A i \in 0 .. n : f[i] = IF i = 0 THEN a ELSE Read(f[i - 1], t[i])
  BY <1>5 DEF Reads
<1> HIDE DEF n, a
<1>8. f[0] = a /\ \A i \in 1 .. n : f[i] = Read(f[i - 1], t[i])
  BY <1>1, <1>7
<1>9. 0 .. n \subseteq T
  <2>1. 0 \in T
    BY <1>1, <1>2, <1>8
  <2>2. ASSUME NEW k \in 0 .. n - 1, k \in T PROVE k + 1 \in T
    <3>1. k + 1 \in 1 .. n /\ k + 1 \in 0 .. n /\ k + 1 - 1 = k
      BY <1>1
    <3>2. f[k + 1] = Read(f[k], t[k + 1]) /\ f[k] \in ReadState
      BY <1>8, <2>2, <3>1
    <3>3. f[k + 1] \in ReadState
      BY <1>3, <3>1, <3>2
    <3> QED
      BY <3>1, <3>3
  <2> HIDE DEF T
  <2> QED
    BY <1>1, <2>1, <2>2, Induction
<1> QED
  BY <1>6, <1>8, <1>9 DEF f, n, a

\* Whatever the file holds, the history that is loaded from it is clean.
LEMMA LoadedClean ==
  ASSUME NEW t \in Text
  PROVE  Clean(Loaded(t))
<1> DEFINE s == ReadRun(t)[Len(t)]
<1>1. Len(t) \in 0 .. Len(t)
  BY LenProperties DEF Text
<1>2. s \in ReadState /\ Loaded(t) = Added(s.history, WithoutNewlines(s.line))
  BY <1>1, ReadRunIs
<1> HIDE DEF s
<1>3. Clean(s.history) /\ s.line \in Text
  BY <1>2 DEF ReadState
<1>4. WithoutNewlines(s.line) \in Text
  BY <1>3, WithoutNewlinesText
<1> QED
  BY <1>2, <1>3, <1>4, AddedClean

-----------------------------------------------------------------------------
(* save_history *)

Lined(t, e) == t \o e \o <<NL>>
Writes(f, h) ==
  f = [k \in 0 .. Len(h) |-> IF k = 0 THEN <<>> ELSE Lined(f[k - 1], h[k])]
WriteRun(h) == CHOOSE f : Writes(f, h)

\* A text, an entry and a newline
LEMMA Line ==
  ASSUME NEW t \in Text, NEW e \in Text
  PROVE  LET u == Lined(t, e)
         IN  /\ u \in Text /\ Len(u) = Len(t) + Len(e) + 1
             /\ \A i \in 1 .. Len(t) : u[i] = t[i]
             /\ \A i \in 1 .. Len(e) : u[Len(t) + i] = e[i]
             /\ u[Len(t) + Len(e) + 1] = NL
<1> DEFINE v == t \o e
           u == v \o <<NL>>
<1>1. Len(t) \in Nat /\ Len(e) \in Nat /\ NL \in Char
  BY LenProperties, EditorAssumption DEF Text
<1>2. /\ v \in Text /\ Len(v) = Len(t) + Len(e)
      /\ \A i \in 1 .. Len(v) : v[i] = IF i <= Len(t) THEN t[i] ELSE e[i - Len(t)]
  BY ConcatProperties DEF Text
<1> HIDE DEF v
<1>3. u = Append(v, NL)
  BY <1>1, <1>2, AppendIsConcat DEF Text
<1>4. u \in Text /\ Len(u) = Len(v) + 1 /\ u[Len(v) + 1] = NL /\ \A i \in 1 .. Len(v) : u[i] = v[i]
  BY <1>1, <1>2, <1>3, AppendOf DEF Text
<1> HIDE DEF u
<1>5. \A i \in 1 .. Len(t) : u[i] = t[i]
  BY <1>1, <1>2, <1>4
<1>6. ASSUME NEW i \in 1 .. Len(e) PROVE u[Len(t) + i] = e[i]
  <2>1. PICK j \in 1 .. Len(v) : j = Len(t) + i /\ ~ (j <= Len(t)) /\ j - Len(t) = i
    BY <1>1, <1>2
  <2> QED
    BY <1>2, <1>4, <2>1
<1> QED
  BY <1>2, <1>4, <1>5, <1>6 DEF Lined, u, v

\* What has been written after each entry
LEMMA WriteRunIs ==
  ASSUME NEW h \in Seq(Text)
  PROVE  /\ WriteRun(h)[0] = <<>> /\ Written(h) = WriteRun(h)[Len(h)]
         /\ \A k \in 1 .. Len(h) : WriteRun(h)[k] = Lined(WriteRun(h)[k - 1], h[k])
         /\ \A k \in 0 .. Len(h) : WriteRun(h)[k] \in Text
<1> DEFINE n == Len(h)
           g == [k \in 1 .. n |-> [t \in Text |-> Lined(t, h[k])]]
           f == WriteRun(h)
           T == {k \in 0 .. n : f[k] \in Text}
<1>1. n \in Nat /\ <<>> \in Text /\ \A k \in 1 .. n : h[k] \in Text
  BY LenProperties, EmptyText
<1>2. \A k \in 1 .. n : \A t \in Text : Lined(t, h[k]) \in Text
  <2> HIDE DEF n
  <2> QED
    BY <1>1, Line
<1>3. \E r : Writes(r, h)
  <2>1. g \in [1 .. n -> [Text -> Text]]
    BY <1>2
  <2> HIDE DEF n
  <2>2. PICK r : Recursion(r, Text, <<>>, g, n)
    <3> HIDE DEF g
    <3> QED
      BY <1>1, <2>1, Recurs
  <2>3. r \in [0 .. n -> Text] /\ r[0] = <<>> /\ \A k \in 1 .. n : r[k] = g[k][r[k - 1]]
    <3> HIDE DEF g
    <3> QED
      BY <2>2 DEF Recursion
  <2>4. ASSUME NEW k \in 1 .. n PROVE r[k] = Lined(r[k - 1], h[k])
    <3>1. r[k - 1] \in Text
      BY <1>1, <2>3
    <3> QED
      BY <2>3, <3>1
  <2>5. r = [k \in 0 .. n |-> IF k = 0 THEN <<>> ELSE Lined(r[k - 1], h[k])]
    <3> HIDE DEF g
    <3>1. \A k \in 0 .. n : r[k] = IF k = 0 THEN <<>> ELSE Lined(r[k - 1], h[k])
      BY <1>1, <2>3, <2>4
    <3> QED
      BY <2>3, <3>1
  <2>6. Writes(r, h)
    BY <2>5 DEF Writes, n
  <2> QED
    BY <2>6
<1>4. Writes(f, h)
  BY <1>3 DEF WriteRun
<1>5. Written(h) = f[n]
  BY DEF Written, WriteRun, Writes, Lined
<1> HIDE DEF f
<1>6. \A k \in 0 .. n : f[k] = IF k = 0 THEN <<>> ELSE Lined(f[k - 1], h[k])
  BY <1>4 DEF Writes
<1> HIDE DEF n
<1>7. f[0] = <<>> /\ \A k \in 1 .. n : f[k] = Lined(f[k - 1], h[k])
  BY <1>1, <1>6
<1>8. 0 .. n \subseteq T
  <2>1. 0 \in T
    BY <1>1, <1>7
  <2>2. ASSUME NEW k \in 0 .. n - 1, k \in T PROVE k + 1 \in T
    <3>1. k + 1 \in 1 .. n /\ k + 1 \in 0 .. n /\ k + 1 - 1 = k
      BY <1>1
    <3>2. f[k + 1] = Lined(f[k], h[k + 1]) /\ f[k] \in Text
      BY <1>7, <2>2, <3>1
    <3>3. f[k + 1] \in Text
      BY <1>2, <3>1, <3>2
    <3> QED
      BY <3>1, <3>3
  <2> HIDE DEF T
  <2> QED
    BY <1>1, <2>1, <2>2, Induction
<1> QED
  BY <1>5, <1>7, <1>8 DEF f, n

\* What is written for some of the entries starts what is written for more of them.
LEMMA WriteRunGrows ==
  ASSUME NEW h \in Seq(Text), NEW k \in 0 .. Len(h)
  PROVE  \A m \in k .. Len(h) :
           /\ Len(WriteRun(h)[k]) <= Len(WriteRun(h)[m])
           /\ \A i \in 1 .. Len(WriteRun(h)[k]) : WriteRun(h)[m][i] = WriteRun(h)[k][i]
<1> DEFINE n == Len(h)
           f == WriteRun(h)
           Starts(m) == Len(f[k]) <= Len(f[m]) /\ \A i \in 1 .. Len(f[k]) : f[m][i] = f[k][i]
           T == {d \in 0 .. n - k : Starts(k + d)}
<1>1. n \in Nat /\ \A m \in 1 .. n : h[m] \in Text
  BY LenProperties
<1>2. /\ \A m \in 1 .. n : f[m] = Lined(f[m - 1], h[m])
      /\ \A m \in 0 .. n : f[m] \in Text
  BY WriteRunIs
<1>3. \A m \in 0 .. n : Len(f[m]) \in Nat
  BY <1>2, LenProperties DEF Text
<1>k. k \in 0 .. n
  OBVIOUS
<1> HIDE DEF n, f
<1>4. 0 \in T
  <2>1. 0 \in 0 .. n - k /\ k + 0 = k
    BY <1>1, <1>k
  <2>2. Starts(k)
    BY <1>3, <1>k
  <2> HIDE DEF Starts
  <2> QED
    BY <2>1, <2>2
<1>5. ASSUME NEW d \in 0 .. n - k - 1, d \in T PROVE d + 1 \in T
  <2>1. PICK m \in 0 .. n : m = k + d
    BY <1>1, <1>k
  <2>2. m + 1 \in 1 .. n /\ m + 1 - 1 = m /\ m + 1 \in 0 .. n /\ k + (d + 1) = m + 1 /\ d + 1 \in 0 .. n - k
    BY <1>1, <1>k, <2>1
  <2>3. f[m + 1] = Lined(f[m], h[m + 1]) /\ f[m] \in Text /\ h[m + 1] \in Text
    BY <1>1, <1>2, <2>2
  <2>4. /\ Len(f[m + 1]) = Len(f[m]) + Len(h[m + 1]) + 1
        /\ \A i \in 1 .. Len(f[m]) : f[m + 1][i] = f[m][i]
    <3> DEFINE t == f[m]
               e == h[m + 1]
    <3>1. t \in Text /\ e \in Text /\ f[m + 1] = Lined(t, e)
      BY <2>3
    <3> HIDE DEF t, e, Starts, T
    <3>2. Len(Lined(t, e)) = Len(t) + Len(e) + 1 /\ \A i \in 1 .. Len(t) : Lined(t, e)[i] = t[i]
      BY <3>1, Line
    <3> QED
      BY <3>1, <3>2 DEF t, e
  <2>5. Len(h[m + 1]) \in Nat
    BY <2>3, LenProperties DEF Text
  <2>6. Starts(m)
    BY <1>5, <2>1
  <2>7. Starts(m + 1)
    <3>1. Len(f[k]) \in Nat /\ Len(f[m]) \in Nat /\ Len(f[k]) <= Len(f[m])
      BY <1>3, <1>k, <2>1, <2>6
    <3>2. Len(f[k]) <= Len(f[m + 1])
      <4>1. \A x, y, z \in Nat : x <= y => x <= y + z + 1
        OBVIOUS
      <4> QED
        BY <2>4, <2>5, <3>1, <4>1
    <3>3. \A i \in 1 .. Len(f[k]) : i \in 1 .. Len(f[m])
      BY <3>1
    <3> QED
      BY <2>4, <2>6, <3>2, <3>3
  <2> HIDE DEF Starts
  <2> QED
    BY <2>2, <2>7
<1>6. 0 .. n - k \subseteq T
  <2>1. n - k \in Nat
    BY <1>1, <1>k
  <2> HIDE DEF T
  <2> QED
    BY <1>4, <1>5, <2>1, Induction
<1>7. ASSUME NEW m \in k .. n PROVE Starts(m)
  <2>1. m - k \in 0 .. n - k /\ k + (m - k) = m
    BY <1>1, <1>k
  <2> HIDE DEF Starts
  <2> QED
    BY <1>6, <2>1
<1> QED
  BY <1>7 DEF f, n

\* What one character of the file changes
LEMMA ReadEffect ==
  ASSUME NEW s \in ReadState, NEW c
  PROVE  LET t == Append(s.line, c)
         IN  /\ c = NL \/ Len(t) = MaxLine =>
                  Read(s, c).history = Added(s.history, WithoutNewlines(t)) /\ Read(s, c).line = <<>>
             /\ ~ (c = NL \/ Len(t) = MaxLine) =>
                  Read(s, c).history = s.history /\ Read(s, c).line = t
<1> DEFINE t == Append(s.line, c)
           a == Added(s.history, WithoutNewlines(t))
<1>1. Read(s, c) = IF c = NL \/ Len(t) = MaxLine THEN [history |-> a, line |-> <<>>]
                   ELSE [s EXCEPT !.line = t]
  BY DEF Read
<1> HIDE DEF t, a
<1>2. [s EXCEPT !.line = t].history = s.history /\ [s EXCEPT !.line = t].line = t
  BY DEF ReadState
<1> QED
  BY <1>1, <1>2 DEF t, a

\* An entry and its newline, wherever they are in the file, are added as they are: also
\* when the entry fills the buffer and its newline is read as a line of its own.
LEMMA ReadEntry ==
  ASSUME NEW f \in Text, NEW p \in Nat, NEW e \in Entry, p + Len(e) + 1 <= Len(f),
         \A i \in 1 .. Len(e) : f[p + i] = e[i], f[p + Len(e) + 1] = NL,
         ReadRun(f)[p].line = <<>>
  PROVE  /\ ReadRun(f)[p + Len(e) + 1].history = Added(ReadRun(f)[p].history, e)
         /\ ReadRun(f)[p + Len(e) + 1].line = <<>>
<1> DEFINE r == ReadRun(f)
           g == r[p].history
           n == Len(e)
           Holds(j) == IF j < MaxLine THEN r[p + j].history = g /\ r[p + j].line = Cut(e, j)
                       ELSE r[p + j].history = Added(g, e) /\ r[p + j].line = <<>>
           T == {j \in 0 .. n : Holds(j)}
<1>1. /\ e \in Text /\ n \in Nat /\ Len(f) \in Nat /\ MaxLine \in Nat \ {0} /\ n <= MaxLine
      /\ p + n + 1 <= Len(f) /\ OneLine(e) /\ f[p + n + 1] = NL /\ WithoutNewlines(e) = e
      /\ \A i \in 1 .. n : f[p + i] = e[i]
  BY LenProperties, EditorAssumption, WithoutNewlinesText DEF Text, Entry, Normal
<1>2. /\ \A i \in 1 .. Len(f) : r[i] = Read(r[i - 1], f[i])
      /\ \A i \in 0 .. Len(f) : r[i] \in ReadState
  BY ReadRunIs
<1>3. \A j \in 0 .. n : Cut(e, j) \in Text /\ Len(Cut(e, j)) = j
  BY <1>1, PartOf DEF Cut
<1>4. \A j \in 0 .. n - 1 : Append(Cut(e, j), e[j + 1]) = Cut(e, j + 1)
  BY <1>1 DEF Cut, Text
<1>5. Cut(e, n) = e /\ Cut(e, 0) = <<>>
  BY <1>1, WholeText, SubSeqEmpty DEF Cut
<1>6. r[p].history = g /\ r[p].line = <<>>
  OBVIOUS
<1> HIDE DEF r, n, g
<1>7. 0 \in T
  <2>1. 0 \in 0 .. n /\ 0 < MaxLine /\ p + 0 = p
    BY <1>1
  <2>2. Holds(0)
    BY <1>5, <1>6, <2>1
  <2> HIDE DEF Holds
  <2> QED
    BY <2>1, <2>2
<1>8. ASSUME NEW j \in 0 .. n - 1, j \in T PROVE j + 1 \in T
  <2>1. /\ j \in Nat /\ j \in 0 .. n /\ j < MaxLine /\ j + 1 \in 1 .. n /\ j + 1 \in 0 .. n
        /\ p + (j + 1) \in 1 .. Len(f) /\ p + (j + 1) - 1 = p + j /\ p + j \in 0 .. Len(f)
    BY <1>1
  <2>2. r[p + j].history = g /\ r[p + j].line = Cut(e, j) /\ r[p + j] \in ReadState
    BY <1>2, <1>8, <2>1
  <2> DEFINE s == r[p + j]
             c == e[j + 1]
             t == Append(s.line, c)
  <2>3. r[p + (j + 1)] = Read(s, c)
    <3>1. f[p + (j + 1)] = c
      BY <1>1, <2>1
    <3> QED
      BY <1>2, <2>1, <3>1
  <2>4. t = Cut(e, j + 1) /\ Len(t) = j + 1
    BY <1>3, <1>4, <2>1, <2>2
  <2>5. c # NL
    BY <1>1, <2>1 DEF OneLine, n
  <2>6. /\ Len(t) = MaxLine => Read(s, c).history = Added(g, WithoutNewlines(t)) /\ Read(s, c).line = <<>>
        /\ ~ (Len(t) = MaxLine) => Read(s, c).history = g /\ Read(s, c).line = t
    <3> HIDE DEF c
    <3>1. s \in ReadState /\ s.history = g
      BY <2>2
    <3> HIDE DEF s
    <3> QED
      BY <2>5, <3>1, ReadEffect
  <2> HIDE DEF s, c, t
  <2>7. Holds(j + 1)
    <3>1. CASE j + 1 = MaxLine
      <4>1. j + 1 = n /\ ~ (j + 1 < MaxLine)
        BY <1>1, <2>1, <3>1
      <4>2. t = e
        BY <1>5, <2>4, <4>1
      <4>3. Len(t) = MaxLine
        BY <2>4, <3>1
      <4> QED
        BY <1>1, <2>3, <2>6, <4>1, <4>2, <4>3
    <3>2. CASE j + 1 # MaxLine
      <4>1. j + 1 < MaxLine
        BY <1>1, <2>1, <3>2
      <4> QED
        BY <2>3, <2>4, <2>6, <3>2, <4>1
    <3> QED
      BY <3>1, <3>2
  <2> HIDE DEF Holds
  <2> QED
    BY <2>1, <2>7
<1>9. Holds(n)
  <2>1. 0 .. n \subseteq T
    <3> HIDE DEF T
    <3> QED
      BY <1>1, <1>7, <1>8, Induction
  <2> HIDE DEF Holds
  <2> QED
    BY <1>1, <2>1
<1> DEFINE s == r[p + n]
           t == Append(s.line, NL)
           q == Read(s, NL)
<1>10. r[p + n + 1] = q /\ s \in ReadState
  <2>1. p + n + 1 \in 1 .. Len(f) /\ p + n + 1 - 1 = p + n /\ p + n \in 0 .. Len(f)
    BY <1>1
  <2> QED
    BY <1>1, <1>2, <2>1
<1>11. q.history = Added(s.history, WithoutNewlines(t)) /\ q.line = <<>>
  <2> HIDE DEF s
  <2> QED
    BY <1>10, ReadEffect
<1>12. CASE n < MaxLine
  <2>1. s.history = g /\ s.line = e
    BY <1>5, <1>9, <1>12
  <2>2. t = Append(e, NL)
    BY <2>1
  <2> HIDE DEF s, t
  <2>3. /\ t \in Text /\ Len(t) = n + 1 /\ t[n + 1] = NL /\ Cut(t, n) = e
    <3>1. NL \in Char /\ e \in Seq(Char) /\ n = Len(e)
      BY <1>1, EditorAssumption DEF Text, n
    <3> HIDE DEF n
    <3> QED
      BY <2>2, <3>1, AppendOf DEF Text, Cut
  <2>4. WithoutNewlines(t) = e
    <3>1. Len(t) # 0 /\ Len(t) - 1 = n
      BY <1>1, <2>3
    <3> QED
      BY <1>1, <2>3, <3>1, WithoutNewlinesText
  <2> QED
    BY <1>10, <1>11, <2>1, <2>4 DEF r, g, n
<1>13. CASE ~ (n < MaxLine)
  <2>1. s.history = Added(g, e) /\ s.line = <<>>
    BY <1>9, <1>13
  <2>2. t = Append(<<>>, NL)
    BY <2>1
  <2> HIDE DEF s, t
  <2>3. t \in Text /\ Len(t) = 1 /\ t[1] = NL
    <3>1. NL \in Char /\ <<>> \in Seq(Char) /\ Len(<<>>) = 0
      BY EditorAssumption, EmptySeq
    <3> QED
      BY <2>2, <3>1, AppendOf DEF Text
  <2>4. \A i \in 1 .. Len(t) : t[i] = NL
    BY <2>3
  <2>5. WithoutNewlines(t) = <<>>
    BY <2>3, <2>4, WithoutNewlinesText
  <2> QED
    BY <1>10, <1>11, <2>1, <2>5, NothingAdded DEF r, g, n
<1> QED
  BY <1>12, <1>13

\* A clean history that is written is read back as it was.
LEMMA RoundTrip ==
  ASSUME NEW h, Clean(h)
  PROVE  Written(h) \in Text /\ Loaded(Written(h)) = h
<1> DEFINE n == Len(h)
           w == WriteRun(h)
           f == w[n]
           r == ReadRun(f)
           Holds(k) == r[Len(w[k])].history = Cut(h, k) /\ r[Len(w[k])].line = <<>>
           T == {k \in 0 .. n : Holds(k)}
<1>1. h \in Seq(Entry) /\ h \in Seq(Text) /\ n \in Nat /\ \A k \in 1 .. n : h[k] \in Entry
  <2>1. h \in Seq(Entry)
    BY DEF Clean
  <2>2. Entry \subseteq Text
    BY DEF Entry
  <2> QED
    BY <2>1, <2>2, LenProperties, SeqMonotonic
<1>2. /\ w[0] = <<>> /\ Written(h) = f
      /\ \A k \in 1 .. n : w[k] = Lined(w[k - 1], h[k])
      /\ \A k \in 0 .. n : w[k] \in Text
  BY <1>1, WriteRunIs
<1>3. \A k \in 0 .. n : /\ Len(w[k]) \in Nat /\ Len(w[k]) <= Len(f)
                        /\ \A i \in 1 .. Len(w[k]) : f[i] = w[k][i]
  <2>1. ASSUME NEW k \in 0 .. n
        PROVE  Len(w[k]) <= Len(f) /\ \A i \in 1 .. Len(w[k]) : f[i] = w[k][i]
    <3>1. n \in k .. n
      BY <1>1
    <3> HIDE DEF w
    <3>2. \A m \in k .. n : Len(w[k]) <= Len(w[m]) /\ \A i \in 1 .. Len(w[k]) : w[m][i] = w[k][i]
      BY <1>1, WriteRunGrows DEF w
    <3> QED
      BY <3>1, <3>2
  <2>2. \A k \in 0 .. n : Len(w[k]) \in Nat
    BY <1>2, LenProperties DEF Text
  <2> QED
    BY <2>1, <2>2
<1>4. f \in Text /\ r[0].history = <<>> /\ r[0].line = <<>> /\ Len(w[0]) = 0
      /\ Loaded(f) = Added(r[Len(f)].history, WithoutNewlines(r[Len(f)].line))
  <2>1. f \in Text
    BY <1>1, <1>2
  <2>2. r[0] = [history |-> <<>>, line |-> <<>>]
    BY <2>1, ReadRunIs
  <2>3. Loaded(f) = Added(r[Len(f)].history, WithoutNewlines(r[Len(f)].line))
    <3> HIDE DEF f
    <3> QED
      BY <2>1, ReadRunIs
  <2>4. Len(w[0]) = 0
    BY <1>2, EmptySeq
  <2> QED
    BY <2>1, <2>2, <2>3, <2>4
<1>5. Cut(h, n) = h /\ Cut(h, 0) = <<>>
  BY <1>1, SubSeqFull, SubSeqEmpty DEF Cut
<1> HIDE DEF n, w, f, r
<1>6. 0 \in T
  <2>1. 0 \in 0 .. n
    BY <1>1
  <2>2. Holds(0)
    BY <1>4, <1>5
  <2> HIDE DEF Holds
  <2> QED
    BY <2>1, <2>2
<1>7. ASSUME NEW k \in 0 .. n - 1, k \in T PROVE k + 1 \in T
  <2> DEFINE e == h[k + 1]
             p == Len(w[k])
             v == w[k + 1]
  <2>1. k \in 0 .. n /\ k + 1 \in 0 .. n /\ k + 1 \in 1 .. n /\ k + 1 - 1 = k /\ k < n
    BY <1>1
  <2>2. e \in Entry /\ e \in Text /\ w[k] \in Text /\ v = Lined(w[k], e)
    BY <1>1, <1>2, <2>1 DEF Entry
  <2>3. /\ Len(v) \in Nat /\ Len(v) <= Len(f) /\ \A i \in 1 .. Len(v) : f[i] = v[i]
        /\ p \in Nat
    BY <1>3, <2>1
  <2> HIDE DEF e, v
  <2>4. /\ Len(v) = p + Len(e) + 1 /\ \A i \in 1 .. Len(e) : v[p + i] = e[i]
        /\ v[p + Len(e) + 1] = NL
    BY <2>2, Line
  <2>5. Len(e) \in Nat
    BY <2>2, LenProperties DEF Text
  <2> HIDE DEF p
  <2>6. \A i \in 1 .. Len(e) : f[p + i] = e[i]
    <3>1. ASSUME NEW i \in 1 .. Len(e) PROVE p + i \in 1 .. Len(v)
      BY <2>3, <2>4, <2>5
    <3> QED
      BY <2>3, <2>4, <3>1
  <2>7. f[p + Len(e) + 1] = NL /\ p + Len(e) + 1 <= Len(f)
    <3>1. p + Len(e) + 1 \in 1 .. Len(v)
      BY <2>3, <2>4, <2>5
    <3> QED
      BY <2>3, <2>4, <3>1
  <2>8. r[p].history = Cut(h, k) /\ r[p].line = <<>>
    BY <1>7 DEF p
  <2>9. r[p + Len(e) + 1].history = Added(r[p].history, e) /\ r[p + Len(e) + 1].line = <<>>
    BY <1>4, <2>2, <2>3, <2>6, <2>7, <2>8, ReadEntry DEF r
  <2>10. Added(Cut(h, k), e) = Cut(h, k + 1)
    BY <2>1, CleanGrows DEF n, e
  <2>11. Holds(k + 1)
    BY <2>4, <2>8, <2>9, <2>10 DEF v
  <2> HIDE DEF Holds
  <2> QED
    BY <2>1, <2>11
<1>8. Holds(n)
  <2>1. 0 .. n \subseteq T
    <3> HIDE DEF T
    <3> QED
      BY <1>1, <1>6, <1>7, Induction
  <2> HIDE DEF Holds
  <2> QED
    BY <1>1, <2>1
<1>9. r[Len(f)].history = h /\ r[Len(f)].line = <<>>
  BY <1>5, <1>8 DEF f
<1>10. WithoutNewlines(<<>>) = <<>>
  BY EmptyText, WithoutNewlinesText
<1> QED
  BY <1>2, <1>4, <1>9, <1>10, NothingAdded

-----------------------------------------------------------------------------
(* What the keys make of a line *)

LEMMA Pieces ==
  ASSUME NEW t \in Text, NEW k \in 0 .. Len(t), NEW j \in k .. Len(t)
  PROVE  /\ Before(t, k) \in Text /\ Len(Before(t, k)) = k
         /\ After(t, k) \in Text /\ Len(After(t, k)) = Len(t) - k
         /\ SubSeq(t, k + 1, j) \in Text /\ Len(SubSeq(t, k + 1, j)) = j - k
<1>1. Len(t) \in Nat
  BY LenProperties DEF Text
<1>2. 1 \in 1 .. Len(t) + 1 /\ k \in 1 - 1 .. Len(t) /\ k - 1 + 1 = k
  BY <1>1
<1>3. /\ k + 1 \in 1 .. Len(t) + 1 /\ j \in (k + 1) - 1 .. Len(t) /\ j - (k + 1) + 1 = j - k
      /\ Len(t) \in (k + 1) - 1 .. Len(t) /\ Len(t) - (k + 1) + 1 = Len(t) - k
  BY <1>1
<1>4. Before(t, k) \in Text /\ Len(Before(t, k)) = k
  BY <1>2, PartOf DEF Before
<1>5. After(t, k) \in Text /\ Len(After(t, k)) = Len(t) - k
  BY <1>3, PartOf DEF After
<1>6. SubSeq(t, k + 1, j) \in Text /\ Len(SubSeq(t, k + 1, j)) = j - k
  BY <1>3, PartOf
<1> QED
  BY <1>4, <1>5, <1>6

LEMMA Together ==
  ASSUME NEW a \in Text, NEW b \in Text, NEW c \in Text
  PROVE  a \o b \o c \in Text /\ Len(a \o b \o c) = Len(a) + Len(b) + Len(c)
<1>1. a \o b \in Text /\ Len(a \o b) = Len(a) + Len(b)
  BY ConcatProperties DEF Text
<1> QED
  BY <1>1, ConcatProperties DEF Text

\* A line whose part from k to the cursor j gives way to b
LEMMA Replaced ==
  ASSUME NEW t \in Text, NEW k \in 0 .. Len(t), NEW j \in k .. Len(t), NEW b \in Text
  PROVE  LET l == Before(t, k) \o b \o After(t, j)
         IN  l \in Text /\ k + Len(b) \in 0 .. Len(l)
<1>1. Len(t) \in Nat /\ Len(b) \in Nat
  BY LenProperties DEF Text
<1>2. j \in 0 .. Len(t) /\ j \in j .. Len(t)
  BY <1>1
<1>3. Before(t, k) \in Text /\ Len(Before(t, k)) = k
  BY Pieces
<1>4. After(t, j) \in Text /\ Len(After(t, j)) = Len(t) - j
  BY <1>2, Pieces
<1>5. LET l == Before(t, k) \o b \o After(t, j)
      IN  l \in Text /\ Len(l) = k + Len(b) + (Len(t) - j)
  BY <1>3, <1>4, Together
<1> DEFINE l == Before(t, k) \o b \o After(t, j)
<1> HIDE DEF l
<1>6. l \in Text /\ Len(l) = k + Len(b) + (Len(t) - j)
  BY <1>5 DEF l
<1>7. k + Len(b) \in 0 .. Len(l)
  BY <1>1, <1>6
<1> QED
  BY <1>6, <1>7 DEF l

\* A line without its part from k to the cursor j
LEMMA Shortened ==
  ASSUME NEW t \in Text, NEW k \in 0 .. Len(t), NEW j \in k .. Len(t)
  PROVE  LET l == Before(t, k) \o After(t, j)
         IN  l \in Text /\ k \in 0 .. Len(l)
<1>1. Len(t) \in Nat
  BY LenProperties DEF Text
<1>2. j \in 0 .. Len(t) /\ j \in j .. Len(t)
  BY <1>1
<1>3. Before(t, k) \in Text /\ Len(Before(t, k)) = k
  BY Pieces
<1>4. After(t, j) \in Text /\ Len(After(t, j)) = Len(t) - j
  BY <1>2, Pieces
<1> DEFINE l == Before(t, k) \o After(t, j)
<1>5. l \in Text /\ Len(l) = k + (Len(t) - j)
  BY <1>3, <1>4, ConcatProperties DEF Text
<1> HIDE DEF l
<1>6. k \in 0 .. Len(l)
  BY <1>1, <1>5
<1> QED
  BY <1>5, <1>6 DEF l

LEMMA WordsWithin ==
  ASSUME NEW t \in Text, NEW k \in 0 .. Len(t)
  PROVE  /\ WordBackward(t, k) \in 0 .. k /\ TokenStart(t, k) \in 0 .. k
         /\ WordForward(t, k) \in 0 .. Len(t)
<1>1. Len(t) \in Nat /\ k \in Nat /\ k <= Len(t)
  BY LenProperties DEF Text
<1>2. WordBackward(t, k) \in 0 .. k
  <2> DEFINE W == {i \in 1 .. k : ~IsSpace(t[i]) /\ (i = 1 \/ IsSpace(t[i - 1]))}
             m == CHOOSE i \in W : \A j \in W : j <= i
  <2>1. WordBackward(t, k) = IF W = {} THEN 0 ELSE m - 1
    BY DEF WordBackward
  <2>2. W \subseteq 1 .. k
    OBVIOUS
  <2> HIDE DEF W
  <2>3. W # {} => m \in 1 .. k
    BY <1>1, <2>2, Extremes
  <2> HIDE DEF m
  <2> QED
    BY <1>1, <2>1, <2>3
<1>3. TokenStart(t, k) \in 0 .. k
  <2> DEFINE D == {i \in 1 .. k : t[i] \in {" ", ";", "(", ")"}}
             m == CHOOSE i \in D : \A j \in D : j <= i
  <2>1. TokenStart(t, k) = IF D = {} THEN 0 ELSE m
    BY DEF TokenStart
  <2>2. D \subseteq 1 .. k
    OBVIOUS
  <2> HIDE DEF D
  <2>3. D # {} => m \in 1 .. k
    BY <1>1, <2>2, Extremes
  <2> HIDE DEF m
  <2> QED
    BY <1>1, <2>1, <2>3
<1>4. WordForward(t, k) \in 0 .. Len(t)
  <2> DEFINE W == {i \in k + 2 .. Len(t) : ~IsSpace(t[i]) /\ IsSpace(t[i - 1])}
             m == CHOOSE i \in W : \A j \in W : i <= j
  <2>1. WordForward(t, k) = IF W = {} THEN Len(t) ELSE m - 1
    BY DEF WordForward
  <2>2. W \subseteq 1 .. Len(t)
    BY <1>1
  <2> HIDE DEF W
  <2>3. W # {} => m \in 1 .. Len(t)
    BY <1>1, <2>2, Extremes
  <2> HIDE DEF m
  <2> QED
    BY <1>1, <2>1, <2>3
<1> QED
  BY <1>2, <1>3, <1>4

LEMMA MatchWithin ==
  ASSUME NEW q, NEW n \in Nat
  PROVE  Match(q, n) \in 0 .. n
<1> DEFINE M == {i \in 1 .. n : q # <<>> /\ Has(history[i], q)}
           m == CHOOSE i \in M : \A k \in M : k <= i
<1>1. Match(q, n) = IF M = {} THEN 0 ELSE m
  BY DEF Match
<1>2. M \subseteq 1 .. n
  OBVIOUS
<1> HIDE DEF M
<1>3. M # {} => m \in 1 .. n
  BY <1>2, Extremes
<1> HIDE DEF m
<1> QED
  BY <1>1, <1>3

\* The longest common prefix of some texts is a text.
LEMMA PrefixText ==
  ASSUME NEW S, S \subseteq Text, S # {}
  PROVE  LongestCommonPrefix(S) \in Text
<1> DEFINE C == CommonPrefixes(S)
<1>1. \A t \in S : <<>> = SubSeq(t, 1, 0)
  BY SubSeqEmpty
<1>2. \A t \in S : Len(t) \in Nat
  BY LenProperties DEF Text
<1>3. PICK t \in S : TRUE
  OBVIOUS
<1>4. \A p \in C : \E s \in S : \E l \in 0 .. Len(s) : p = SubSeq(s, 1, l)
  BY DEF CommonPrefixes, Prefixes
<1>5. \A p \in C : p \in Text
  <2>1. ASSUME NEW s \in S, NEW l \in 0 .. Len(s) PROVE SubSeq(s, 1, l) \in Text
    <3>1. s \in Text /\ 1 \in 1 .. Len(s) + 1 /\ l \in 1 - 1 .. Len(s)
      BY <1>2
    <3> QED
      BY <3>1, PartOf
  <2> QED
    BY <1>4, <2>1
<1>6. \A p \in C : Len(p) <= Len(t) /\ Len(p) \in Nat
  <2>1. \A p \in C : Len(p) <= Len(t)
    BY <1>3 DEF CommonPrefixes, IsPrefix
  <2> QED
    BY <1>5, <2>1, LenProperties DEF Text
<1>7. <<>> \in C
  <2>1. \A s \in S : IsPrefix(<<>>, s)
    <3>1. ASSUME NEW s \in S PROVE IsPrefix(<<>>, s)
      <4>1. SubSeq(<<>>, 1, 0) = <<>> /\ SubSeq(s, 1, 0) = <<>>
        BY SubSeqEmpty
      <4>2. Len(<<>>) = 0 /\ 0 <= Len(s)
        BY <1>2, EmptySeq
      <4> QED
        BY <4>1, <4>2 DEF IsPrefix
    <3> QED
      BY <3>1
  <2>2. <<>> \in Prefixes(t)
    <3>1. 0 \in 0 .. Len(t)
      BY <1>2, <1>3
    <3> QED
      BY <1>1, <1>3, <3>1 DEF Prefixes
  <2> QED
    BY <1>3, <2>1, <2>2 DEF CommonPrefixes
<1> DEFINE L == {Len(p) + 1 : p \in C}
<1>8. L \subseteq 1 .. Len(t) + 1 /\ L # {} /\ Len(t) + 1 \in Nat
  <2> HIDE DEF C
  <2>1. \A p \in C : Len(p) + 1 \in 1 .. Len(t) + 1
    BY <1>2, <1>3, <1>6
  <2>2. L # {}
    BY <1>7
  <2> QED
    BY <1>2, <1>3, <2>1, <2>2
<1>9. \E i \in L : \A k \in L : k <= i
  <2> HIDE DEF L
  <2> QED
    BY <1>8, Extremes
<1>10. \E p \in C : \A o \in C : Len(o) <= Len(p)
  <2> HIDE DEF C
  <2>1. PICK p \in C : \A k \in L : k <= Len(p) + 1
    BY <1>9
  <2>2. \A o \in C : Len(o) + 1 <= Len(p) + 1
    BY <2>1
  <2>3. \A o \in C : Len(o) <= Len(p)
    BY <1>6, <2>2
  <2> QED
    BY <2>3
<1>11. LongestCommonPrefix(S) \in C
  <2>1. LongestCommonPrefix(S) = CHOOSE p \in C : \A o \in C : Len(o) <= Len(p)
    BY DEF LongestCommonPrefix
  <2> HIDE DEF C
  <2> QED
    BY <1>10, <2>1
<1> QED
  BY <1>5, <1>11

-----------------------------------------------------------------------------
(* The history *)

\* What the keys change: texts, and places within them
Lines ==
  /\ line \in Text /\ multi \in Text /\ scratch \in Text /\ kill \in Text
  /\ cursor \in 0 .. Len(line)
  /\ undo # <<>> => undo[1] \in Text /\ undo[2] \in 0 .. Len(undo[1])
Places == index \in 0 .. Len(history) /\ search.match \in 0 .. Len(history)

\* The history in memory, the file, and the history of the other shell.  The history
\* is clean (normalised entries, none repeated, no more than the limit), which is why
\* it is read back from the file as it was written.
Recorded ==
  /\ Clean(history) /\ wanted \in Seq(Entry)
  /\ history = Newest(Deduped(wanted), MaxHistory)
Stored ==
  /\ file \in Text
  /\ saved # <<>> => Clean(saved[1]) /\ file = Written(saved[1])
Others ==
  other \in [kind : {"interactive", "piped"}, phase : {"none", "run", "open", "gone"},
             history : {h \in Seq(Entry) : Clean(h)}]

HistoryInv == Lines /\ Places /\ Recorded /\ Stored /\ Others

LEMMA EntryText == \A h : Clean(h) => \A i \in 1 .. Len(h) : h[i] \in Text
BY DEF Clean, Entry

\* A key that changes a line
LEMMA LinesChange ==
  ASSUME Lines, Places, NEW l \in Text, NEW k \in 0 .. Len(l), Modifies(l, k), kill' \in Text
  PROVE  Lines' /\ Places'
<1>1. /\ line' = l /\ cursor' = k /\ undo' = <<line, cursor>>
      /\ UNCHANGED <<multi, scratch, index, search, history>>
  BY DEF Modifies, memory
<1>2. undo'[1] = line /\ undo'[2] = cursor
  BY <1>1
<1> QED
  BY <1>1, <1>2 DEF Lines, Places

\* One that moves the cursor
LEMMA LinesKeep ==
  ASSUME Lines, Places, cursor' \in 0 .. Len(line),
         UNCHANGED <<line, multi, scratch, kill, undo, index, search, history>>
  PROVE  Lines' /\ Places'
BY DEF Lines, Places

\* A line that starts anew, with the history h
LEMMA LinesFresh ==
  ASSUME FreshLine(history'), Clean(history'), kill' \in Text
  PROVE  Lines' /\ Places'
<1>1. Len(history') \in Nat
  BY LenProperties DEF Clean
<1>2. <<>> \in Text /\ Len(<<>>) = 0 /\ NoSearch.match = 0
  BY EmptyText DEF NoSearch
<1>3. /\ line' = <<>> /\ cursor' = 0 /\ multi' = <<>> /\ index' = Len(history')
      /\ scratch' = <<>> /\ undo' = <<>> /\ search' = NoSearch
  BY DEF FreshLine
<1> QED
  BY <1>1, <1>2, <1>3 DEF Lines, Places

LEMMA RecordedKeeps ==
  ASSUME Recorded, UNCHANGED memory
  PROVE  Recorded'
BY DEF Recorded, memory

LEMMA StoredKeeps ==
  ASSUME Stored, UNCHANGED disk
  PROVE  Stored'
BY DEF Stored, disk

\* Every key leaves the file and the other shell alone.
LEMMA PressKeeps ==
  ASSUME NEW p, Press(p), Stored, Others
  PROVE  Stored' /\ Others'
BY StoredKeeps DEF Press, Others

\* A whole history, as it is written and read
LEMMA FlushStores ==
  ASSUME NEW h, Clean(h), file \in Text, Flush(h)
  PROVE  Stored'
<1> DEFINE w == Written(h)
           n == Len(w)
           m == Len(file)
           z == SubSeq(file, n + 1, m)
<1>1. w \in Text /\ n \in Nat /\ m \in Nat
  BY RoundTrip, LenProperties DEF Text
<1>2. file' = w \o z /\ saved' = IF file = <<>> THEN <<h>> ELSE <<>>
  BY DEF Flush, Over
<1> HIDE DEF w
<1>3. z \in Text
  <2>1. CASE n <= m
    <3>1. n \in 0 .. Len(file) /\ m \in n .. Len(file)
      BY <1>1, <2>1
    <3> HIDE DEF n, m
    <3> QED
      BY <3>1, Pieces
  <2>2. CASE ~ (n <= m)
    <3>1. m < n + 1 /\ n + 1 \in Int /\ m \in Int
      BY <1>1, <2>2
    <3> HIDE DEF n, m
    <3> QED
      BY <3>1, SubSeqEmpty, EmptyText
  <2> QED
    BY <2>1, <2>2
<1>4. file = <<>> => z = <<>>
  <2>1. ASSUME file = <<>> PROVE z = <<>>
    <3>1. m = 0
      BY <2>1, EmptySeq
    <3>2. m < n + 1 /\ n + 1 \in Int /\ m \in Int
      BY <1>1, <3>1
    <3> HIDE DEF n, m
    <3> QED
      BY <3>2, SubSeqEmpty
  <2> QED
    BY <2>1
<1> HIDE DEF z
<1>5. file' \in Text
  BY <1>1, <1>2, <1>3, ConcatProperties DEF Text
<1>6. CASE file = <<>>
  <2>1. file' = w
    BY <1>1, <1>2, <1>4, <1>6, ConcatEmptySeq DEF Text
  <2>2. saved'[1] = h
    BY <1>2, <1>6
  <2> QED
    BY <1>5, <2>1, <2>2 DEF Stored, w
<1>7. CASE file # <<>>
  <2>1. saved' = <<>>
    BY <1>2, <1>7
  <2> QED
    BY <1>5, <2>1 DEF Stored
<1> QED
  BY <1>6, <1>7

\* The keys that edit the line
LEMMA EditingKeeps ==
  ASSUME HistoryInv, Editing
  PROVE  HistoryInv'
<1>1. /\ Lines /\ Places /\ Recorded /\ Stored /\ Others
      /\ line \in Text /\ kill \in Text /\ cursor \in 0 .. Len(line)
      /\ Len(line) \in Nat /\ Len(kill) \in Nat /\ cursor \in Nat /\ cursor <= Len(line)
      /\ cursor \in cursor .. Len(line) /\ Len(line) \in cursor .. Len(line)
  <2>1. Lines /\ Places /\ Recorded /\ Stored /\ Others
    BY DEF HistoryInv
  <2>2. line \in Text /\ kill \in Text /\ cursor \in 0 .. Len(line)
    BY <2>1 DEF Lines
  <2>3. Len(line) \in Nat /\ Len(kill) \in Nat
    BY <2>2, LenProperties DEF Text
  <2> QED
    BY <2>1, <2>2, <2>3
<1>2. ASSUME UNCHANGED memory, Press("edit"), Lines', Places' PROVE HistoryInv'
  BY <1>1, <1>2, RecordedKeeps, PressKeeps DEF HistoryInv
<1>3. ASSUME NEW l \in Text, NEW k \in 0 .. Len(l), Modifies(l, k), kill' \in Text
      PROVE  HistoryInv'
  <2>1. Lines' /\ Places'
    BY <1>1, <1>3, LinesChange
  <2>2. UNCHANGED memory /\ Press("edit")
    BY <1>3 DEF Modifies
  <2> QED
    BY <1>2, <2>1, <2>2
<1>4. ASSUME NEW c \in Typed, Insert(c) PROVE HistoryInv'
  <2>1. <<c>> \in Text /\ Len(<<c>>) = 1
    <3>1. c \in Char
      BY EditorAssumption
    <3> QED
      BY <3>1 DEF Text
  <2> DEFINE l == Before(line, cursor) \o <<c>> \o After(line, cursor)
  <2>2. l \in Text /\ cursor + 1 \in 0 .. Len(l)
    BY <1>1, <2>1, Replaced
  <2>3. Modifies(l, cursor + 1) /\ kill' = kill
    BY <1>4 DEF Insert
  <2> HIDE DEF l
  <2> QED
    BY <1>1, <1>3, <2>2, <2>3
<1>5. ASSUME NEW k \in 0 .. cursor, NEW j \in cursor .. Len(line), kill' \in Text,
             Modifies(Before(line, k) \o After(line, j), k)
      PROVE  HistoryInv'
  <2> DEFINE l == Before(line, k) \o After(line, j)
  <2>1. k \in 0 .. Len(line) /\ j \in k .. Len(line)
    BY <1>1
  <2>2. l \in Text /\ k \in 0 .. Len(l)
    BY <1>1, <2>1, Shortened
  <2>3. Modifies(l, k)
    BY <1>5
  <2> HIDE DEF l
  <2> QED
    BY <1>3, <1>5, <2>2, <2>3
<1>6. CASE Backspace
  <2>1. cursor - 1 \in 0 .. cursor
    BY <1>1, <1>6 DEF Backspace
  <2> QED
    BY <1>1, <1>5, <1>6, <2>1 DEF Backspace
<1>7. CASE Delete
  <2>1. cursor + 1 \in cursor .. Len(line) /\ cursor \in 0 .. cursor
    BY <1>1, <1>7 DEF Delete
  <2> QED
    BY <1>1, <1>5, <1>7, <2>1 DEF Delete
<1>8. CASE KillToEnd
  <2>1. Before(line, cursor) \in Text /\ Len(Before(line, cursor)) = cursor /\ After(line, cursor) \in Text
    BY <1>1, Pieces
  <2>2. Modifies(Before(line, cursor), cursor) /\ kill' = After(line, cursor)
    BY <1>8 DEF KillToEnd
  <2>3. cursor \in 0 .. Len(Before(line, cursor))
    BY <1>1, <2>1
  <2> QED
    BY <1>3, <2>1, <2>2, <2>3
<1>9. ASSUME NEW k \in 0 .. cursor, KillBackTo(k) PROVE HistoryInv'
  <2>1. k \in 0 .. Len(line) /\ cursor \in k .. Len(line)
    BY <1>1
  <2>2. SubSeq(line, k + 1, cursor) \in Text
    BY <1>1, <2>1, Pieces
  <2>3. Modifies(Before(line, k) \o After(line, cursor), k) /\ kill' = SubSeq(line, k + 1, cursor)
    BY <1>9 DEF KillBackTo
  <2> QED
    BY <1>1, <1>5, <2>2, <2>3
<1>10. CASE KillLine \/ KillWord
  <2>1. 0 \in 0 .. cursor /\ WordBackward(line, cursor) \in 0 .. cursor
    BY <1>1, WordsWithin
  <2> QED
    BY <1>9, <1>10, <2>1 DEF KillLine, KillWord
<1>11. CASE Yank
  <2> DEFINE l == Before(line, cursor) \o kill \o After(line, cursor)
  <2>1. l \in Text /\ cursor + Len(kill) \in 0 .. Len(l)
    BY <1>1, Replaced
  <2>2. Modifies(l, cursor + Len(kill)) /\ kill' = kill
    BY <1>11 DEF Yank
  <2> HIDE DEF l
  <2> QED
    BY <1>1, <1>3, <2>1, <2>2
<1>12. CASE Undo
  <2>1. /\ line' = undo[1] /\ cursor' = undo[2] /\ undo' = <<>> /\ undo # <<>>
        /\ UNCHANGED <<multi, scratch, kill, index, search, memory>> /\ Press("edit")
    BY <1>12 DEF Undo
  <2>2. history' = history
    BY <2>1 DEF memory
  <2>3. Lines' /\ Places'
    BY <1>1, <2>1, <2>2 DEF Lines, Places
  <2> QED
    BY <1>2, <2>1, <2>3
<1>13. CASE Move
  <2>1. WordBackward(line, cursor) \in 0 .. cursor /\ WordForward(line, cursor) \in 0 .. Len(line)
    BY <1>1, WordsWithin
  <2>2. PICK k \in {0, Len(line), WordBackward(line, cursor), WordForward(line, cursor)}
                   \cup ({cursor - 1, cursor + 1} \cap (0 .. Len(line))) : MoveTo(k)
    BY <1>13 DEF Move
  <2>3. k \in 0 .. Len(line)
    BY <1>1, <2>1
  <2>4. /\ cursor' = k /\ Press("edit") /\ UNCHANGED memory /\ history' = history
        /\ UNCHANGED <<line, multi, scratch, kill, undo, index, search>>
    BY <2>2 DEF MoveTo, memory
  <2>5. Lines' /\ Places'
    BY <1>1, <2>3, <2>4, LinesKeep
  <2> QED
    BY <1>2, <2>4, <2>5
<1>14. CASE Complete
  <2> DEFINE start  == TokenStart(line, cursor)
             prefix == SubSeq(line, start + 1, cursor)
             found  == {v \in Candidates : IsPrefix(prefix, v)}
             only   == CHOOSE v \in found : TRUE
             text   == IF Cardinality(found) = 1 THEN IF Last(only) = "/" THEN only ELSE Append(only, " ")
                       ELSE LongestCommonPrefix(found)
             l      == Before(line, start) \o text \o After(line, cursor)
  <2>1. /\ found # {} /\ Press("edit") /\ line' = l /\ cursor' = start + Len(text)
        /\ UNCHANGED <<multi, scratch, kill, undo, index, search, memory>>
    BY <1>14 DEF Complete
  <2>2. start \in 0 .. Len(line) /\ cursor \in start .. Len(line)
    <3>1. start \in 0 .. cursor
      BY <1>1, WordsWithin
    <3> HIDE DEF start
    <3> QED
      BY <1>1, <3>1
  <2>3. found \subseteq Text
    BY EditorAssumption
  <2>4. only \in found
    <3> HIDE DEF found
    <3> QED
      BY <2>1
  <2> HIDE DEF start, prefix, found, only
  <2>5. only \in Text
    BY <2>3, <2>4
  <2>6. Append(only, " ") \in Text
    <3>1. " " \in Char
      BY EditorAssumption
    <3> QED
      BY <2>5, <3>1, AppendOf DEF Text
  <2>7. LongestCommonPrefix(found) \in Text
    BY <2>1, <2>3, PrefixText
  <2>8. text \in Text
    BY <2>5, <2>6, <2>7
  <2> HIDE DEF text
  <2>9. l \in Text /\ start + Len(text) \in 0 .. Len(l)
    BY <1>1, <2>2, <2>8, Replaced
  <2> HIDE DEF l
  <2>10. history' = history
    BY <2>1 DEF memory
  <2>11. Lines' /\ Places'
    BY <1>1, <2>1, <2>9, <2>10 DEF Lines, Places
  <2> QED
    BY <1>2, <2>1, <2>11
<1>15. ASSUME NEW t \in Text, NEW i \in 0 .. Len(history), Shows(t, i), scratch' \in Text,
              UNCHANGED <<multi, undo, kill, search, memory>>
       PROVE  Lines' /\ Places'
  <2>1. Len(t) \in 0 .. Len(t) /\ history' = history
    BY <1>15, LenProperties DEF Text, memory
  <2>2. line' = t /\ cursor' = Len(t) /\ index' = i
    BY <1>15 DEF Shows
  <2> QED
    BY <1>1, <1>15, <2>1, <2>2 DEF Lines, Places
<1>16. CASE Up \/ Down
  <2>1. /\ scratch \in Text /\ index \in 0 .. Len(history) /\ Len(history) \in Nat
        /\ \A i \in 1 .. Len(history) : history[i] \in Text
    BY <1>1, EntryText, LenProperties DEF Lines, Places, Recorded, Clean
  <2>2. Press("edit") /\ UNCHANGED <<multi, undo, kill, search, memory>>
    BY <1>16 DEF Up, Down
  <2>3. CASE Up
    <3>1. index \in 1 .. Len(history) /\ index - 1 \in 0 .. Len(history)
      BY <2>1, <2>3 DEF Up
    <3>2. scratch' \in Text /\ Shows(history[index], index - 1)
      BY <1>1, <2>1, <2>3 DEF Up
    <3> QED
      BY <1>2, <1>15, <2>1, <2>2, <3>1, <3>2
  <2>4. CASE Down
    <3> DEFINE t == IF index + 1 = Len(history) THEN scratch ELSE history[index + 2]
    <3>1. index + 1 \in 0 .. Len(history) /\ (index + 1 # Len(history) => index + 2 \in 1 .. Len(history))
      BY <2>1, <2>4 DEF Down
    <3>2. t \in Text
      BY <2>1, <3>1
    <3>3. scratch' = scratch /\ Shows(t, index + 1)
      BY <2>4 DEF Down
    <3> HIDE DEF t
    <3> QED
      BY <1>2, <1>15, <2>1, <2>2, <3>1, <3>2, <3>3
  <2> QED
    BY <1>16, <2>3, <2>4
<1> QED
  BY <1>4, <1>6, <1>7, <1>8, <1>10, <1>11, <1>12, <1>13, <1>14, <1>16 DEF Editing

\* The end of a command.  It is wanted exactly when it goes to the history, unless the
\* last one was the same.
LEMMA AcceptKeeps ==
  ASSUME Recorded, NEW t \in Text, kill \in Text, Accept(t)
  PROVE  Lines' /\ Places' /\ Recorded'
<1> DEFINE runs == t # <<>> /\ ~IsError(t)
           e == EntryOf(t)
           h == IF runs THEN Added(history, t) ELSE history
<1>1. /\ history' = h /\ FreshLine(h) /\ kill' = kill
      /\ wanted' = IF runs /\ ~IsBlank(e) THEN Append(wanted, e) ELSE wanted
  BY DEF Accept
<1>2. Clean(history) /\ wanted \in Seq(Entry) /\ history = Newest(Deduped(wanted), MaxHistory)
  BY DEF Recorded
<1>3. Recorded'
  <2>1. CASE runs /\ ~IsBlank(e)
    <3>1. history' = Added(history, t) /\ wanted' = Append(wanted, e)
      BY <1>1, <2>1
    <3>2. e \in Entry
      BY <2>1, EntryIn
    <3>3. Append(wanted, e) \in Seq(Entry)
      <4> HIDE DEF e
      <4> QED
        BY <1>2, <3>2, AppendOf
    <3>4. Clean(Added(history, t))
      BY <1>2, AddedClean
    <3>5. Added(history, t) = Newest(Deduped(Append(wanted, e)), MaxHistory)
      BY <1>2, <2>1, WantedAdded
    <3> QED
      BY <3>1, <3>3, <3>4, <3>5 DEF Recorded
  <2>2. CASE ~ (runs /\ ~IsBlank(e))
    <3>1. Added(history, t) = history \/ ~runs
      BY <2>2 DEF Added
    <3>2. UNCHANGED memory \/ (history' = history /\ wanted' = wanted)
      BY <1>1, <2>2, <3>1
    <3> QED
      BY <3>2 DEF Recorded, memory
  <2> QED
    BY <2>1, <2>2
<1> HIDE DEF h
<1>4. FreshLine(history') /\ Clean(history') /\ kill' \in Text
  BY <1>1, <1>3 DEF Recorded
<1> QED
  BY <1>3, <1>4, LinesFresh

LEMMA JoinedText ==
  ASSUME multi \in Text, NEW l \in Text
  PROVE  Joined(l) \in Text
<1> DEFINE m == IF multi # <<>> /\ Len(multi) < MaxMulti THEN Append(multi, NL) ELSE multi
<1>1. NL \in Char
  BY EditorAssumption
<1>2. Append(multi, NL) \in Text
  BY <1>1, AppendOf DEF Text
<1>3. m \in Text
  BY <1>2
<1>4. Joined(l) = IF Len(m) + Len(l) <= MaxMulti THEN m \o l ELSE m
  BY DEF Joined
<1> HIDE DEF m
<1>5. m \o l \in Text
  BY <1>3, ConcatProperties DEF Text
<1> QED
  BY <1>3, <1>4, <1>5

LEMMA EndsKeeps ==
  ASSUME Lines, Places, Recorded, NEW l \in Text, Ends(l)
  PROVE  Lines' /\ Places' /\ Recorded'
<1> DEFINE m == Joined(l)
<1>1. multi \in Text /\ kill \in Text
  BY DEF Lines
<1>2. m \in Text
  BY <1>1, JoinedText
<1> HIDE DEF m
<1>3. CASE Accept(m)
  BY <1>1, <1>2, <1>3, AcceptKeeps
<1>4. CASE /\ multi' = m /\ line' = <<>> /\ cursor' = 0
           /\ index' = Len(history) /\ scratch' = <<>> /\ search' = NoSearch
           /\ UNCHANGED <<undo, kill, memory>>
  <2>1. /\ <<>> \in Text /\ Len(<<>>) = 0 /\ NoSearch.match = 0 /\ Len(history) \in Nat
        /\ history' = history
    BY <1>4, EmptyText, LenProperties DEF NoSearch, Recorded, Clean, memory
  <2>2. Lines' /\ Places'
    BY <1>2, <1>4, <2>1 DEF Lines, Places
  <2> QED
    BY <1>4, <2>2, RecordedKeeps
<1> QED
  BY <1>3, <1>4 DEF Ends, m

LEMMA EndingKeeps ==
  ASSUME HistoryInv, Ending
  PROVE  HistoryInv'
<1>1. /\ Lines /\ Places /\ Recorded /\ Stored /\ Others
      /\ line \in Text /\ multi \in Text /\ kill \in Text /\ <<>> \in Text
  BY EmptyText DEF HistoryInv, Lines
<1>2. Press("edit")
  BY DEF Ending, Enter, Interrupt, EndOfFile, SubmitMulti, ReadError
<1>3. Stored' /\ Others'
  BY <1>1, <1>2, PressKeeps
<1>4. CASE Enter
  BY <1>1, <1>3, <1>4, EndsKeeps DEF Enter, HistoryInv
<1>5. CASE Interrupt \/ SubmitMulti
  BY <1>1, <1>3, <1>5, AcceptKeeps DEF Interrupt, SubmitMulti, HistoryInv
<1>6. CASE EndOfFile \/ ReadError
  <2>1. UNCHANGED <<editing, memory>>
    BY <1>6 DEF EndOfFile, ReadError
  <2>2. Lines' /\ Places'
    BY <1>1, <2>1, LinesKeep DEF editing, memory, Lines
  <2> QED
    BY <1>1, <1>3, <2>1, <2>2, RecordedKeeps DEF HistoryInv
<1> QED
  BY <1>4, <1>5, <1>6 DEF Ending

LEMMA SearchingKeeps ==
  ASSUME HistoryInv, Searching
  PROVE  HistoryInv'
<1>1. /\ Lines /\ Places /\ Recorded /\ Stored /\ Others
      /\ line \in Text /\ cursor \in 0 .. Len(line) /\ Len(history) \in Nat
      /\ search.match \in 0 .. Len(history) /\ index \in 0 .. Len(history)
  BY LenProperties DEF HistoryInv, Lines, Places, Recorded, Clean
<1>2. Press("edit") \/ Press("search")
  BY DEF Searching, Search, SearchType, SearchErase, SearchAgain, SearchAccept, SearchCancel,
         SearchEnter, Looks
<1>3. Stored' /\ Others'
  BY <1>1, <1>2, PressKeeps
<1>4. ASSUME NEW q, NEW m \in 0 .. Len(history), Looks(q, m) PROVE HistoryInv'
  <2>1. /\ search' = [query |-> q, match |-> m] /\ UNCHANGED memory
        /\ UNCHANGED <<line, cursor, multi, scratch, kill, undo, index, history>>
    BY <1>4 DEF Looks, memory
  <2>2. search'.match = m
    BY <2>1
  <2>3. Lines' /\ Places'
    BY <1>1, <2>1, <2>2 DEF Lines, Places
  <2> QED
    BY <1>1, <1>3, <2>1, <2>3, RecordedKeeps DEF HistoryInv
<1>5. CASE SearchErase \/ \E c \in Typed : SearchType(c)
  <2>1. \A q : Match(q, Len(history)) \in 0 .. Len(history)
    BY <1>1, MatchWithin
  <2> QED
    BY <1>4, <1>5, <2>1 DEF SearchErase, SearchType
<1>6. CASE SearchAgain
  <2> DEFINE m == Match(search.query, search.match - 1)
  <2>1. search.match > 0 /\ Looks(search.query, m)
    BY <1>6 DEF SearchAgain
  <2>2. search.match - 1 \in Nat /\ search.match - 1 <= Len(history)
    BY <1>1, <2>1
  <2>3. m \in 0 .. search.match - 1
    BY <2>2, MatchWithin
  <2> HIDE DEF m
  <2>4. m \in 0 .. Len(history)
    BY <1>1, <2>2, <2>3
  <2> QED
    BY <1>4, <2>1, <2>4
<1>7. ASSUME search' = NoSearch, line' \in Text, cursor' \in 0 .. Len(line'),
             index' \in 0 .. Len(history), UNCHANGED <<multi, scratch, undo, kill, memory>>
      PROVE  HistoryInv'
  <2>1. search'.match = 0 /\ history' = history
    BY <1>7 DEF NoSearch, memory
  <2>2. Lines' /\ Places'
    BY <1>1, <1>7, <2>1 DEF Lines, Places
  <2> QED
    BY <1>1, <1>3, <1>7, <2>2, RecordedKeeps DEF HistoryInv
<1>8. CASE Search \/ SearchCancel
  <2>1. search' = NoSearch /\ UNCHANGED <<line, cursor, index, multi, scratch, undo, kill, memory>>
    BY <1>8 DEF Search, SearchCancel
  <2> QED
    BY <1>1, <1>7, <2>1
<1>9. \A i \in 1 .. Len(history) : history[i] \in Text
  BY <1>1, EntryText DEF Recorded
<1>10. CASE SearchAccept
  <2>1. search' = NoSearch /\ UNCHANGED <<multi, scratch, undo, kill, memory>>
    BY <1>10 DEF SearchAccept
  <2>2. CASE search.match = 0
    <3>1. UNCHANGED <<line, cursor, index>>
      BY <1>10, <2>2 DEF SearchAccept
    <3> QED
      BY <1>1, <1>7, <2>1, <3>1
  <2>3. CASE search.match # 0
    <3> DEFINE t == history[search.match]
    <3>1. search.match \in 1 .. Len(history) /\ search.match - 1 \in 0 .. Len(history)
      BY <1>1, <2>3
    <3>2. t \in Text
      BY <1>9, <3>1
    <3>3. line' = t /\ cursor' = Len(t) /\ index' = search.match - 1
      BY <1>10, <2>3 DEF SearchAccept, Shows
    <3> HIDE DEF t
    <3>4. cursor' \in 0 .. Len(line')
      BY <3>2, <3>3, LenProperties DEF Text
    <3> QED
      BY <1>7, <2>1, <3>1, <3>2, <3>3, <3>4
  <2> QED
    BY <2>2, <2>3
<1>11. CASE SearchEnter
  <2> DEFINE t == IF search.match = 0 THEN line ELSE history[search.match]
  <2>1. search.match # 0 => search.match \in 1 .. Len(history)
    BY <1>1
  <2>2. t \in Text
    BY <1>1, <1>9, <2>1
  <2>3. Ends(t)
    BY <1>11 DEF SearchEnter
  <2> HIDE DEF t
  <2> QED
    BY <1>1, <1>3, <2>2, <2>3, EndsKeeps DEF HistoryInv
<1> QED
  BY <1>5, <1>6, <1>8, <1>10, <1>11 DEF Searching

\* Shells that start and end, and the file they share
LEMMA ShellsKeep ==
  ASSUME HistoryInv, Shells
  PROVE  HistoryInv'
<1>1. /\ Lines /\ Places /\ Recorded /\ Stored /\ Others /\ <<>> \in Text
      /\ file \in Text /\ Clean(history) /\ Clean(other.history)
  BY EmptyText DEF HistoryInv, Stored, Recorded, Others
<1>2. ASSUME UNCHANGED editing, UNCHANGED memory PROVE Lines' /\ Places' /\ Recorded'
  <2>1. Lines' /\ Places'
    BY <1>1, <1>2, LinesKeep DEF editing, memory, Lines
  <2> QED
    BY <1>1, <1>2, <2>1, RecordedKeeps
<1>3. ASSUME NEW h, Clean(h), history' = h, wanted' = h, FreshLine(h), kill' = <<>>
      PROVE  Lines' /\ Places' /\ Recorded'
  <2>1. Newest(Deduped(h), MaxHistory) = h
    BY <1>3, CleanWanted
  <2>2. Recorded'
    BY <1>3, <2>1 DEF Recorded, Clean
  <2> QED
    BY <1>1, <1>3, <2>2, LinesFresh
<1>4. ASSUME Gone PROVE Lines' /\ Places' /\ Recorded' /\ Others'
  <2>1. Lines' /\ Places' /\ Recorded'
    BY <1>3, <1>4, NoHistory DEF Gone
  <2> QED
    BY <1>1, <1>4, <2>1 DEF Gone, Others
<1>5. CASE NotSaved \/ Killed
  BY <1>1, <1>4, <1>5, StoredKeeps DEF NotSaved, Killed, HistoryInv
<1>6. CASE Write
  BY <1>1, <1>4, <1>6, FlushStores DEF Write, HistoryInv
<1>7. CASE Truncate
  <2>1. file' = <<>> /\ saved' = <<>> /\ UNCHANGED editing /\ UNCHANGED memory /\ other' = other
    BY <1>7 DEF Truncate
  <2>2. Stored' /\ Others'
    BY <1>1, <2>1 DEF Stored, Others
  <2> QED
    BY <1>2, <2>1, <2>2 DEF HistoryInv
<1>8. CASE Start
  <2> DEFINE h == Loaded(file)
  <2>1. /\ history' = h /\ wanted' = IF saved = <<>> THEN h ELSE saved[1]
        /\ FreshLine(h) /\ kill' = <<>> /\ UNCHANGED disk /\ other' = other
    BY <1>8 DEF Start
  <2>2. Clean(h)
    BY <1>1, LoadedClean
  <2>3. wanted' = h
    <3>1. CASE saved = <<>>
      BY <2>1, <3>1
    <3>2. CASE saved # <<>>
      <4>1. Clean(saved[1]) /\ file = Written(saved[1])
        BY <1>1, <3>2 DEF Stored
      <4>2. h = saved[1]
        BY <4>1, RoundTrip
      <4> QED
        BY <2>1, <4>2
    <3> QED
      BY <3>1, <3>2
  <2> HIDE DEF h
  <2>4. Lines' /\ Places' /\ Recorded'
    BY <1>3, <2>1, <2>2, <2>3
  <2>5. Stored' /\ Others'
    BY <1>1, <2>1, StoredKeeps DEF Others
  <2> QED
    BY <2>4, <2>5 DEF HistoryInv
<1>9. ASSUME NEW o, OtherIs(o), NEW p \in {"none", "run", "open", "gone"},
             NEW k \in {"interactive", "piped"}, NEW h, Clean(h),
             o = [kind |-> k, phase |-> p, history |-> h]
      PROVE  Lines' /\ Places' /\ Recorded' /\ Others'
  <2>1. UNCHANGED editing /\ UNCHANGED memory /\ other' = o
    BY <1>9 DEF OtherIs
  <2>2. Others'
    BY <1>9, <2>1 DEF Others, Clean
  <2> QED
    BY <1>2, <2>1, <2>2
<1>10. OtherEnded = [kind |-> "interactive", phase |-> "gone", history |-> <<>>]
  BY DEF OtherEnded, NoOther
<1>11. CASE \E k \in {"interactive", "piped"}, t \in OtherEntries : OtherRuns(k, t)
  <2>1. PICK k \in {"interactive", "piped"}, t \in OtherEntries : OtherRuns(k, t)
    BY <1>11
  <2> DEFINE g == IF k = "interactive" THEN Loaded(file) ELSE <<>>
             h == Added(g, t)
  <2>2. OtherIs([kind |-> k, phase |-> "run", history |-> h]) /\ UNCHANGED disk
    BY <2>1 DEF OtherRuns
  <2>3. Clean(g)
    BY <1>1, LoadedClean, NoHistory
  <2>4. t \in Text
    BY EditorAssumption
  <2> HIDE DEF g
  <2>5. Clean(h)
    BY <2>3, <2>4, AddedClean
  <2> HIDE DEF h
  <2> QED
    BY <1>1, <1>9, <2>2, <2>5, StoredKeeps DEF HistoryInv
<1>12. CASE OtherTruncates
  <2>1. OtherIs([other EXCEPT !.phase = "open"]) /\ file' = <<>> /\ saved' = <<>>
    BY <1>12 DEF OtherTruncates
  <2>2. [other EXCEPT !.phase = "open"] = [kind |-> other.kind, phase |-> "open", history |-> other.history]
        /\ other.kind \in {"interactive", "piped"}
    BY <1>1 DEF Others
  <2>3. Stored'
    BY <1>1, <2>1 DEF Stored
  <2> QED
    BY <1>1, <1>9, <2>1, <2>2, <2>3 DEF HistoryInv
<1>13. CASE OtherWrites \/ OtherKilled
  <2>1. OtherIs(OtherEnded)
    BY <1>13 DEF OtherWrites, OtherKilled
  <2>2. Lines' /\ Places' /\ Recorded' /\ Others'
    BY <1>9, <1>10, <2>1, NoHistory
  <2>3. Stored'
    <3>1. CASE OtherWrites
      BY <1>1, <3>1, FlushStores DEF OtherWrites
    <3>2. CASE OtherKilled
      BY <1>1, <3>2, StoredKeeps DEF OtherKilled
    <3> QED
      BY <1>13, <3>1, <3>2
  <2> QED
    BY <2>2, <2>3 DEF HistoryInv
<1> QED
  BY <1>5, <1>6, <1>7, <1>8, <1>11, <1>12, <1>13 DEF Shells

LEMMA HistoryNext == HistoryInv /\ [Next]_vars => HistoryInv'
<1>1. SUFFICES ASSUME HistoryInv, [Next]_vars PROVE HistoryInv'
  OBVIOUS
<1>2. CASE UNCHANGED vars
  <2>1. /\ UNCHANGED <<line, cursor, multi, scratch, undo, kill, index, search>>
        /\ UNCHANGED <<history, wanted, file, saved, other>>
    BY <1>2 DEF vars, editing, memory, disk
  <2> QED
    BY <1>1, <2>1 DEF HistoryInv, Lines, Places, Recorded, Stored, Others
<1> QED
  BY <1>1, <1>2, EditingKeeps, EndingKeeps, SearchingKeeps, ShellsKeep DEF Next

LEMMA HistoryInit == Init => HistoryInv
<1>1. SUFFICES ASSUME Init PROVE HistoryInv
  OBVIOUS
<1>2. <<>> \in Text /\ Len(<<>>) = 0 /\ NoSearch.match = 0
  BY EmptyText DEF NoSearch
<1>3. Lines /\ Places
  BY <1>1, <1>2 DEF Init, Lines, Places
<1>4. Clean(<<>>) /\ <<>> \in Seq(Entry) /\ Newest(Deduped(<<>>), MaxHistory) = <<>>
  BY NoHistory, CleanWanted, EmptySeq
<1>5. Recorded
  BY <1>1, <1>4 DEF Init, Recorded
<1>6. Stored
  BY <1>1, EditorAssumption DEF Init, Stored
<1>7. Others
  BY <1>1, <1>4 DEF Init, Others, NoOther
<1> QED
  BY <1>3, <1>5, <1>6, <1>7 DEF HistoryInv

\* The history in memory is the newest of the commands that were entered, through the
\* limit, the joining of lines, the file and its reading back: save_history and
\* load_history undo each other on every history that arksh_shell_history_add builds.
THEOREM HistoryIsExact == Spec => []HistoryExact
<1>1. HistoryInv => HistoryExact
  BY DEF HistoryInv, Recorded, HistoryExact
<1> QED
  BY <1>1, HistoryInit, HistoryNext, PTL DEF Spec

-----------------------------------------------------------------------------
(* The draft *)

\* What Down will bring back is the line that Up left: scratch, which only the first
\* Up and a new line write, is the ghost draft while there is one.
DraftInv == draft # <<>> => draft[1] = scratch

\* The keys that leave the history where it is touch neither.
LEMMA DraftUntouched ==
  ASSUME DraftInv, UNCHANGED <<scratch, draft>>
  PROVE  DraftInv'
BY DEF DraftInv

\* A line that starts anew has no draft.
LEMMA DraftForgotten ==
  ASSUME draft' = <<>>
  PROVE  DraftInv'
BY DEF DraftInv

\* One case for each group of keys.
LEMMA DraftNext == DraftInv /\ [Next]_vars => DraftInv'
<1>1. SUFFICES ASSUME DraftInv, [Next]_vars PROVE DraftInv'
  OBVIOUS
<1>2. CASE Editing
  <2>1. CASE \E c \in Typed : Insert(c)
    BY <1>1, <2>1, DraftUntouched DEF Insert, Modifies
  <2>2. CASE Backspace \/ Delete \/ KillToEnd \/ KillLine \/ KillWord \/ Yank
    BY <1>1, <2>2, DraftUntouched DEF Backspace, Delete, KillToEnd, KillLine, KillWord, KillBackTo, Yank, Modifies
  <2>3. CASE Undo \/ Move \/ Complete
    BY <1>1, <2>3, DraftUntouched DEF Undo, Move, MoveTo, Complete
  <2>4. CASE Up
    <3>1. CASE index = Len(history)
      <4>1. draft' = <<line>> /\ scratch' = line
        BY <2>4, <3>1 DEF Up
      <4> QED
        BY <4>1 DEF DraftInv
    <3>2. CASE index # Len(history)
      BY <1>1, <2>4, <3>2, DraftUntouched DEF Up
    <3> QED
      BY <3>1, <3>2
  <2>5. CASE Down
    <3>1. draft' \in {draft, <<>>} /\ scratch' = scratch
      BY <2>5 DEF Down
    <3> QED
      BY <1>1, <3>1 DEF DraftInv
  <2> QED
    BY <1>2, <2>1, <2>2, <2>3, <2>4, <2>5 DEF Editing
<1>3. ASSUME NEW l, Ends(l) PROVE DraftInv'
  BY <1>3, DraftForgotten DEF Ends, Accept, FreshLine
<1>4. CASE Ending
  <2>1. CASE Enter
    BY <1>3, <2>1 DEF Enter
  <2>2. CASE Interrupt \/ SubmitMulti
    BY <2>2, DraftForgotten DEF Interrupt, SubmitMulti, Accept, FreshLine
  <2>3. CASE EndOfFile \/ ReadError
    BY <1>1, <2>3, DraftUntouched DEF EndOfFile, ReadError, editing
  <2> QED
    BY <1>4, <2>1, <2>2, <2>3 DEF Ending
<1>5. CASE Searching
  <2>1. CASE Search \/ SearchAccept \/ SearchCancel
    BY <1>1, <2>1, DraftUntouched DEF Search, SearchAccept, SearchCancel
  <2>2. CASE SearchErase \/ SearchAgain \/ \E c \in Typed : SearchType(c)
    BY <1>1, <2>2, DraftUntouched DEF SearchErase, SearchAgain, SearchType, Looks
  <2>3. CASE SearchEnter
    BY <1>3, <2>3 DEF SearchEnter
  <2> QED
    BY <1>5, <2>1, <2>2, <2>3 DEF Searching
<1>6. CASE Shells
  <2>1. CASE Start \/ NotSaved \/ Write \/ Killed
    BY <2>1, DraftForgotten DEF Start, NotSaved, Write, Killed, Gone, FreshLine
  <2>2. CASE Truncate \/ OtherTruncates \/ OtherWrites \/ OtherKilled
    BY <1>1, <2>2, DraftUntouched DEF Truncate, OtherTruncates, OtherWrites, OtherKilled, OtherIs, editing
  <2>3. CASE \E k \in {"interactive", "piped"}, t \in OtherEntries : OtherRuns(k, t)
    BY <1>1, <2>3, DraftUntouched DEF OtherRuns, OtherIs, editing
  <2> QED
    BY <1>6, <2>1, <2>2, <2>3 DEF Shells
<1>7. CASE UNCHANGED vars
  BY <1>1, <1>7, DraftUntouched DEF vars, editing
<1> QED
  BY <1>1, <1>2, <1>4, <1>5, <1>6, <1>7 DEF Next

\* Whatever was looked at, edited or searched for since Up left the line that was
\* being typed, Down shows it again when it comes back to it (navigate_history).
THEOREM LineComesBack == Spec => DraftReturns
<1>1. Init => DraftInv
  BY DEF Init, DraftInv
<1>2. DraftInv /\ [Next]_vars =>
        [Down /\ draft # <<>> /\ index' = Len(history) => line' = draft[1]]_vars
  <2>1. SUFFICES ASSUME DraftInv, Down, draft # <<>>, index' = Len(history)
                 PROVE  line' = draft[1]
    OBVIOUS
  <2>2. index' = index + 1
    BY <2>1 DEF Down, Shows
  <2>3. line' = scratch
    BY <2>1, <2>2 DEF Down, Shows
  <2> QED
    BY <2>1, <2>3 DEF DraftInv
<1> QED
  BY <1>1, <1>2, DraftNext, PTL DEF Spec, DraftReturns
=============================================================================
