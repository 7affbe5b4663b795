---------------------------- MODULE ScopesProofs ----------------------------
(***************************************************************************)
(* Proofs about Scopes, for every set of names and values, every limit and  *)
(* every depth of nesting.                                                  *)
(***************************************************************************)
EXTENDS Scopes, Positions, SequenceTheorems, TLAPS

-----------------------------------------------------------------------------
(* Types *)

Optional  == Texts \cup {NoValue}
Environs  == UNION {[N -> Texts] : N \in SUBSET Names}
FrameType == [vars : Tables, positional : BOOLEAN, params : Seq(Texts)]
ScopeType == [vars : Tables, frames : Seq(FrameType), env : Environs]

\* What a record of the stack puts back: one or two values for a prefix
Pair      == Names \X Optional
Kinds     == {"call", "block", "prefix", "subst"}
RecordType ==
  [kind : Kinds, saved : Seq(Pair), frames : Seq(FrameType), count : 0 .. MaxParams,
   cwd : Values, seen : [Names -> Optional], given : Seq(Texts)]

Types ==
  /\ vars \in Tables
  /\ frames \in Seq(FrameType)
  /\ env \in Environs
  /\ cwd \in Dirs /\ dir \in Dirs
  /\ params \in Seq(Texts) /\ Len(params) = MaxParams
  /\ count \in 0 .. MaxParams
  /\ stack \in Seq(RecordType)
  /\ lost \in BOOLEAN
  /\ \A i \in 1 .. Len(stack) :
       /\ stack[i].kind = "prefix" => Len(stack[i].saved) \in {1, 2}
       /\ stack[i].kind = "subst" => stack[i].cwd \in Dirs

-----------------------------------------------------------------------------
(* The inductive invariant *)

\* What $n is in the table vs under the frames fs
Shown(vs, fs, n) == IF Visible(vs, fs, n).deleted THEN NoValue ELSE Visible(vs, fs, n).value

\* The number of frames above m of them, once a record of this kind is entered
Above(kind, m) ==
  IF kind \in {"call", "block"} THEN m + 1
  ELSE IF kind = "subst" /\ m = 0 THEN 1 ELSE m

\* d[i] is the number of frames once record i of the stack was entered; a
\* substitution has saved those it found.
Depths(d, fs, st) ==
  /\ d \in [0 .. Len(st) -> Nat]
  /\ d[0] = 0
  /\ \A i \in 1 .. Len(st) : d[i] = Above(st[i].kind, d[i - 1])
  /\ \A i, k \in 0 .. Len(st) : i <= k => d[i] <= d[k]
  /\ Len(fs) = d[Len(st)]
  /\ \A i \in 1 .. Len(st) : st[i].kind = "subst" => Len(st[i].frames) = d[i - 1]

\* The frames gs have an entry for every name that fs have one for.
Covers(fs, gs) ==
  /\ Len(fs) <= Len(gs)
  /\ \A j \in 1 .. Len(fs) : DOMAIN fs[j].vars \subseteq DOMAIN gs[j].vars

Below(fs, m) == SubSeq(fs, 1, m)

Sees(vs, fs, r) == \A n \in Names \ Inherited : Shown(vs, fs, n) = r.seen[n]

\* What is under a function, a block or a substitution does not change while it
\* runs.  Entered with m frames and run with M, record r finds that
\*  - a substitution's copy still names the entries of the parent's frames;
\*  - the variables of the caller are as they were on entry;
\*  - so are the caller's parameters, hidden by those of the function.
Kept(r, m, M, vs, fs, ps, c, l) ==
  /\ r.kind = "subst" => Covers(r.frames, fs)
  /\ ~ l /\ r.kind \in {"call", "block"} => Sees(vs, Below(fs, m), r)
  /\ r.kind = "call" => fs[M].positional /\ ParamsOf(Below(fs, m), ps, c) = r.given

\* This holds of the executing shell, and of the shells that substitutions
\* above will return to.
Undone(d, vs, fs, ps, c, st, l) ==
  \A i \in 1 .. Len(st) :
    /\ Kept(st[i], d[i - 1], d[i], vs, fs, ps, c, l)
    /\ \A k \in i + 1 .. Len(st) : st[k].kind = "subst" =>
         Kept(st[i], d[i - 1], d[i], vs, st[k].frames, ps, st[k].count, l)
    /\ ~ l /\ st[i].kind = "subst" => Sees(vs, st[i].frames, st[i])

Nested(d) == Depths(d, frames, stack) /\ Undone(d, vars, frames, params, count, stack, lost)

ScopesInv == Types /\ EnvExact /\ \E d : Nested(d)

-----------------------------------------------------------------------------
(* Tables *)

\* Tables and environments are functions on sets of names.
LEMMA TableFacts ==
  ASSUME NEW t
  PROVE  /\ t \in Tables => t \in [DOMAIN t -> Entry] /\ DOMAIN t \subseteq Names
         /\ t \in [DOMAIN t -> Entry] /\ DOMAIN t \subseteq Names => t \in Tables
         /\ t \in Environs => t \in [DOMAIN t -> Texts] /\ DOMAIN t \subseteq Names
         /\ t \in [DOMAIN t -> Texts] /\ DOMAIN t \subseteq Names => t \in Environs
  BY DEF Tables, Environs

\* A frame starts with the empty table.
LEMMA EmptyTable == <<>> \in Tables
<1>1. <<>> \in [DOMAIN <<>> -> Entry]
  OBVIOUS
<1>2. DOMAIN <<>> \subseteq Names
  OBVIOUS
<1> QED
  BY <1>1, <1>2, TableFacts

\* Setting and removing one name keeps a table a table.
LEMMA WithTyped ==
  ASSUME NEW t, NEW n \in Names
  PROVE  /\ \A x \in Entry : t \in Tables => With(t, n, x) \in Tables
         /\ \A x \in Texts : t \in Environs => With(t, n, x) \in Environs
         /\ t \in Tables => Without(t, n) \in Tables
         /\ t \in Environs => Without(t, n) \in Environs
<1>1. ASSUME NEW x \in Entry, t \in Tables PROVE With(t, n, x) \in Tables
  <2>1. With(t, n, x) \in [DOMAIN t \cup {n} -> Entry]
    BY <1>1, TableFacts DEF With
  <2> QED
    BY <2>1, <1>1, TableFacts DEF Tables
<1>2. ASSUME NEW x \in Texts, t \in Environs PROVE With(t, n, x) \in Environs
  <2>1. With(t, n, x) \in [DOMAIN t \cup {n} -> Texts]
    BY <1>2, TableFacts DEF With
  <2> QED
    BY <2>1, <1>2, TableFacts DEF Environs
<1>3. ASSUME t \in Tables PROVE Without(t, n) \in Tables
  <2>1. Without(t, n) \in [DOMAIN t \ {n} -> Entry]
    BY <1>3, TableFacts DEF Without
  <2> QED
    BY <2>1, <1>3, TableFacts DEF Tables
<1>4. ASSUME t \in Environs PROVE Without(t, n) \in Environs
  <2>1. Without(t, n) \in [DOMAIN t \ {n} -> Texts]
    BY <1>4, TableFacts DEF Without
  <2> QED
    BY <2>1, <1>4, TableFacts DEF Environs
<1> QED
  BY <1>1, <1>2, <1>3, <1>4

-----------------------------------------------------------------------------
(* Looking up *)

\* What is visible is decided by the tables of the frames alone ...
LEMMA VisibleSame ==
  ASSUME NEW vs, NEW fs \in Seq(FrameType), NEW gs \in Seq(FrameType), NEW n,
         Len(fs) = Len(gs), \A j \in 1 .. Len(fs) : fs[j].vars = gs[j].vars
  PROVE  Visible(vs, fs, n) = Visible(vs, gs, n) /\ Shown(vs, fs, n) = Shown(vs, gs, n)
<1>1. Holding(fs, n) = Holding(gs, n)
  BY DEF Holding
<1>2. ASSUME Holding(fs, n) # {}
      PROVE  LET i == CHOOSE i \in Holding(fs, n) : \A k \in Holding(fs, n) : k <= i
             IN  i \in 1 .. Len(fs)
  <2>1. Holding(fs, n) \subseteq 1 .. Len(fs)
    BY DEF Holding
  <2>2. \E i \in Holding(fs, n) : \A k \in Holding(fs, n) : k <= i
    BY <1>2, <2>1, Extremes, LenProperties
  <2> QED
    BY <2>1, <2>2
<1> QED
  BY <1>1, <1>2 DEF Visible, Shown

\* ... and the parameters by the rest of them.
LEMMA ParamsSame ==
  ASSUME NEW fs \in Seq(FrameType), NEW gs \in Seq(FrameType), NEW ps, NEW c, Len(fs) = Len(gs),
         \A j \in 1 .. Len(fs) : fs[j].positional = gs[j].positional /\ fs[j].params = gs[j].params
  PROVE  ParamsOf(fs, ps, c) = ParamsOf(gs, ps, c)
<1> DEFINE I == {i \in DOMAIN fs : fs[i].positional}
<1> DEFINE J == {i \in DOMAIN gs : gs[i].positional}
<1> DEFINE Top(K) == IF K = {} THEN 0 ELSE CHOOSE i \in K : \A k \in K : k <= i
<1>1. I = J
  OBVIOUS
<1>2. PositionalFrame(fs) = PositionalFrame(gs)
  <2>1. PositionalFrame(fs) = Top(I) /\ PositionalFrame(gs) = Top(J)
    BY DEF PositionalFrame
  <2> HIDE DEF I, J, Top
  <2> QED
    BY <2>1, <1>1
<1>3. PositionalFrame(fs) # 0 => PositionalFrame(fs) \in 1 .. Len(fs)
  <2>1. I \subseteq 1 .. Len(fs)
    OBVIOUS
  <2>2. I # {} => \E i \in I : \A k \in I : k <= i
    BY <2>1, Extremes, LenProperties
  <2> QED
    BY <2>1, <2>2 DEF PositionalFrame
<1> QED
  BY <1>2, <1>3 DEF ParamsOf

\* The frame in force is the last positional one.
LEMMA InForce ==
  ASSUME NEW fs \in Seq(FrameType)
  PROVE  /\ PositionalFrame(fs) \in 0 .. Len(fs)
         /\ PositionalFrame(fs) # 0 => fs[PositionalFrame(fs)].positional
         /\ \A j \in 1 .. Len(fs) : fs[j].positional => j <= PositionalFrame(fs)
<1> DEFINE I == {i \in DOMAIN fs : fs[i].positional}
<1>1. I \subseteq 1 .. Len(fs)
  OBVIOUS
<1>2. I # {} => \E i \in I : \A k \in I : k <= i
  BY <1>1, Extremes, LenProperties
<1> QED
  BY <1>1, <1>2 DEF PositionalFrame

\* What a name shows, and which names the frames hold.
LEMMA VisibleTyped ==
  ASSUME NEW vs \in Tables, NEW fs \in Seq(FrameType), NEW n
  PROVE  /\ Visible(vs, fs, n) \in Entry \/ Visible(vs, fs, n) = Absent
         /\ Shown(vs, fs, n) \in Optional
         /\ n \in NamesOf(fs) <=> Holding(fs, n) # {}
         /\ NamesOf(fs) \subseteq Names
         /\ Holding(fs, n) = {} => Visible(vs, fs, n) = IF n \in DOMAIN vs THEN vs[n] ELSE Absent
<1>0. \A i \in 1 .. Len(fs) : fs[i] \in FrameType
  BY ElementOfSeq
<1>1. \A i \in 1 .. Len(fs) : fs[i] \in FrameType /\ fs[i].vars \in Tables
  BY <1>0 DEF FrameType
<1>2. Visible(vs, fs, n) \in Entry \/ Visible(vs, fs, n) = Absent
  <2>1. Holding(fs, n) \subseteq 1 .. Len(fs)
    BY DEF Holding
  <2>2. CASE Holding(fs, n) # {}
    <3> DEFINE i == CHOOSE i \in Holding(fs, n) : \A k \in Holding(fs, n) : k <= i
    <3>1. \E j \in Holding(fs, n) : \A k \in Holding(fs, n) : k <= j
      BY <2>1, <2>2, Extremes, LenProperties
    <3>2. i \in Holding(fs, n)
      BY <3>1
    <3>3. i \in 1 .. Len(fs) /\ n \in DOMAIN fs[i].vars
      BY <3>2 DEF Holding
    <3>4. Visible(vs, fs, n) = fs[i].vars[n]
      BY <2>2 DEF Visible
    <3>5. fs[i].vars \in [DOMAIN fs[i].vars -> Entry]
      BY <1>1, <3>3, TableFacts
    <3> HIDE DEF i
    <3> QED
      BY <3>3, <3>4, <3>5
  <2>3. CASE Holding(fs, n) = {}
    BY <2>3, TableFacts DEF Visible
  <2> QED
    BY <2>2, <2>3
<1>3. Shown(vs, fs, n) \in Optional
  BY <1>2 DEF Shown, Optional, Entry, Absent
<1>4. n \in NamesOf(fs) <=> Holding(fs, n) # {}
  BY DEF NamesOf, Holding
<1>5. NamesOf(fs) \subseteq Names
  <2>1. \A i \in 1 .. Len(fs) : DOMAIN fs[i].vars \subseteq Names
    BY <1>1, TableFacts
  <2> QED
    BY <2>1 DEF NamesOf
<1> QED
  BY <1>2, <1>3, <1>4, <1>5 DEF Visible

\* The first m elements of a sequence.
LEMMA InitialSegment ==
  ASSUME NEW S, NEW s \in Seq(S), NEW m \in 0 .. Len(s)
  PROVE  /\ SubSeq(s, 1, m) \in Seq(S)
         /\ Len(SubSeq(s, 1, m)) = m
         /\ \A j \in 1 .. m : SubSeq(s, 1, m)[j] = s[j]
<1>1. Len(s) \in Nat
  BY LenProperties
<1> QED
  BY <1>1, SubSeqProperties

\* The frames below a depth.
LEMMA BelowFacts ==
  ASSUME NEW fs \in Seq(FrameType), NEW m \in 0 .. Len(fs)
  PROVE  /\ Below(fs, m) \in Seq(FrameType)
         /\ Len(Below(fs, m)) = m
         /\ \A j \in 1 .. m : Below(fs, m)[j] = fs[j]
BY InitialSegment DEF Below

\* The frames below the innermost one.
LEMMA FrontFacts ==
  ASSUME NEW fs \in Seq(FrameType), fs # <<>>
  PROVE  /\ Len(fs) \in Nat \ {0}
         /\ Front(fs) = Below(fs, Len(fs) - 1)
         /\ Front(fs) \in Seq(FrameType)
         /\ Len(Front(fs)) = Len(fs) - 1
         /\ \A j \in 1 .. Len(fs) - 1 : Front(fs)[j] = fs[j]
         /\ Last(fs) = fs[Len(fs)]
         /\ Last(fs) \in FrameType
<1>1. Len(fs) \in Nat \ {0} /\ Len(fs) - 1 \in 0 .. Len(fs)
  BY LenProperties, EmptySeq
<1>2. Front(fs) = Below(fs, Len(fs) - 1) /\ Last(fs) = fs[Len(fs)]
  BY DEF Front, Below, Last
<1>3. fs[Len(fs)] \in FrameType
  BY <1>1, ElementOfSeq
<1> QED
  <2> DEFINE below == Below(fs, Len(fs) - 1)
  <2>1. /\ below \in Seq(FrameType) /\ Len(below) = Len(fs) - 1
        /\ \A j \in 1 .. Len(fs) - 1 : below[j] = fs[j]
    BY <1>1, BelowFacts
  <2> HIDE DEF below
  <2>2. Front(fs) = below
    BY <1>2 DEF below
  <2> QED
    BY <1>1, <1>2, <1>3, <2>1, <2>2 DEF below

\* The innermost frame hides the others.
LEMMA VisibleLast ==
  ASSUME NEW vs, NEW fs \in Seq(FrameType), NEW n, fs # <<>>
  PROVE  Visible(vs, fs, n) = IF n \in DOMAIN Last(fs).vars THEN Last(fs).vars[n]
                              ELSE Visible(vs, Front(fs), n)
<1> DEFINE N == Len(fs)
<1>1. /\ N \in Nat \ {0} /\ Last(fs) = fs[N] /\ DOMAIN fs = 1 .. N
      /\ Front(fs) \in Seq(FrameType) /\ DOMAIN Front(fs) = 1 .. N - 1
      /\ \A j \in 1 .. N - 1 : Front(fs)[j] = fs[j]
  BY FrontFacts, LenProperties
<1>2. CASE n \in DOMAIN Last(fs).vars
  <2>1. N \in Holding(fs, n) /\ \A k \in Holding(fs, n) : k \in 1 .. N
    BY <1>1, <1>2 DEF Holding
  <2>2. \A i \in Holding(fs, n) : (\A k \in Holding(fs, n) : k <= i) => i = N
    BY <2>1, <1>1
  <2>3. (CHOOSE i \in Holding(fs, n) : \A k \in Holding(fs, n) : k <= i) = N
    BY <2>1, <2>2, <1>1
  <2> QED
    BY <2>1, <2>3, <1>1, <1>2 DEF Visible
<1>3. CASE n \notin DOMAIN Last(fs).vars
  <2>1. Holding(fs, n) = Holding(Front(fs), n)
    BY <1>1, <1>3 DEF Holding
  <2>2. Holding(fs, n) \subseteq 1 .. N - 1
    BY <2>1, <1>1 DEF Holding
  <2>3. CASE Holding(fs, n) # {}
    <3> DEFINE i == CHOOSE i \in Holding(fs, n) : \A k \in Holding(fs, n) : k <= i
    <3>0. N - 1 \in Nat
      BY <1>1
    <3>1. \E j \in Holding(fs, n) : \A k \in Holding(fs, n) : k <= j
      BY <2>2, <2>3, <3>0, Extremes
    <3>2. i \in 1 .. N - 1
      BY <3>1, <2>2
    <3>3. Front(fs)[i] = fs[i]
      BY <3>2, <1>1
    <3>4. Visible(vs, fs, n) = fs[i].vars[n]
      BY <2>3 DEF Visible
    <3>5. Visible(vs, Front(fs), n) = Front(fs)[i].vars[n]
      BY <2>1, <2>3 DEF Visible
    <3> QED
      BY <3>3, <3>4, <3>5, <1>3
  <2>4. CASE Holding(fs, n) = {}
    BY <2>1, <2>4, <1>3 DEF Visible
  <2> QED
    BY <2>3, <2>4
<1> QED
  BY <1>2, <1>3

-----------------------------------------------------------------------------
(* Changing a scope *)

\* EnvExact, of a scope
Exact(s) ==
  \A n \in Names \ Inherited :
    LET e == Visible(s.vars, s.frames, n)
    IN  /\ n \in DOMAIN s.env <=> e.exported
        /\ n \in DOMAIN s.env => s.env[n] = e.value

\* t is s after some variables were set or unset: only the innermost table
\* changed, and a frame keeps the names it has entries for.
Grown(s, t) ==
  /\ t \in ScopeType
  /\ Len(t.frames) = Len(s.frames)
  /\ s.frames # <<>> => t.vars = s.vars
  /\ \A j \in 1 .. Len(s.frames) :
       /\ j < Len(s.frames) => t.frames[j] = s.frames[j]
       /\ t.frames[j].positional = s.frames[j].positional
       /\ t.frames[j].params = s.frames[j].params
       /\ DOMAIN s.frames[j].vars \subseteq DOMAIN t.frames[j].vars

\* Writing to the innermost table, once or several times, keeps the other frames.
LEMMA GrownAgain ==
  ASSUME NEW s \in ScopeType
  PROVE  /\ Grown(s, s)
         /\ \A t, u \in ScopeType : Grown(s, t) /\ Grown(t, u) => Grown(s, u)
<1>1. Grown(s, s)
  BY DEF Grown
<1>2. ASSUME NEW t \in ScopeType, NEW u \in ScopeType, Grown(s, t), Grown(t, u)
      PROVE  Grown(s, u)
  <2>1. s.frames \in Seq(FrameType) /\ t.frames \in Seq(FrameType)
    BY DEF ScopeType
  <2>2. s.frames # <<>> => t.frames # <<>>
    BY <1>2, <2>1, EmptySeq DEF Grown
  <2> QED
    BY <1>2, <2>1, <2>2 DEF Grown
<1> QED
  BY <1>1, <1>2

\* The table a command writes to, and what shows where it holds nothing.
LEMMA TargetTyped ==
  ASSUME NEW s \in ScopeType, NEW n
  PROVE  /\ Target(s) \in Tables
         /\ Outer(s, n) \in Entry \/ Outer(s, n) = Absent
<1>1. s.vars \in Tables /\ s.frames \in Seq(FrameType)
  BY DEF ScopeType
<1>2. CASE s.frames = <<>>
  BY <1>1, <1>2 DEF Target, Outer
<1>3. CASE s.frames # <<>>
  <2>1. Last(s.frames) \in FrameType /\ Front(s.frames) \in Seq(FrameType)
    BY <1>1, <1>3, FrontFacts
  <2> QED
    BY <2>1, <1>1, <1>3, VisibleTyped DEF Target, Outer, FrameType
<1> QED
  BY <1>2, <1>3

\* Replacing the innermost table by one with at least its names
LEMMA WrittenFacts ==
  ASSUME NEW s \in ScopeType, NEW t \in Tables, NEW e \in Environs,
         s.frames # <<>> => DOMAIN Target(s) \subseteq DOMAIN t
  PROVE  /\ Written(s, t, e) \in ScopeType
         /\ Grown(s, Written(s, t, e))
         /\ Written(s, t, e).env = e
         /\ Target(Written(s, t, e)) = t
         /\ s.frames = <<>> => Written(s, t, e).frames = <<>> /\ Written(s, t, e).vars = t
         /\ s.frames # <<>> => /\ Written(s, t, e).frames # <<>>
                               /\ Written(s, t, e).vars = s.vars
                               /\ Front(Written(s, t, e).frames) = Front(s.frames)
                               /\ Last(Written(s, t, e).frames).vars = t
<1> DEFINE w == Written(s, t, e)
<1>1. s.vars \in Tables /\ s.frames \in Seq(FrameType) /\ s.env \in Environs
  BY DEF ScopeType
<1>2. CASE s.frames = <<>>
  <2>1. w = [s EXCEPT !.vars = t, !.env = e]
    BY <1>2 DEF Written
  <2>2. w \in ScopeType /\ w.env = e /\ w.frames = <<>> /\ w.vars = t
    BY <2>1, <1>1, <1>2 DEF ScopeType
  <2>3. Grown(s, w)
    BY <2>2, <1>2 DEF Grown
  <2> QED
    BY <2>2, <2>3, <1>2 DEF Target
<1>3. CASE s.frames # <<>>
  <2> DEFINE N == Len(s.frames)
             L == [Last(s.frames) EXCEPT !.vars = t]
             fs == [s.frames EXCEPT ![N] = L]
  <2>1. N \in Nat \ {0} /\ Last(s.frames) = s.frames[N] /\ Last(s.frames) \in FrameType
    BY <1>1, <1>3, FrontFacts
  <2>2. w = [s EXCEPT !.frames = fs, !.env = e]
    BY <1>3, <1>1, <2>1 DEF Written
  <2>3. L \in FrameType /\ L.vars = t /\ L.positional = Last(s.frames).positional
        /\ L.params = Last(s.frames).params
    BY <2>1 DEF FrameType
  <2>4. fs \in Seq(FrameType) /\ Len(fs) = N /\ fs[N] = L /\ \A j \in 1 .. N - 1 : fs[j] = s.frames[j]
    BY <2>1, <2>3, <1>1, ExceptSeq
  <2>5. fs # <<>>
    BY <2>1, <2>4, EmptySeq
  <2>6. w \in ScopeType /\ w.env = e /\ w.vars = s.vars /\ w.frames = fs
    BY <2>2, <2>4, <1>1 DEF ScopeType
  <2>7. Front(fs) = Front(s.frames) /\ Last(fs).vars = t
    <3>1. Last(fs) = L
      BY <2>4 DEF Last
    <3>2. Front(fs) = Front(s.frames)
      <4>1. /\ Front(fs) \in Seq(FrameType) /\ Len(Front(fs)) = N - 1
            /\ \A j \in 1 .. N - 1 : Front(fs)[j] = fs[j]
        BY <2>4, <2>5, FrontFacts
      <4>2. /\ Front(s.frames) \in Seq(FrameType) /\ Len(Front(s.frames)) = N - 1
            /\ \A j \in 1 .. N - 1 : Front(s.frames)[j] = s.frames[j]
        BY <1>1, <1>3, FrontFacts
      <4>3. \A j \in 1 .. Len(Front(fs)) : Front(fs)[j] = Front(s.frames)[j]
        BY <4>1, <4>2, <2>4
      <4> HIDE DEF fs
      <4> QED
        BY <4>1, <4>2, <4>3, SeqEqual
    <3> QED
      BY <3>1, <3>2, <2>3
  <2>8. Target(s) = Last(s.frames).vars
    BY <1>3 DEF Target
  <2>9. Grown(s, w)
    <3> HIDE DEF fs, L
    <3>1. \A j \in 1 .. N : /\ j < N => fs[j] = s.frames[j]
                            /\ fs[j].positional = s.frames[j].positional
                            /\ fs[j].params = s.frames[j].params
                            /\ DOMAIN s.frames[j].vars \subseteq DOMAIN fs[j].vars
      <4>1. SUFFICES ASSUME NEW j \in 1 .. N
                     PROVE  /\ j < N => fs[j] = s.frames[j]
                            /\ fs[j].positional = s.frames[j].positional
                            /\ fs[j].params = s.frames[j].params
                            /\ DOMAIN s.frames[j].vars \subseteq DOMAIN fs[j].vars
        OBVIOUS
      <4>2. CASE j = N
        BY <4>2, <2>1, <2>3, <2>4, <2>8, <1>3
      <4>3. CASE j # N
        <5>1. j \in 1 .. N - 1
          BY <4>3, <2>1
        <5> QED
          BY <5>1, <2>4
      <4> QED
        BY <4>2, <4>3
    <3> QED
      BY <3>1, <2>4, <2>6 DEF Grown
  <2> HIDE DEF fs, L
  <2> QED
    BY <1>3, <2>5, <2>6, <2>7, <2>9 DEF Target
<1> QED
  BY <1>2, <1>3

\* A name is visible in the innermost table first.
LEMMA VisibleTarget ==
  ASSUME NEW s \in ScopeType, NEW n
  PROVE  Visible(s.vars, s.frames, n) =
           IF n \in DOMAIN Target(s) THEN Target(s)[n] ELSE Outer(s, n)
<1>1. s.vars \in Tables /\ s.frames \in Seq(FrameType)
  BY DEF ScopeType
<1>2. CASE s.frames = <<>>
  <2>1. Holding(s.frames, n) = {}
    BY <1>2 DEF Holding
  <2> QED
    BY <2>1, <1>2 DEF Visible, Target, Outer
<1>3. CASE s.frames # <<>>
  BY <1>1, <1>3, VisibleLast DEF Target, Outer
<1> QED
  BY <1>2, <1>3

\* Setting a variable keeps the environment in step.
LEMMA AssignFacts ==
  ASSUME NEW s \in ScopeType, NEW n \in Names, NEW v \in Texts, NEW ex \in BOOLEAN
  PROVE  /\ Assign(s, n, v, ex) \in ScopeType
         /\ Grown(s, Assign(s, n, v, ex))
         /\ Exact(s) => Exact(Assign(s, n, v, ex))
<1> DEFINE t  == Target(s)
           x  == ex \/ (n \in DOMAIN t /\ t[n].exported) \/ Outer(s, n).exported
           E  == [value |-> v, exported |-> x, deleted |-> FALSE]
           e  == IF x THEN With(s.env, n, v) ELSE s.env
           w  == Written(s, With(t, n, E), e)
<1>1. t \in Tables /\ (Outer(s, n) \in Entry \/ Outer(s, n) = Absent) /\ s.env \in Environs
  BY TargetTyped DEF ScopeType
<1>2. x \in BOOLEAN
  <2>1. Outer(s, n).exported \in BOOLEAN
    <3>1. Outer(s, n) \in Entry => Outer(s, n).exported \in BOOLEAN
      BY DEF Entry
    <3>2. Absent.exported = FALSE
      BY DEF Absent
    <3> QED
      BY <3>1, <3>2, <1>1, Zenon
  <2>2. n \in DOMAIN t => t[n].exported \in BOOLEAN
    BY <1>1, TableFacts DEF Entry
  <2> QED
    BY <2>1, <2>2
<1>3. E \in Entry /\ e \in Environs
  BY <1>1, <1>2, WithTyped DEF Entry
<1>a. E.exported = x /\ E.value = v
  OBVIOUS
<1>4. With(t, n, E) \in Tables
  BY <1>1, <1>3, WithTyped
<1>5. DOMAIN With(t, n, E) = DOMAIN t \cup {n} /\ With(t, n, E)[n] = E
      /\ \A m \in DOMAIN t \ {n} : With(t, n, E)[m] = t[m]
  BY DEF With
<1>6. Assign(s, n, v, ex) = s \/ Assign(s, n, v, ex) = w
  BY DEF Assign
<1>7. w \in ScopeType /\ Grown(s, w) /\ w.env = e /\ Target(w) = With(t, n, E)
  BY <1>3, <1>4, <1>5, WrittenFacts
<1>8. ASSUME NEW m PROVE Outer(w, m) = Outer(s, m)
  BY <1>3, <1>4, <1>5, WrittenFacts DEF Outer
<1>9. ASSUME Exact(s) PROVE Exact(w)
  <2>1. SUFFICES ASSUME NEW m \in Names \ Inherited
                 PROVE  /\ m \in DOMAIN w.env <=> Visible(w.vars, w.frames, m).exported
                        /\ m \in DOMAIN w.env => w.env[m] = Visible(w.vars, w.frames, m).value
    BY DEF Exact
  <2> HIDE DEF w, e, E
  <2>2. /\ m \in DOMAIN s.env <=> Visible(s.vars, s.frames, m).exported
        /\ m \in DOMAIN s.env => s.env[m] = Visible(s.vars, s.frames, m).value
    BY <1>9 DEF Exact
  <2>3. Visible(s.vars, s.frames, m) = IF m \in DOMAIN t THEN t[m] ELSE Outer(s, m)
    BY VisibleTarget
  <2>4. Visible(w.vars, w.frames, m) = IF m \in DOMAIN Target(w) THEN Target(w)[m] ELSE Outer(w, m)
    BY <1>7, VisibleTarget
  <2>5. CASE m # n
    <3>1. Visible(w.vars, w.frames, m) = Visible(s.vars, s.frames, m)
      BY <2>3, <2>4, <2>5, <1>5, <1>7, <1>8
    <3>2. (m \in DOMAIN e <=> m \in DOMAIN s.env) /\ (m \in DOMAIN e => e[m] = s.env[m])
      BY <2>5 DEF With, e
    <3> QED
      BY <3>1, <3>2, <2>2, <1>7
  <2>6. CASE m = n
    <3>1. Visible(w.vars, w.frames, m) = E
      BY <2>4, <2>6, <1>5, <1>7
    <3>2. CASE x
      <4>1. m \in DOMAIN e /\ e[m] = v
        BY <3>2, <2>6 DEF With, e
      <4> QED
        BY <3>1, <3>2, <4>1, <1>7, <1>a
    <3>3. CASE ~ x
      <4>1. ~ Visible(s.vars, s.frames, m).exported
        BY <2>3, <2>6, <3>3
      <4>2. m \notin DOMAIN e
        BY <4>1, <2>2, <3>3 DEF e
      <4> QED
        BY <3>1, <3>3, <4>2, <1>7, <1>a
    <3> QED
      BY <3>2, <3>3
  <2> QED
    BY <2>5, <2>6
<1> QED
  BY <1>6, <1>7, <1>9, GrownAgain

\* So does unsetting one.
LEMMA UnsetFacts ==
  ASSUME NEW s \in ScopeType, NEW n \in Names
  PROVE  /\ Unset(s, n) \in ScopeType
         /\ Grown(s, Unset(s, n))
         /\ Exact(s) => Exact(Unset(s, n))
<1> DEFINE t == Target(s)
           E == [value |-> Empty, exported |-> FALSE, deleted |-> TRUE]
           u == IF s.frames = <<>> THEN Without(t, n) ELSE With(t, n, E)
           e == Without(s.env, n)
           w == Written(s, u, e)
<1>1. t \in Tables /\ s.env \in Environs
  BY TargetTyped DEF ScopeType
<1>2. u \in Tables /\ e \in Environs
  BY <1>1, WithTyped, ValuesAssumption DEF Entry, Texts
<1>3. Unset(s, n) = s \/ Unset(s, n) = w
  BY DEF Unset, Written, Target
<1>4. s.frames # <<>> => DOMAIN Target(s) \subseteq DOMAIN u
  BY DEF With
<1> HIDE DEF u, e
<1>5. w \in ScopeType /\ Grown(s, w) /\ w.env = e /\ Target(w) = u
  BY <1>2, <1>4, WrittenFacts
<1>6. ASSUME NEW m PROVE Outer(w, m) = Outer(s, m)
  BY <1>2, <1>4, WrittenFacts DEF Outer
<1>7. ASSUME Exact(s) PROVE Exact(w)
  <2>1. SUFFICES ASSUME NEW m \in Names \ Inherited
                 PROVE  /\ m \in DOMAIN w.env <=> Visible(w.vars, w.frames, m).exported
                        /\ m \in DOMAIN w.env => w.env[m] = Visible(w.vars, w.frames, m).value
    BY DEF Exact
  <2> HIDE DEF w
  <2>2. /\ m \in DOMAIN s.env <=> Visible(s.vars, s.frames, m).exported
        /\ m \in DOMAIN s.env => s.env[m] = Visible(s.vars, s.frames, m).value
    BY <1>7 DEF Exact
  <2>3. Visible(s.vars, s.frames, m) = IF m \in DOMAIN t THEN t[m] ELSE Outer(s, m)
    BY VisibleTarget
  <2>4. Visible(w.vars, w.frames, m) = IF m \in DOMAIN u THEN u[m] ELSE Outer(s, m)
    BY <1>5, <1>6, VisibleTarget
  <2>5. CASE m # n
    <3>1. (m \in DOMAIN u <=> m \in DOMAIN t) /\ (m \in DOMAIN t => u[m] = t[m])
      BY <2>5 DEF With, Without, u
    <3>2. Visible(w.vars, w.frames, m) = Visible(s.vars, s.frames, m)
      BY <2>3, <2>4, <3>1
    <3>3. (m \in DOMAIN e <=> m \in DOMAIN s.env) /\ (m \in DOMAIN e => e[m] = s.env[m])
      BY <2>5 DEF Without, e
    <3> QED
      BY <3>2, <3>3, <2>2, <1>5
  <2>6. CASE m = n
    <3>1. m \notin DOMAIN e
      BY <2>6 DEF Without, e
    <3>2. CASE s.frames = <<>>
      <4>1. m \notin DOMAIN u /\ Outer(s, m) = Absent
        BY <2>6, <3>2 DEF Without, Outer, u
      <4> QED
        BY <4>1, <3>1, <2>4, <1>5 DEF Absent
    <3>3. CASE s.frames # <<>>
      <4>1. m \in DOMAIN u /\ u[m] = E
        BY <2>6, <3>3 DEF With, u
      <4> QED
        BY <4>1, <3>1, <2>4, <1>5
    <3> QED
      BY <3>2, <3>3
  <2> QED
    BY <2>5, <2>6
<1> QED
  BY <1>3, <1>5, <1>7, GrownAgain

\* A name that is synchronised is in the environment exactly if it is exported
\* where it is seen from; the others stay as they are.
SyncedTo(e, old, N, vs, fs) ==
  /\ e \in Environs
  /\ \A m \in N : /\ m \in DOMAIN e <=> Visible(vs, fs, m).exported
                  /\ m \in DOMAIN e => e[m] = Visible(vs, fs, m).value
  /\ \A m : m \notin N => /\ m \in DOMAIN e <=> m \in DOMAIN old
                          /\ m \in DOMAIN e => e[m] = old[m]

\* sync_visible_var_env on a set of names gives them what they show and leaves
\* the others.
LEMMA SyncedFacts ==
  ASSUME NEW e \in Environs, NEW N, N \subseteq Names, NEW vs \in Tables,
         NEW fs \in Seq(FrameType)
  PROVE  SyncedTo(Synced(e, N, vs, fs), e, N, vs, fs)
<1> DEFINE D == (DOMAIN e \ N) \cup {m \in N : Visible(vs, fs, m).exported}
           S == [n \in D |-> IF n \in N THEN Visible(vs, fs, n).value ELSE e[n]]
<1>1. Synced(e, N, vs, fs) = S
  BY DEF Synced
<1>2. DOMAIN e \subseteq Names /\ e \in [DOMAIN e -> Texts]
  BY TableFacts
<1>3. ASSUME NEW m \in N, Visible(vs, fs, m).exported PROVE Visible(vs, fs, m).value \in Texts
  <2>1. Visible(vs, fs, m) \in Entry
    <3>1. ~ Absent.exported
      BY DEF Absent
    <3> QED
      BY <3>1, <1>3, VisibleTyped
  <2> QED
    BY <2>1 DEF Entry
<1>4. S \in [D -> Texts]
  BY <1>2, <1>3
<1>5. S \in Environs
  <2>1. D \subseteq Names
    BY <1>2
  <2> QED
    BY <2>1, <1>4 DEF Environs
<1> QED
  BY <1>1, <1>5 DEF SyncedTo

\* Leaving a frame: what it hid is visible again, in the environment too.
LEMMA PoppedFacts ==
  ASSUME NEW s \in ScopeType, s.frames # <<>>
  PROVE  /\ Popped(s) \in ScopeType
         /\ Popped(s).vars = s.vars
         /\ Popped(s).frames = Front(s.frames)
         /\ Exact(s) => Exact(Popped(s))
<1> DEFINE N == DOMAIN Last(s.frames).vars
           fs == Front(s.frames)
           e == Synced(s.env, N, s.vars, fs)
<1>1. s.vars \in Tables /\ s.frames \in Seq(FrameType) /\ s.env \in Environs
  BY DEF ScopeType
<1>2. fs \in Seq(FrameType) /\ Last(s.frames) \in FrameType
  BY <1>1, FrontFacts
<1>3. N \subseteq Names
  BY <1>2, TableFacts DEF FrameType
<1>4. Popped(s) = [s EXCEPT !.frames = fs, !.env = e]
  BY DEF Popped
<1> HIDE DEF N, fs
<1>5. SyncedTo(e, s.env, N, s.vars, fs)
  BY <1>1, <1>2, <1>3, SyncedFacts
<1>6. Popped(s) \in ScopeType /\ Popped(s).vars = s.vars /\ Popped(s).frames = fs /\ Popped(s).env = e
  BY <1>1, <1>2, <1>4, <1>5 DEF ScopeType, SyncedTo
<1> HIDE DEF e
<1>7. ASSUME Exact(s), NEW m \in Names \ Inherited
      PROVE  /\ m \in DOMAIN e <=> Visible(s.vars, fs, m).exported
             /\ m \in DOMAIN e => e[m] = Visible(s.vars, fs, m).value
  <2>1. CASE m \in N
    BY <2>1, <1>5 DEF SyncedTo
  <2>2. CASE m \notin N
    <3>1. Visible(s.vars, s.frames, m) = Visible(s.vars, fs, m)
      BY <2>2, <1>1, VisibleLast DEF N, fs
    <3>2. /\ m \in DOMAIN e <=> m \in DOMAIN s.env
          /\ m \in DOMAIN e => e[m] = s.env[m]
      BY <2>2, <1>5 DEF SyncedTo
    <3> QED
      BY <3>1, <3>2, <1>7 DEF Exact
  <2> QED
    BY <2>1, <2>2
<1>8. Exact(s) => Exact(Popped(s))
  BY <1>6, <1>7 DEF Exact
<1> QED
  BY <1>6, <1>8 DEF fs

\* Leaving a substitution whose frames still name what its parent's do
LEMMA RestoredFacts ==
  ASSUME NEW s \in ScopeType, NEW fs \in Seq(FrameType), NEW r,
         r = [vars |-> s.vars, frames |-> fs,
              env |-> Synced(s.env, NamesOf(s.frames), s.vars, fs)]
  PROVE  /\ r \in ScopeType
         /\ Covers(fs, s.frames) /\ Exact(s) => Exact(r)
<1> DEFINE N == NamesOf(s.frames)
           e == Synced(s.env, N, s.vars, fs)
<1>1. s.vars \in Tables /\ s.frames \in Seq(FrameType) /\ s.env \in Environs
  BY DEF ScopeType
<1>2. N \subseteq Names
  BY <1>1, VisibleTyped
<1> HIDE DEF N
<1>3. SyncedTo(e, s.env, N, s.vars, fs)
  BY <1>1, <1>2, SyncedFacts
<1>4. r \in ScopeType /\ r.vars = s.vars /\ r.frames = fs /\ r.env = e
  BY <1>1, <1>3 DEF ScopeType, N, SyncedTo
<1> HIDE DEF e
<1>5. ASSUME Covers(fs, s.frames), Exact(s), NEW m \in Names \ Inherited
      PROVE  /\ m \in DOMAIN e <=> Visible(s.vars, fs, m).exported
             /\ m \in DOMAIN e => e[m] = Visible(s.vars, fs, m).value
  <2>1. CASE m \in N
    BY <2>1, <1>3 DEF SyncedTo
  <2>2. CASE m \notin N
    <3>1. Holding(s.frames, m) = {}
      BY <2>2, <1>1, VisibleTyped DEF N
    <3>2. Holding(fs, m) = {}
      <4>1. DOMAIN fs = 1 .. Len(fs) /\ DOMAIN s.frames = 1 .. Len(s.frames)
            /\ Len(fs) \in Nat /\ Len(s.frames) \in Nat
        BY <1>1, LenProperties
      <4> QED
        BY <3>1, <1>5, <4>1 DEF Holding, Covers
    <3>3. Visible(s.vars, s.frames, m) = Visible(s.vars, fs, m)
      BY <3>1, <3>2 DEF Visible
    <3>4. /\ m \in DOMAIN e <=> m \in DOMAIN s.env
          /\ m \in DOMAIN e => e[m] = s.env[m]
      BY <2>2, <1>3 DEF SyncedTo
    <3> QED
      BY <3>3, <3>4, <1>5 DEF Exact
  <2> QED
    BY <2>1, <2>2
<1> QED
  BY <1>4, <1>5 DEF Exact

\* The value of a variable; without inherited names the environment adds none.
LEMMA ValueFacts ==
  ASSUME NEW s \in ScopeType, NEW n
  PROVE  /\ Value(s.vars, s.frames, s.env, n) \in Optional
         /\ Exact(s) /\ n \in Names \ Inherited =>
              Value(s.vars, s.frames, s.env, n) = Shown(s.vars, s.frames, n)
<1>1. s.vars \in Tables /\ s.frames \in Seq(FrameType) /\ s.env \in Environs
  BY DEF ScopeType
<1>2. Value(s.vars, s.frames, s.env, n) =
        IF Holding(s.frames, n) = {} /\ n \notin DOMAIN s.vars /\ n \in DOMAIN s.env
        THEN s.env[n] ELSE Shown(s.vars, s.frames, n)
  BY DEF Value, Shown
<1>3. Shown(s.vars, s.frames, n) \in Optional
  BY <1>1, VisibleTyped
<1>4. n \in DOMAIN s.env => s.env[n] \in Optional
  BY <1>1, TableFacts DEF Optional
<1>5. ASSUME Holding(s.frames, n) = {}, n \notin DOMAIN s.vars, Exact(s), n \in Names \ Inherited
      PROVE  n \notin DOMAIN s.env
  <2>1. Visible(s.vars, s.frames, n) = Absent
    BY <1>5 DEF Visible
  <2>2. ~ Absent.exported
    BY DEF Absent
  <2> QED
    BY <2>1, <2>2, <1>5 DEF Exact
<1> QED
  BY <1>2, <1>3, <1>4, <1>5

\* Following namerefs from a name ends at a name.
LEMMA ResolvedTyped ==
  ASSUME NEW n \in Names
  PROVE  Resolved(n) \in Names
<1> DEFINE isRef(m) == GetVar(m) \in Refs
           next(m) == GetVar(m)[2]
           g == [m \in Names |-> IF isRef(m) THEN next(m) ELSE m]
           step(f) == [k \in 0 .. MaxHops |->
                         IF k = 0 THEN n
                         ELSE IF isRef(f[k - 1]) THEN next(f[k - 1]) ELSE f[k - 1]]
           chain == CHOOSE f : f = step(f)
<1>1. ASSUME NEW m \in Names, isRef(m) PROVE next(m) \in Names
  <2>1. PICK t \in Names : GetVar(m) = <<"ref", t>>
    BY <1>1 DEF Refs, Ref
  <2> QED
    BY <2>1
<1>2. g \in [Names -> Names]
  BY <1>1
<1>3. MaxHops \in Nat
  BY LimitsAssumption
<1>4. PICK f \in [0 .. MaxHops -> Names] :
        f[0] = n /\ \A k \in 1 .. MaxHops : f[k] = g[f[k - 1]]
  <2> HIDE DEF g
  <2>1. \E f : Iteration(f, Names, n, g, MaxHops)
    BY <1>2, <1>3, Iterates
  <2> QED
    BY <2>1 DEF Iteration
<1>5. f = step(f)
  <2>1. \A k \in 1 .. MaxHops : f[k - 1] \in Names
    BY <1>3
  <2>2. \A k \in 1 .. MaxHops : f[k] = IF isRef(f[k - 1]) THEN next(f[k - 1]) ELSE f[k - 1]
    BY <1>4, <2>1
  <2> HIDE DEF isRef, next
  <2> QED
    BY <2>2, <1>3, <1>4
<1>6. chain = step(chain)
  <2> HIDE DEF step
  <2> QED
    BY <1>5
<1>7. \A k \in 0 .. MaxHops : chain[k] \in Names
  <2> HIDE DEF chain
  <2> DEFINE S == {k \in 0 .. MaxHops : chain[k] \in Names}
  <2>1. chain[0] = n
    BY <1>6, <1>3
  <2>2. ASSUME NEW k \in 0 .. MaxHops - 1, chain[k] \in Names PROVE chain[k + 1] \in Names
    <3>1. chain[k + 1] = IF isRef(chain[k]) THEN next(chain[k]) ELSE chain[k]
      <4> HIDE DEF isRef, next
      <4> QED
        BY <1>6, <1>3
    <3> QED
      BY <3>1, <2>2, <1>1
  <2>3. 0 \in S /\ \A k \in 0 .. MaxHops - 1 : k \in S => k + 1 \in S
    BY <2>1, <2>2, <1>3
  <2>4. 0 .. MaxHops \subseteq S
    <3> HIDE DEF S
    <3> QED
      BY <2>3, <1>3, Induction
  <2> QED
    BY <2>4
<1>8. Resolved(n) = IF isRef(chain[MaxHops]) THEN n ELSE chain[MaxHops]
  BY DEF Resolved
<1> HIDE DEF chain
<1> QED
  BY <1>7, <1>8, <1>3

-----------------------------------------------------------------------------
(* Nesting *)

\* The depths of the nested activations in the stack of frames, as the proofs use
\* them.
LEMMA DepthFacts ==
  ASSUME NEW d, NEW fs \in Seq(FrameType), NEW st \in Seq(RecordType), Depths(d, fs, st)
  PROVE  /\ Len(st) \in Nat /\ Len(fs) \in Nat
         /\ \A i \in 1 .. Len(st) :
              /\ i - 1 \in 0 .. Len(st)
              /\ d[i - 1] \in Nat /\ d[i] \in Nat
              /\ d[i - 1] <= d[i] /\ d[i] <= Len(fs)
              /\ st[i].kind \in {"call", "block"} => d[i] = d[i - 1] + 1
              /\ st[i].kind \in {"call", "block", "subst"} => d[i] >= 1 /\ fs # <<>>
              /\ st[i] \in RecordType
              /\ st[i].frames \in Seq(FrameType)
              /\ \A k \in i + 1 .. Len(st) : /\ k - 1 \in i .. Len(st)
                                             /\ d[i] <= d[k - 1]
<1>1. Len(st) \in Nat /\ Len(fs) \in Nat
  BY LenProperties
<1>2. SUFFICES ASSUME NEW i \in 1 .. Len(st)
               PROVE  /\ i - 1 \in 0 .. Len(st)
                      /\ d[i - 1] \in Nat /\ d[i] \in Nat
                      /\ d[i - 1] <= d[i] /\ d[i] <= Len(fs)
                      /\ st[i].kind \in {"call", "block"} => d[i] = d[i - 1] + 1
                      /\ st[i].kind \in {"call", "block", "subst"} => d[i] >= 1 /\ fs # <<>>
                      /\ st[i] \in RecordType
                      /\ st[i].frames \in Seq(FrameType)
                      /\ \A k \in i + 1 .. Len(st) : /\ k - 1 \in i .. Len(st)
                                                     /\ d[i] <= d[k - 1]
  BY <1>1
<1>3. /\ i - 1 \in 0 .. Len(st) /\ i \in 0 .. Len(st) /\ Len(st) \in 0 .. Len(st)
      /\ \A k \in i + 1 .. Len(st) : k - 1 \in i .. Len(st) /\ k - 1 \in 0 .. Len(st) /\ i <= k - 1
  BY <1>1
<1>4. d[i - 1] \in Nat /\ d[i] \in Nat /\ d[i - 1] <= d[i] /\ d[i] <= Len(fs)
  BY <1>1, <1>3 DEF Depths
<1>5. \A k \in i + 1 .. Len(st) : d[i] <= d[k - 1]
  BY <1>3 DEF Depths
<1>6. st[i].kind \in {"call", "block"} => d[i] = d[i - 1] + 1
  BY DEF Depths, Above
<1>7. st[i].kind \in {"call", "block", "subst"} => d[i] >= 1
  BY <1>4 DEF Depths, Above
<1>8. fs = <<>> => Len(fs) = 0
  OBVIOUS
<1>9. st[i] \in RecordType
  BY ElementOfSeq
<1>10. st[i].frames \in Seq(FrameType)
  BY <1>9 DEF RecordType
<1> QED
  BY <1>1, <1>3, <1>4, <1>5, <1>6, <1>7, <1>8, <1>9, <1>10

\* A command changes only what the innermost frame holds, and the parameters
\* in force: vs, fs, ps and c become ws, gs, qs and b.
Contained(vs, fs, ps, c, ws, gs, qs, b) ==
  /\ Len(gs) = Len(fs)
  /\ fs # <<>> => ws = vs
  /\ \A j \in 1 .. Len(fs) :
       /\ DOMAIN fs[j].vars \subseteq DOMAIN gs[j].vars
       /\ j < Len(fs) => gs[j].vars = fs[j].vars
       /\ fs[j].positional =>
            /\ gs[j].positional
            /\ qs = ps /\ b = c
            /\ \A k \in 1 .. j - 1 : /\ gs[k].positional = fs[k].positional
                                     /\ gs[k].params = fs[k].params

\* A change above every depth keeps what the activations will give back.
LEMMA Inside ==
  ASSUME NEW d, NEW fs \in Seq(FrameType), NEW gs \in Seq(FrameType), NEW st \in Seq(RecordType),
         NEW vs, NEW ws, NEW ps, NEW qs, NEW c, NEW b, NEW l,
         Depths(d, fs, st), Undone(d, vs, fs, ps, c, st, l),
         Contained(vs, fs, ps, c, ws, gs, qs, b)
  PROVE  Depths(d, gs, st) /\ Undone(d, ws, gs, qs, b, st, l)
<1>1. Depths(d, gs, st)
  BY DEF Depths, Contained
<1>2. ASSUME NEW i \in 1 .. Len(st)
      PROVE  /\ Kept(st[i], d[i - 1], d[i], ws, gs, qs, b, l)
             /\ \A k \in i + 1 .. Len(st) : st[k].kind = "subst" =>
                  Kept(st[i], d[i - 1], d[i], ws, st[k].frames, qs, st[k].count, l)
             /\ ~ l /\ st[i].kind = "subst" => Sees(ws, st[i].frames, st[i])
  <2> DEFINE r == st[i]
             m == d[i - 1]
             M == d[i]
  <2>1. /\ Len(fs) \in Nat /\ m \in Nat /\ M \in Nat /\ m <= M /\ M <= Len(fs)
        /\ r.kind \in {"call", "block"} => M = m + 1
        /\ r.kind \in {"call", "block", "subst"} => M >= 1 /\ fs # <<>>
        /\ r.frames \in Seq(FrameType)
    BY DepthFacts
  <2>2. /\ Kept(r, m, M, vs, fs, ps, c, l)
        /\ \A k \in i + 1 .. Len(st) : st[k].kind = "subst" =>
                  Kept(r, m, M, vs, st[k].frames, ps, st[k].count, l)
        /\ ~ l /\ r.kind = "subst" => Sees(vs, r.frames, r)
    BY DEF Undone
  <2> HIDE DEF r, m, M
  <2>3. r.kind \in {"call", "block", "subst"} => ws = vs
    BY <2>1 DEF Contained
  <2>4. r.kind = "call" => fs[M].positional
    BY <2>2 DEF Kept
  <2>5. r.kind = "call" => qs = ps /\ b = c /\ gs[M].positional
    BY <2>1, <2>4 DEF Contained
  <2>6. ASSUME r.kind = "subst" PROVE Covers(r.frames, gs)
    <3>1. Covers(r.frames, fs)
      BY <2>2, <2>6 DEF Kept
    <3>2. Len(r.frames) \in Nat
      BY <2>1, LenProperties
    <3> QED
      BY <3>1, <3>2, <2>1 DEF Covers, Contained
  <2>7. ASSUME r.kind \in {"call", "block"}
        PROVE  /\ m \in 0 .. Len(fs) /\ m \in 0 .. Len(gs)
               /\ Below(fs, m) \in Seq(FrameType) /\ Below(gs, m) \in Seq(FrameType)
               /\ Len(Below(fs, m)) = m /\ Len(Below(gs, m)) = m
               /\ \A j \in 1 .. m : /\ Below(fs, m)[j] = fs[j] /\ Below(gs, m)[j] = gs[j]
                                    /\ j \in 1 .. Len(fs) /\ j < Len(fs)
    <3>1. m \in 0 .. Len(fs) /\ m \in 0 .. Len(gs) /\ \A j \in 1 .. m : j \in 1 .. Len(fs) /\ j < Len(fs)
      BY <2>1, <2>7 DEF Contained
    <3> QED
      BY <3>1, BelowFacts
  <2>8. ASSUME ~ l, r.kind \in {"call", "block"} PROVE Sees(ws, Below(gs, m), r)
    <3>1. Sees(vs, Below(fs, m), r)
      BY <2>2, <2>8 DEF Kept
    <3>2. \A j \in 1 .. Len(Below(gs, m)) : Below(gs, m)[j].vars = Below(fs, m)[j].vars
      BY <2>7, <2>8 DEF Contained
    <3>3. ASSUME NEW n PROVE Shown(vs, Below(gs, m), n) = Shown(vs, Below(fs, m), n)
      <4>1. /\ Below(gs, m) \in Seq(FrameType) /\ Below(fs, m) \in Seq(FrameType)
            /\ Len(Below(gs, m)) = Len(Below(fs, m))
        BY <2>7, <2>8
      <4> DEFINE x == Below(gs, m)
                 y == Below(fs, m)
      <4>2. x \in Seq(FrameType) /\ y \in Seq(FrameType) /\ Len(x) = Len(y)
            /\ \A j \in 1 .. Len(x) : x[j].vars = y[j].vars
        BY <3>2, <4>1
      <4> HIDE DEF x, y
      <4>3. Visible(vs, x, n) = Visible(vs, y, n) /\ Shown(vs, x, n) = Shown(vs, y, n)
        BY <4>2, VisibleSame
      <4> QED
        BY <4>3 DEF x, y
    <3> QED
      BY <3>1, <3>3, <2>3, <2>8 DEF Sees
  <2>9. ASSUME r.kind = "call" PROVE ParamsOf(Below(gs, m), qs, b) = r.given
    <3>1. ParamsOf(Below(fs, m), ps, c) = r.given
      BY <2>2, <2>9 DEF Kept
    <3>2. M \in 1 .. Len(fs) /\ m = M - 1
      BY <2>1, <2>9
    <3>3. \A j \in 1 .. m : gs[j].positional = fs[j].positional /\ gs[j].params = fs[j].params
      BY <3>2, <2>4, <2>9 DEF Contained
    <3>4. \A j \in 1 .. Len(Below(gs, m)) :
            /\ Below(gs, m)[j].positional = Below(fs, m)[j].positional
            /\ Below(gs, m)[j].params = Below(fs, m)[j].params
      BY <3>3, <2>7, <2>9
    <3>5. ParamsOf(Below(gs, m), ps, c) = ParamsOf(Below(fs, m), ps, c)
      BY <3>4, <2>7, <2>9, ParamsSame
    <3> QED
      BY <3>1, <3>5, <2>5, <2>9
  <2>10. Kept(r, m, M, ws, gs, qs, b, l)
    BY <2>5, <2>6, <2>8, <2>9 DEF Kept
  <2>11. ASSUME NEW k \in i + 1 .. Len(st), st[k].kind = "subst"
         PROVE  Kept(r, m, M, ws, st[k].frames, qs, st[k].count, l)
    <3>1. Kept(r, m, M, vs, st[k].frames, ps, st[k].count, l)
      BY <2>2, <2>11
    <3> QED
      BY <3>1, <2>3, <2>5 DEF Kept
  <2>12. ~ l /\ r.kind = "subst" => Sees(ws, r.frames, r)
    BY <2>2, <2>3
  <2> QED
    BY <2>10, <2>11, <2>12 DEF r, m, M
<1> QED
  BY <1>1, <1>2 DEF Undone

\* Frames that agree on what is below agree on what was there on entry.
LEMMA KeptBelow ==
  ASSUME NEW fs \in Seq(FrameType), NEW gs \in Seq(FrameType), NEW r \in RecordType,
         NEW m \in Nat, NEW M \in Nat, NEW vs, NEW ps, NEW c, NEW l, m <= M,
         r.kind \in {"call", "block"} => M >= 1 /\ M <= Len(fs) /\ M <= Len(gs),
         r.kind = "subst" => Len(r.frames) <= Len(gs) /\ Len(r.frames) = m,
         \A j \in 1 .. M : j <= Len(fs) /\ j <= Len(gs) => gs[j] = fs[j],
         Kept(r, m, M, vs, fs, ps, c, l)
  PROVE  Kept(r, m, M, vs, gs, ps, c, l)
<1>1. Len(fs) \in Nat /\ Len(gs) \in Nat
  BY LenProperties
<1>2. ASSUME r.kind \in {"call", "block"} PROVE Below(gs, m) = Below(fs, m) /\ gs[M] = fs[M]
  <2>1. m \in 0 .. Len(fs) /\ m \in 0 .. Len(gs)
    BY <1>1, <1>2
  <2>2. /\ Below(fs, m) \in Seq(FrameType) /\ Len(Below(fs, m)) = m
        /\ Below(gs, m) \in Seq(FrameType) /\ Len(Below(gs, m)) = m
    BY <2>1, BelowFacts
  <2>3. \A j \in 1 .. m : Below(gs, m)[j] = gs[j] /\ Below(fs, m)[j] = fs[j]
    BY <2>1, BelowFacts
  <2>4. \A j \in 1 .. m : gs[j] = fs[j]
    BY <2>1, <1>1
  <2>5. \A j \in 1 .. Len(Below(gs, m)) : Below(gs, m)[j] = Below(fs, m)[j]
    BY <2>2, <2>3, <2>4
  <2>6. Below(gs, m) = Below(fs, m)
    BY <2>2, <2>5, SeqEqual
  <2> QED
    BY <2>6, <1>1, <1>2
<1>3. ASSUME r.kind = "subst" PROVE Covers(r.frames, gs)
  <2>1. Covers(r.frames, fs)
    BY <1>3 DEF Kept
  <2> QED
    BY <2>1, <1>1, <1>3 DEF Covers
<1> QED
  BY <1>2, <1>3 DEF Kept

\* What entering record r does to the frames fs
Entered(r, vs, fs, ps, c, l, gs) ==
  /\ ~ l /\ r.kind # "prefix" => Sees(vs, fs, r)
  /\ \/ r.kind = "prefix" /\ gs = fs
     \/ r.kind = "block" /\ gs = Append(fs, NewFrame)
     \/ /\ r.kind = "call" /\ r.given = ParamsOf(fs, ps, c)
        /\ \E args : gs = Append(fs, CallFrame(args))
     \/ /\ r.kind = "subst" /\ r.frames = fs /\ r.count = c
        /\ gs = IF fs = <<>> THEN <<NewFrame>> ELSE fs

\* Entering a construct adds one depth.
LEMMA Deeper ==
  ASSUME NEW d, NEW fs \in Seq(FrameType), NEW gs \in Seq(FrameType), NEW st \in Seq(RecordType),
         NEW r \in RecordType, NEW vs, NEW ps, NEW c, NEW l,
         Depths(d, fs, st), Undone(d, vs, fs, ps, c, st, l), Entered(r, vs, fs, ps, c, l, gs)
  PROVE  \E h : /\ Depths(h, gs, Append(st, r))
                /\ Undone(h, vs, gs, ps, c, Append(st, r), l)
<1> DEFINE n == Len(st)
           h == [i \in 0 .. n + 1 |-> IF i <= n THEN d[i] ELSE Above(r.kind, d[n])]
           sr == Append(st, r)
<1>1. n \in Nat /\ Len(fs) \in Nat /\ Len(fs) = d[n] /\ d[n] \in Nat
  BY DepthFacts DEF Depths
<1>2. /\ sr \in Seq(RecordType) /\ Len(sr) = n + 1 /\ sr[n + 1] = r
      /\ \A i \in 1 .. n : sr[i] = st[i]
  BY AppendProperties
<1>3. Above(r.kind, d[n]) \in Nat /\ d[n] <= Above(r.kind, d[n])
  BY <1>1 DEF Above
<1>4. /\ h \in [0 .. n + 1 -> Nat] /\ h[n + 1] = Above(r.kind, d[n]) /\ h[n] = d[n]
      /\ \A i \in 0 .. n : h[i] = d[i]
  BY <1>1, <1>3 DEF Depths
<1> HIDE DEF h, sr
<1>5. /\ Len(gs) = Above(r.kind, d[n]) /\ Len(fs) <= Len(gs)
      /\ \A j \in 1 .. Len(fs) : gs[j] = fs[j]
  <2>1. CASE r.kind = "prefix" /\ gs = fs
    BY <2>1, <1>1 DEF Above
  <2>2. CASE r.kind = "subst" /\ gs = IF fs = <<>> THEN <<NewFrame>> ELSE fs
    <3>1. fs = <<>> <=> Len(fs) = 0
      BY EmptySeq
    <3> QED
      BY <2>2, <3>1, <1>1 DEF Above
  <2>3. CASE r.kind \in {"call", "block"} /\ \E F : gs = Append(fs, F)
    BY <2>3, <1>1 DEF Above
  <2> QED
    BY <2>1, <2>2, <2>3 DEF Entered
<1>6. Depths(h, gs, sr)
  <2>1. h[0] = 0
    BY <1>1, <1>4 DEF Depths
  <2>2. ASSUME NEW i \in 1 .. n + 1 PROVE h[i] = Above(sr[i].kind, h[i - 1])
    <3>1. CASE i = n + 1
      BY <3>1, <1>1, <1>2, <1>4
    <3>2. CASE i # n + 1
      <4>1. i \in 1 .. n /\ i \in 0 .. n /\ i - 1 \in 0 .. n
        BY <3>2, <1>1
      <4> QED
        BY <4>1, <1>2, <1>4 DEF Depths
    <3> QED
      BY <3>1, <3>2
  <2>3. ASSUME NEW i \in 0 .. n + 1, NEW k \in 0 .. n + 1, i <= k PROVE h[i] <= h[k]
    <3>1. CASE k \in 0 .. n
      <4>1. i \in 0 .. n
        BY <3>1, <2>3, <1>1
      <4>2. d[i] <= d[k]
        BY <4>1, <3>1, <2>3 DEF Depths
      <4> QED
        BY <4>1, <4>2, <3>1, <1>4
    <3>2. CASE k = n + 1 /\ i \in 0 .. n
      <4>1. d[i] <= d[n] /\ d[i] \in Nat
        BY <3>2, <1>1, SMTT(30) DEF Depths
      <4> QED
        BY <4>1, <3>2, <1>1, <1>3, <1>4
    <3>3. CASE k = n + 1 /\ i = n + 1
      BY <3>3, <1>4, <1>3
    <3> QED
      BY <3>1, <3>2, <3>3, <1>1
  <2>4. ASSUME NEW i \in 1 .. n + 1, sr[i].kind = "subst" PROVE Len(sr[i].frames) = h[i - 1]
    <3>1. CASE i = n + 1
      <4>1. r.frames = fs
        BY <3>1, <2>4, <1>2 DEF Entered
      <4> QED
        BY <4>1, <3>1, <1>1, <1>2, <1>4
    <3>2. CASE i # n + 1
      <4>1. i \in 1 .. n /\ i - 1 \in 0 .. n
        BY <3>2, <1>1
      <4> QED
        BY <4>1, <2>4, <1>2, <1>4 DEF Depths
    <3> QED
      BY <3>1, <3>2
  <2> QED
    BY <2>1, <2>2, <2>3, <2>4, <1>2, <1>4, <1>5 DEF Depths
<1>7. ASSUME NEW i \in 1 .. n
      PROVE  /\ h[i - 1] = d[i - 1] /\ h[i] = d[i] /\ sr[i] = st[i]
             /\ Kept(st[i], d[i - 1], d[i], vs, fs, ps, c, l)
             /\ Kept(st[i], d[i - 1], d[i], vs, gs, ps, c, l)
  <2>1. /\ i - 1 \in 0 .. n /\ i \in 0 .. n
        /\ d[i - 1] \in Nat /\ d[i] \in Nat /\ d[i - 1] <= d[i] /\ d[i] <= Len(fs)
        /\ st[i].kind \in {"call", "block"} => d[i] >= 1
        /\ st[i] \in RecordType
    <3>1. i \in 1 .. Len(st)
      BY <1>1
    <3> QED
      BY <1>1, <3>1, DepthFacts, SMTT(30)
  <2>2. st[i].kind = "subst" => Len(st[i].frames) = d[i - 1]
    BY DEF Depths
  <2>3. Kept(st[i], d[i - 1], d[i], vs, fs, ps, c, l)
    BY DEF Undone
  <2>4. \A j \in 1 .. d[i] : j <= Len(fs) /\ j <= Len(gs) => gs[j] = fs[j]
    BY <1>1, <1>5, <2>1
  <2>5. Len(gs) \in Nat
    BY LenProperties
  <2>6. d[i] <= Len(gs) /\ d[i - 1] <= Len(gs)
    BY <1>1, <1>5, <2>1, <2>5
  <2>7. Kept(st[i], d[i - 1], d[i], vs, gs, ps, c, l)
    BY <2>1, <2>2, <2>3, <2>4, <2>6, KeptBelow
  <2> QED
    BY <2>1, <2>3, <2>7, <1>2, <1>4
<1>8. Kept(r, d[n], h[n + 1], vs, gs, ps, c, l)
  <2>1. ASSUME r.kind = "subst" PROVE Covers(r.frames, gs)
    BY <2>1, <1>5 DEF Entered, Covers
  <2>2. ASSUME r.kind \in {"call", "block"} PROVE Below(gs, d[n]) = fs
    <3>1. d[n] \in 0 .. Len(gs)
      BY <1>1, <1>5, LenProperties
    <3>2. /\ Below(gs, d[n]) \in Seq(FrameType) /\ Len(Below(gs, d[n])) = d[n]
          /\ \A j \in 1 .. d[n] : Below(gs, d[n])[j] = gs[j]
      BY <3>1, BelowFacts
    <3>3. \A j \in 1 .. Len(Below(gs, d[n])) : Below(gs, d[n])[j] = fs[j]
      BY <3>2, <1>1, <1>5
    <3> QED
      BY <3>2, <3>3, <1>1, SeqEqual
  <2>3. ASSUME r.kind = "call" PROVE gs[h[n + 1]].positional
    <3>1. PICK args : gs = Append(fs, CallFrame(args))
      BY <2>3 DEF Entered
    <3>2. gs[Len(fs) + 1] = CallFrame(args)
      BY <3>1, <1>1
    <3>3. h[n + 1] = Len(fs) + 1
      BY <2>3, <1>1, <1>4 DEF Above
    <3> QED
      BY <3>2, <3>3 DEF CallFrame, NewFrame
  <2> QED
    BY <2>1, <2>2, <2>3 DEF Kept, Entered
<1>9. Undone(h, vs, gs, ps, c, sr, l)
  <2>1. SUFFICES ASSUME NEW i \in 1 .. n + 1
                 PROVE  /\ Kept(sr[i], h[i - 1], h[i], vs, gs, ps, c, l)
                        /\ \A k \in i + 1 .. n + 1 : sr[k].kind = "subst" =>
                             Kept(sr[i], h[i - 1], h[i], vs, sr[k].frames, ps, sr[k].count, l)
                        /\ ~ l /\ sr[i].kind = "subst" => Sees(vs, sr[i].frames, sr[i])
    BY <1>2 DEF Undone
  <2>2. CASE i = n + 1
    BY <2>2, <1>1, <1>2, <1>4, <1>8 DEF Entered
  <2>3. CASE i # n + 1
    <3>1. i \in 1 .. n
      BY <2>3, <1>1
    <3>2. ASSUME NEW k \in i + 1 .. n + 1, sr[k].kind = "subst"
          PROVE  Kept(sr[i], h[i - 1], h[i], vs, sr[k].frames, ps, sr[k].count, l)
      <4>1. CASE k = n + 1
        <5>1. sr[k].frames = fs /\ sr[k].count = c
          BY <4>1, <3>2, <1>2 DEF Entered
        <5> QED
          BY <5>1, <3>1, <1>7
      <4>2. CASE k # n + 1
        <5>1. k \in i + 1 .. n /\ k \in 1 .. n
          BY <4>2, <3>1, <1>1
        <5> QED
          BY <5>1, <3>1, <3>2, <1>2, <1>7 DEF Undone
      <4> QED
        BY <4>1, <4>2
    <3>3. ~ l /\ sr[i].kind = "subst" => Sees(vs, sr[i].frames, sr[i])
      BY <3>1, <1>7 DEF Undone
    <3> QED
      BY <3>1, <3>2, <3>3, <1>7
  <2> QED
    BY <2>2, <2>3
<1> QED
  BY <1>6, <1>9 DEF sr

\* Leaving the innermost record: a substitution goes back to the frames it
\* saved, anything else to those below its own.
Returns(d, fs, c, st, gs, b) ==
  IF st[Len(st)].kind = "subst" THEN gs = st[Len(st)].frames /\ b = st[Len(st)].count
                                ELSE gs = Below(fs, d[Len(st) - 1]) /\ b = c

\* Leaving a construct takes the last depth away.
LEMMA Shallower ==
  ASSUME NEW d, NEW fs \in Seq(FrameType), NEW gs \in Seq(FrameType), NEW st \in Seq(RecordType),
         NEW vs, NEW ps, NEW c, NEW b, NEW l,
         st # <<>>, Depths(d, fs, st), Undone(d, vs, fs, ps, c, st, l), Returns(d, fs, c, st, gs, b)
  PROVE  \E h : Depths(h, gs, Front(st)) /\ Undone(h, vs, gs, ps, b, Front(st), l)
<1> DEFINE n == Len(st)
           sf == Front(st)
           h == [i \in 0 .. n - 1 |-> d[i]]
<1>1. n \in Nat \ {0} /\ n - 1 \in Nat /\ n \in 1 .. n /\ n - 1 \in 0 .. n
  BY LenProperties, EmptySeq
<1>2. sf \in Seq(RecordType) /\ Len(sf) = n - 1 /\ \A i \in 1 .. n - 1 : sf[i] = st[i]
  BY <1>1, InitialSegment DEF Front
<1>3. h \in [0 .. n - 1 -> Nat] /\ \A i \in 0 .. n - 1 : h[i] = d[i]
  BY <1>1 DEF Depths
<1>4. Len(gs) = d[n - 1] /\ Len(gs) \in Nat
  <2>1. d[n - 1] \in 0 .. Len(fs)
    BY <1>1, DepthFacts
  <2>2. CASE st[n].kind = "subst"
    BY <2>2, <1>1, LenProperties DEF Depths, Returns
  <2>3. CASE st[n].kind # "subst"
    BY <2>1, <2>3, BelowFacts DEF Returns
  <2> QED
    BY <2>2, <2>3
<1> HIDE DEF h, sf
<1>5. Depths(h, gs, sf)
  <2>1. \A i \in 1 .. n - 1 : i \in 1 .. n /\ i \in 0 .. n - 1 /\ i - 1 \in 0 .. n - 1
    BY <1>1
  <2>2. h[0] = 0
    BY <1>1, <1>3 DEF Depths
  <2>3. \A i \in 1 .. n - 1 : h[i] = Above(sf[i].kind, h[i - 1])
    BY <2>1, <1>2, <1>3 DEF Depths
  <2>4. ASSUME NEW i \in 0 .. n - 1, NEW k \in 0 .. n - 1, i <= k PROVE h[i] <= h[k]
    <3>1. i \in 0 .. n /\ k \in 0 .. n
      BY <1>1
    <3> QED
      BY <3>1, <2>4, <1>3 DEF Depths
  <2>5. \A i \in 1 .. n - 1 : sf[i].kind = "subst" => Len(sf[i].frames) = h[i - 1]
    BY <2>1, <1>2, <1>3 DEF Depths
  <2>6. h[n - 1] = d[n - 1]
    BY <1>1, <1>3
  <2> QED
    BY <2>2, <2>3, <2>4, <2>5, <2>6, <1>2, <1>3, <1>4 DEF Depths
<1>6. ASSUME NEW i \in 1 .. n - 1
      PROVE  /\ Kept(sf[i], h[i - 1], h[i], vs, gs, ps, b, l)
             /\ \A k \in i + 1 .. n - 1 : sf[k].kind = "subst" =>
                  Kept(sf[i], h[i - 1], h[i], vs, sf[k].frames, ps, sf[k].count, l)
             /\ ~ l /\ sf[i].kind = "subst" => Sees(vs, sf[i].frames, sf[i])
  <2>1. /\ i \in 1 .. n /\ i \in 0 .. n - 1 /\ i - 1 \in 0 .. n - 1 /\ n \in i + 1 .. n
        /\ \A k \in i + 1 .. n - 1 : k \in i + 1 .. n /\ k \in 1 .. n - 1
    BY <1>1
  <2>2. sf[i] = st[i] /\ h[i - 1] = d[i - 1] /\ h[i] = d[i]
    BY <2>1, <1>2, <1>3
  <2>3. /\ Kept(st[i], d[i - 1], d[i], vs, fs, ps, c, l)
        /\ \A k \in i + 1 .. n : st[k].kind = "subst" =>
                  Kept(st[i], d[i - 1], d[i], vs, st[k].frames, ps, st[k].count, l)
        /\ ~ l /\ st[i].kind = "subst" => Sees(vs, st[i].frames, st[i])
    BY <2>1 DEF Undone
  <2>4. Kept(st[i], d[i - 1], d[i], vs, gs, ps, b, l)
    <3>1. CASE st[n].kind = "subst"
      BY <3>1, <2>1, <2>3 DEF Returns
    <3>2. CASE st[n].kind # "subst"
      <4>1. /\ d[i - 1] \in Nat /\ d[i] \in Nat /\ d[i - 1] <= d[i] /\ d[i] <= Len(fs)
            /\ st[i].kind \in {"call", "block"} => d[i] >= 1
            /\ st[i] \in RecordType
            /\ d[i] <= d[n - 1]
        BY <2>1, DepthFacts
      <4>2. d[n - 1] \in 0 .. Len(fs)
        BY <1>1, DepthFacts
      <4>3. /\ gs = Below(fs, d[n - 1]) /\ b = c
            /\ \A j \in 1 .. d[n - 1] : gs[j] = fs[j]
        BY <3>2, <4>2, BelowFacts DEF Returns
      <4>4. st[i].kind = "subst" => Len(st[i].frames) = d[i - 1]
        BY <2>1 DEF Depths
      <4>5. \A j \in 1 .. d[i] : j <= Len(fs) /\ j <= Len(gs) => gs[j] = fs[j]
        BY <4>1, <4>2, <4>3
      <4>6. d[i] <= Len(gs) /\ d[i - 1] <= Len(gs)
        BY <4>1, <4>2, <1>4
      <4>7. Kept(st[i], d[i - 1], d[i], vs, gs, ps, c, l)
        <5>1. Kept(st[i], d[i - 1], d[i], vs, fs, ps, c, l)
          BY <2>3
        <5> QED
          BY <5>1, <4>1, <4>4, <4>5, <4>6, KeptBelow
      <4> QED
        BY <4>3, <4>7
    <3> QED
      BY <3>1, <3>2
  <2> QED
    BY <2>1, <2>2, <2>3, <2>4, <1>2
<1>7. Undone(h, vs, gs, ps, b, sf, l)
  BY <1>2, <1>6 DEF Undone
<1> QED
  BY <1>5, <1>7 DEF sf

\* Once a substitution is lost less is promised.
LEMMA UndoneLost ==
  ASSUME NEW d, NEW fs, NEW st, NEW vs, NEW ps, NEW c, NEW l, Undone(d, vs, fs, ps, c, st, l)
  PROVE  Undone(d, vs, fs, ps, c, st, TRUE)
BY DEF Undone, Kept

\* Setting and unsetting variables is such a command.
LEMMA GrownInside ==
  ASSUME NEW s \in ScopeType, NEW t \in ScopeType, NEW ps, NEW c, Grown(s, t)
  PROVE  Contained(s.vars, s.frames, ps, c, t.vars, t.frames, ps, c)
<1>1. s.frames \in Seq(FrameType) /\ Len(s.frames) \in Nat
  BY LenProperties DEF ScopeType
<1> QED
  BY <1>1, SMTT(30) DEF Grown, Contained

-----------------------------------------------------------------------------
(* What a step does *)

Pushes ==
  /\ lost' = lost
  /\ \E r \in RecordType, gs \in Seq(FrameType) :
       /\ stack' = Append(stack, r)
       /\ Entered(r, vars, frames, params, count, lost, gs)
       /\ Contained(vars, gs, params, count, vars', frames', params', count')

Pops ==
  /\ stack # <<>> /\ Last(stack).kind # "prefix"
  /\ stack' = Front(stack)
  /\ lost' = lost \/ lost' = TRUE
  /\ vars' = vars /\ params' = params
  /\ IF Last(stack).kind = "subst"
     THEN frames' = Last(stack).frames /\ count' = Last(stack).count
     ELSE frames' = Front(frames) /\ count' = count

Effect ==
  \/ /\ UNCHANGED <<stack, lost>>
     /\ Contained(vars, frames, params, count, vars', frames', params', count')
  \/ Pushes
  \/ /\ stack # <<>> /\ Last(stack).kind = "prefix"
     /\ stack' = Front(stack) /\ lost' = lost
     /\ Contained(vars, frames, params, count, vars', frames', params', count')
  \/ Pops

\* The variables, the frames and the environment as one scope.
LEMMA ScopeFacts ==
  ASSUME Types
  PROVE  /\ Scope \in ScopeType
         /\ Scope.vars = vars /\ Scope.frames = frames /\ Scope.env = env
         /\ EnvExact <=> (~ lost => Exact(Scope))
         /\ \A n : GetVar(n) = Value(Scope.vars, Scope.frames, Scope.env, n)
         /\ \A n : GetVar(n) \in Optional
<1>1. Scope.vars = vars /\ Scope.frames = frames /\ Scope.env = env
  BY DEF Scope
<1>2. Scope \in ScopeType
  BY DEF Scope, ScopeType, Types
<1>3. EnvExact <=> (~ lost => Exact(Scope))
  BY <1>1 DEF EnvExact, Exact
<1>4. \A n : GetVar(n) = Value(Scope.vars, Scope.frames, Scope.env, n)
  BY <1>1 DEF GetVar
<1> QED
  BY <1>1, <1>2, <1>3, <1>4, ValueFacts

\* The scope after a step.
LEMMA ScopeAfter ==
  ASSUME NEW t \in ScopeType, Becomes(t)
  PROVE  /\ vars' = t.vars /\ frames' = t.frames /\ env' = t.env
         /\ vars' \in Tables /\ frames' \in Seq(FrameType) /\ env' \in Environs
         /\ EnvExact' <=> (~ lost' => Exact(t))
<1>1. vars' = t.vars /\ frames' = t.frames /\ env' = t.env
  BY DEF Becomes
<1>2. EnvExact' <=> (~ lost' => Exact(t))
  BY <1>1 DEF EnvExact, Exact
<1> QED
  BY <1>1, <1>2 DEF ScopeType

\* t is what setting and unsetting variables makes of s.
Sets(s, t) == t \in ScopeType /\ Grown(s, t) /\ (Exact(s) => Exact(t))

\* Assignments and unsets, in any number, only set.
LEMMA SetsFacts ==
  ASSUME NEW s \in ScopeType
  PROVE  /\ Sets(s, s)
         /\ \A t, u : Sets(s, t) /\ Sets(t, u) => Sets(s, u)
         /\ \A n \in Names, v \in Texts, ex \in BOOLEAN : Sets(s, Assign(s, n, v, ex))
         /\ \A n \in Names : Sets(s, Unset(s, n))
BY GrownAgain, AssignFacts, UnsetFacts DEF Sets

\* Whatever only sets is inside the activation that runs.
LEMMA Commanded ==
  ASSUME Types, EnvExact, NEW t, Sets(Scope, t), Becomes(t), cwd' \in Dirs, dir' \in Dirs,
         UNCHANGED <<params, count, stack, lost>>
  PROVE  Types' /\ EnvExact' /\ Effect
<1>1. t \in ScopeType /\ Scope \in ScopeType /\ Grown(Scope, t)
  BY ScopeFacts DEF Sets
<1>2. Types'
  BY <1>1, ScopeAfter DEF Types
<1>3. EnvExact'
  BY <1>1, ScopeFacts, ScopeAfter DEF Sets
<1>4. Contained(vars, frames, params, count, vars', frames', params', count')
  <2>1. Contained(Scope.vars, Scope.frames, params, count, t.vars, t.frames, params, count)
    BY <1>1, GrownInside
  <2> QED
    BY <2>1, <1>1, ScopeFacts, ScopeAfter
<1> QED
  BY <1>2, <1>3, <1>4 DEF Effect

\* Arguments are texts, no more than the bound.
LEMMA ArgsTyped ==
  ASSUME NEW a \in Args
  PROVE  a \in Seq(Texts) /\ Len(a) \in 0 .. MaxParams
<1>1. PICK k \in 0 .. MaxParams : a \in [1 .. k -> Values \ {Empty}]
  BY DEF Args
<1> QED
  BY <1>1, LimitsAssumption DEF Texts

\* Changing the parameters of a frame leaves every variable as it is.
LEMMA Reshaped ==
  ASSUME Types, EnvExact, UNCHANGED <<vars, params, count, env, cwd, dir, stack, lost>>,
         frames' \in Seq(FrameType), Len(frames') = Len(frames),
         \A j \in 1 .. Len(frames) : frames'[j].vars = frames[j].vars,
         Contained(vars, frames, params, count, vars', frames', params', count')
  PROVE  Types' /\ EnvExact' /\ Effect
<1>1. Types'
  BY DEF Types
<1>2. \A n : Visible(vars, frames', n) = Visible(vars, frames, n)
  BY VisibleSame DEF Types
<1>3. EnvExact'
  BY <1>2 DEF EnvExact
<1> QED
  BY <1>1, <1>3 DEF Effect

\* One case for each command.
LEMMA CommandsEffect ==
  ASSUME Types, EnvExact, Commands
  PROVE  Types' /\ EnvExact' /\ Effect
<1>1. Scope \in ScopeType
  BY ScopeFacts
<1>2. Values \subseteq Texts /\ Empty \in Texts /\ Dirs \subseteq Texts
  BY ValuesAssumption DEF Texts
<1>3. ASSUME NEW n \in Names
      PROVE  (IF GetVar(n) = NoValue THEN Empty ELSE GetVar(n)) \in Texts
  BY <1>2, ScopeFacts DEF Optional
<1>4. cwd \in Dirs /\ dir \in Dirs
  BY DEF Types
<1>5. ASSUME NEW n \in Names, NEW v \in Values, Assignment(n, v) \/ SetBuiltin(n, v) \/ ExportValue(n, v)
      PROVE  Types' /\ EnvExact' /\ Effect
  <2>1. PICK m \in Names, ex \in BOOLEAN : Becomes(Assign(Scope, m, v, ex))
    BY <1>5, ResolvedTyped DEF Assignment, SetBuiltin, ExportValue
  <2>2. Sets(Scope, Assign(Scope, m, v, ex))
    BY <1>1, <1>2, SetsFacts
  <2>3. Elsewhere
    BY <1>5 DEF Assignment, SetBuiltin, ExportValue
  <2> QED
    BY <2>1, <2>2, <2>3, <1>4, Commanded DEF Elsewhere
<1>6. ASSUME NEW n \in Names, Export(n) \/ Local(n)
      PROVE  Types' /\ EnvExact' /\ Effect
  <2> DEFINE v == IF GetVar(n) = NoValue THEN Empty ELSE GetVar(n)
  <2>1. PICK ex \in BOOLEAN : Becomes(Assign(Scope, n, v, ex))
    BY <1>6 DEF Export, Local
  <2>2. Sets(Scope, Assign(Scope, n, v, ex))
    <3>1. v \in Texts
      BY <1>3
    <3> HIDE DEF v
    <3> QED
      BY <3>1, <1>1, SetsFacts
  <2>3. Elsewhere
    BY <1>6 DEF Export, Local
  <2> HIDE DEF v
  <2> QED
    BY <2>1, <2>2, <2>3, <1>4, Commanded DEF Elsewhere
<1>7. ASSUME NEW n \in Names, NEW b \in BOOLEAN, UnsetBuiltin(n, b)
      PROVE  Types' /\ EnvExact' /\ Effect
  <2>1. PICK m \in Names : Becomes(Unset(Scope, m))
    BY <1>7, ResolvedTyped DEF UnsetBuiltin
  <2>2. Sets(Scope, Unset(Scope, m))
    BY <1>1, SetsFacts
  <2> QED
    BY <2>1, <2>2, <1>4, <1>7, Commanded DEF UnsetBuiltin, Elsewhere
<1>8. ASSUME NEW n \in Names, NEW t \in RefTargets, DeclareRef(n, t)
      PROVE  Types' /\ EnvExact' /\ Effect
  <2>1. Ref(t) \in Texts
    BY NamesAssumption DEF Texts, Refs
  <2>2. Sets(Scope, Assign(Scope, n, Ref(t), FALSE))
    BY <2>1, <1>1, SetsFacts
  <2> QED
    BY <2>2, <1>4, <1>8, Commanded DEF DeclareRef, Elsewhere
<1>9. ASSUME NEW d \in Dirs, Cd(d)
      PROVE  Types' /\ EnvExact' /\ Effect
  <2> DEFINE old == Assign(Scope, OldPwd, cwd, FALSE)
             t == IF HasRoom(Target(Scope), OldPwd) THEN Assign(old, Pwd, d, TRUE) ELSE Scope
  <2>1. Sets(Scope, old)
    BY <1>1, <1>2, <1>4, SetsFacts, NamesAssumption
  <2>2. old \in ScopeType
    BY <2>1 DEF Sets
  <2>3. Sets(Scope, t)
    <3> HIDE DEF old
    <3>1. Sets(old, Assign(old, Pwd, d, TRUE))
      BY <2>2, <1>2, SetsFacts, NamesAssumption
    <3> QED
      BY <2>1, <3>1, <1>1, SetsFacts
  <2>4. Becomes(t) /\ cwd' = d /\ dir' = d /\ UNCHANGED <<params, count, stack, lost>>
    BY <1>9 DEF Cd
  <2> HIDE DEF t
  <2> QED
    BY <2>3, <2>4, Commanded
<1>10. ASSUME NEW a \in Args, SetPositional(a)
       PROVE  Types' /\ EnvExact' /\ Effect
  <2>1. a \in Seq(Texts) /\ Len(a) \in 0 .. MaxParams
    BY ArgsTyped
  <2>2. CASE frames = <<>>
    <3>1. UNCHANGED <<vars, frames, env, cwd, dir, stack, lost>>
      BY <1>10, <2>2 DEF SetPositional
    <3>2. params' = [k \in 1 .. MaxParams |-> IF k \in DOMAIN a THEN a[k]
                                             ELSE IF k <= count THEN Empty ELSE params[k]]
      BY <1>10, <2>2 DEF SetPositional, Types
    <3>3. \A k \in 1 .. MaxParams : params[k] \in Texts
      BY ElementOfSeq DEF Types
    <3>4. params' \in Seq(Texts) /\ Len(params') = MaxParams
      BY <3>2, <3>3, <2>1, <1>2, LimitsAssumption
    <3>5. count' = Len(a)
      BY <1>10, <2>2 DEF SetPositional
    <3>6. Types'
      BY <3>1, <3>4, <3>5, <2>1 DEF Types
    <3>7. EnvExact'
      BY <3>1 DEF EnvExact
    <3>8. Contained(vars, frames, params, count, vars', frames', params', count')
      BY <3>1, <2>2 DEF Contained
    <3> QED
      BY <3>1, <3>6, <3>7, <3>8 DEF Effect
  <2>3. CASE frames # <<>>
    <3> DEFINE N == Len(frames)
               F == [frames[N] EXCEPT !.params = a, !.positional = TRUE]
    <3>1. UNCHANGED <<vars, params, count, env, cwd, dir, stack, lost>>
      BY <1>10, <2>3 DEF SetPositional
    <3>2. N \in Nat \ {0} /\ N \in 1 .. N /\ frames \in Seq(FrameType) /\ frames[N] \in FrameType
      BY <2>3, FrontFacts DEF Types
    <3>3. F \in FrameType /\ F.vars = frames[N].vars /\ F.positional
      BY <3>2, <2>1 DEF FrameType
    <3>4. frames' = [frames EXCEPT ![N] = F]
      BY <1>10, <2>3, <3>2 DEF SetPositional
    <3> HIDE DEF F
    <3>5. /\ frames' \in Seq(FrameType) /\ Len(frames') = N
          /\ \A j \in 1 .. N : frames'[j] = IF j = N THEN F ELSE frames[j]
      BY <3>2, <3>3, <3>4, ExceptSeq
    <3>6. Contained(vars, frames, params, count, vars', frames', params', count')
      BY <3>1, <3>2, <3>3, <3>5 DEF Contained
    <3>7. \A j \in 1 .. Len(frames) : frames'[j].vars = frames[j].vars
      BY <3>3, <3>5
    <3> QED
      BY <3>1, <3>5, <3>6, <3>7, Reshaped
  <2> QED
    BY <2>2, <2>3
<1>11. ASSUME Shift
       PROVE  Types' /\ EnvExact' /\ Effect
  <2> DEFINE i == PositionalFrame(frames)
  <2>0. frames \in Seq(FrameType)
    BY DEF Types
  <2>1. i \in 0 .. Len(frames) /\ \A j \in 1 .. Len(frames) : frames[j].positional => j <= i
    BY <2>0, InForce
  <2>2. CASE i = 0
    <3>1. UNCHANGED <<vars, frames, env, cwd, dir, stack, lost>>
      BY <1>11, <2>2 DEF Shift
    <3>2. params' = [k \in 1 .. MaxParams |-> IF k < count THEN params[k + 1]
                                             ELSE IF k = count THEN Empty ELSE params[k]]
      BY <1>11, <2>2 DEF Shift, Types
    <3>3. \A k \in 1 .. MaxParams : params[k] \in Texts
      BY ElementOfSeq DEF Types
    <3>4. count # 0
      <4>1. ParamsOf(frames, params, count) = SubSeq(params, 1, count)
        BY <2>2 DEF ParamsOf
      <4>2. count = 0 => SubSeq(params, 1, count) = <<>>
        BY SubSeqEmpty
      <4> QED
        BY <4>1, <4>2, <1>11 DEF Shift
    <3>5. count \in 1 .. MaxParams /\ count' = count - 1
      BY <3>4, <1>11, <2>2, LimitsAssumption DEF Shift, Types
    <3>6. params' \in Seq(Texts) /\ Len(params') = MaxParams
      <4>1. \A k \in 1 .. MaxParams : k < count => k + 1 \in 1 .. MaxParams
        BY <3>5, LimitsAssumption
      <4> QED
        BY <4>1, <3>2, <3>3, <1>2, LimitsAssumption
    <3>7. Types'
      BY <3>1, <3>5, <3>6, LimitsAssumption DEF Types
    <3>8. EnvExact'
      BY <3>1 DEF EnvExact
    <3>9. Contained(vars, frames, params, count, vars', frames', params', count')
      BY <3>1, <2>0, <2>1, <2>2, LenProperties DEF Contained
    <3> QED
      BY <3>1, <3>7, <3>8, <3>9 DEF Effect
  <2>3. CASE i # 0
    <3> DEFINE F == [frames[i] EXCEPT !.params = Tail(@)]
    <3>1. UNCHANGED <<vars, params, count, env, cwd, dir, stack, lost>>
      BY <1>11, <2>3 DEF Shift
    <3>2. i \in 1 .. Len(frames) /\ Len(frames) \in Nat
      BY <2>0, <2>1, <2>3, LenProperties
    <3>3. frames[i] \in FrameType
      BY <2>0, <3>2, ElementOfSeq
    <3>4. frames[i].params \in Seq(Texts) /\ frames[i].params # <<>>
      <4>1. ParamsOf(frames, params, count) = frames[i].params
        BY <2>3 DEF ParamsOf
      <4> QED
        BY <4>1, <3>3, <1>11 DEF Shift, FrameType
    <3>5. Tail(frames[i].params) \in Seq(Texts)
      BY <3>4, HeadTailProperties
    <3>6. F \in FrameType /\ F.vars = frames[i].vars /\ F.positional = frames[i].positional
      BY <3>3, <3>5 DEF FrameType
    <3>7. frames' = [frames EXCEPT ![i] = F]
      BY <1>11, <2>0, <2>3, <3>2 DEF Shift
    <3> HIDE DEF F, i
    <3>8. /\ frames' \in Seq(FrameType) /\ Len(frames') = Len(frames)
          /\ \A j \in 1 .. Len(frames) : frames'[j] = IF j = i THEN F ELSE frames[j]
      BY <2>0, <3>2, <3>6, <3>7, ExceptSeq
    <3>9. \A j \in 1 .. Len(frames) :
            /\ frames'[j].vars = frames[j].vars /\ frames'[j].positional = frames[j].positional
            /\ frames[j].positional => \A k \in 1 .. j - 1 : frames'[k] = frames[k]
      BY <2>1, <3>2, <3>6, <3>8
    <3>10. Contained(vars, frames, params, count, vars', frames', params', count')
      BY <3>1, <3>8, <3>9 DEF Contained
    <3> QED
      BY <3>1, <3>8, <3>9, <3>10, Reshaped
  <2> QED
    BY <2>2, <2>3
<1> QED
  BY <1>5, <1>6, <1>7, <1>8, <1>9, <1>10, <1>11 DEF Commands, CdBack

\* A new frame hides nothing yet.
LEMMA NewFrameHidesNothing ==
  ASSUME NEW vs, NEW fs \in Seq(FrameType), NEW F \in FrameType, F.vars = <<>>, NEW n
  PROVE  /\ Append(fs, F) \in Seq(FrameType)
         /\ Visible(vs, Append(fs, F), n) = Visible(vs, fs, n)
<1> DEFINE gs == Append(fs, F)
<1>1. /\ gs \in Seq(FrameType) /\ Len(gs) = Len(fs) + 1 /\ gs[Len(fs) + 1] = F
      /\ \A j \in 1 .. Len(fs) : gs[j] = fs[j]
  BY AppendProperties
<1>2. Len(fs) \in Nat
  BY LenProperties
<1> HIDE DEF gs
<1>3. gs # <<>>
  BY <1>1, <1>2
<1>4. /\ Last(gs) = F /\ Front(gs) \in Seq(FrameType) /\ Len(Front(gs)) = Len(fs)
      /\ \A j \in 1 .. Len(fs) : Front(gs)[j] = fs[j]
  <2>1. Len(gs) - 1 = Len(fs)
    BY <1>1, <1>2
  <2> QED
    BY <2>1, <1>1, <1>3, FrontFacts
<1>5. Front(gs) = fs
  BY <1>4, SeqEqual
<1>6. n \notin DOMAIN F.vars
  OBVIOUS
<1> QED
  BY <1>1, <1>3, <1>4, <1>5, <1>6, VisibleLast DEF gs

\* The frames that are pushed hold no variable yet.
LEMMA NewFrameTyped ==
  /\ NewFrame \in FrameType /\ NewFrame.vars = <<>>
  /\ \A a \in Seq(Texts) : CallFrame(a) \in FrameType /\ CallFrame(a).vars = <<>>
<1>1. NewFrame.vars = <<>> /\ NewFrame.positional = FALSE /\ NewFrame.params = <<>>
  BY DEF NewFrame
<1>2. NewFrame \in FrameType
  BY EmptyTable DEF NewFrame, FrameType
<1>3. ASSUME NEW a \in Seq(Texts) PROVE CallFrame(a) \in FrameType /\ CallFrame(a).vars = <<>>
  BY EmptyTable DEF CallFrame, NewFrame, FrameType
<1> QED
  BY <1>1, <1>2, <1>3

\* An activation's record holds what is there when it is entered.
LEMMA RecordTyped ==
  ASSUME Types, NEW kind \in Kinds, NEW saved \in Seq(Pair)
  PROVE  /\ Record(kind, saved) \in RecordType
         /\ Record(kind, saved).kind = kind
         /\ Record(kind, saved).saved = saved
         /\ kind = "call" => Record(kind, saved).given = ParamsOf(frames, params, count)
         /\ kind = "subst" => /\ Record(kind, saved).frames = frames
                              /\ Record(kind, saved).count = count
                              /\ Record(kind, saved).cwd = cwd
         /\ kind # "prefix" => \A n \in Names : Record(kind, saved).seen[n] = GetVar(n)
<1>1. ParamsOf(frames, params, count) \in Seq(Texts)
  <2>1. frames \in Seq(FrameType) /\ params \in Seq(Texts) /\ count \in 0 .. Len(params)
    BY DEF Types
  <2>2. SubSeq(params, 1, count) \in Seq(Texts)
    BY <2>1, InitialSegment
  <2>3. PositionalFrame(frames) # 0 => frames[PositionalFrame(frames)].params \in Seq(Texts)
    <3>1. PositionalFrame(frames) # 0 => PositionalFrame(frames) \in 1 .. Len(frames)
      BY <2>1, InForce, LenProperties
    <3>2. PositionalFrame(frames) # 0 => frames[PositionalFrame(frames)] \in FrameType
      BY <3>1, <2>1, ElementOfSeq
    <3> QED
      BY <3>2 DEF FrameType
  <2> QED
    BY <2>2, <2>3 DEF ParamsOf
<1>2. [n \in Names |-> IF kind = "prefix" THEN NoValue ELSE GetVar(n)] \in [Names -> Optional]
  <2>1. \A n \in Names : (IF kind = "prefix" THEN NoValue ELSE GetVar(n)) \in Optional
    BY ScopeFacts DEF Optional
  <2> QED
    BY <2>1
<1>3. <<>> \in Seq(FrameType) /\ <<>> \in Seq(Texts) /\ 0 \in 0 .. MaxParams
      /\ Empty \in Values /\ cwd \in Values
  BY LimitsAssumption, ValuesAssumption DEF Types
<1>4. Record(kind, saved) \in RecordType
  BY <1>1, <1>2, <1>3 DEF Record, RecordType, Types
<1> QED
  BY <1>4 DEF Record

\* Entering: a record is pushed, the frames become gs, variables may be set.
LEMMA Pushed ==
  ASSUME Types, EnvExact, NEW kind \in Kinds, NEW saved \in Seq(Pair),
         kind = "prefix" => Len(saved) \in {1, 2},
         NEW gs \in Seq(FrameType), NEW s, NEW t,
         \/ kind = "prefix" /\ gs = frames
         \/ kind = "block" /\ gs = Append(frames, NewFrame)
         \/ kind = "call" /\ \E args \in Seq(Texts) : gs = Append(frames, CallFrame(args))
         \/ kind = "subst" /\ gs = IF frames = <<>> THEN <<NewFrame>> ELSE frames,
         s = [vars |-> vars, frames |-> gs, env |-> env], Sets(s, t), Becomes(t),
         stack' = Append(stack, Record(kind, saved)),
         UNCHANGED <<cwd, dir, params, count, lost>>
  PROVE  Types' /\ EnvExact' /\ Effect
<1> DEFINE r == Record(kind, saved)
<1>1. r \in RecordType /\ r.kind = kind /\ r.saved = saved
  BY RecordTyped
<1>2. s \in ScopeType /\ s.vars = vars /\ s.frames = gs /\ s.env = env
  BY DEF Types, ScopeType
<1>3. t \in ScopeType /\ Grown(s, t)
  BY DEF Sets
<1>4. Types'
  <2>1. stack \in Seq(RecordType)
    BY DEF Types
  <2>2. /\ stack' \in Seq(RecordType) /\ Len(stack') = Len(stack) + 1 /\ Len(stack) \in Nat
        /\ stack'[Len(stack) + 1] = r /\ \A i \in 1 .. Len(stack) : stack'[i] = stack[i]
    BY <2>1, <1>1, AppendProperties, LenProperties
  <2>3. ASSUME NEW i \in 1 .. Len(stack')
        PROVE  /\ stack'[i].kind = "prefix" => Len(stack'[i].saved) \in {1, 2}
               /\ stack'[i].kind = "subst" => stack'[i].cwd \in Dirs
    <3>1. CASE i = Len(stack) + 1
      <4>1. r.kind = "subst" => r.cwd = cwd
        BY RecordTyped
      <4> HIDE DEF r
      <4> QED
        BY <4>1, <3>1, <2>2, <1>1 DEF Types
    <3>2. CASE i # Len(stack) + 1
      <4>1. i \in 1 .. Len(stack)
        BY <3>2, <2>2
      <4> QED
        BY <4>1, <2>2 DEF Types
    <3> QED
      BY <3>1, <3>2
  <2> QED
    BY <2>2, <2>3, <1>3, ScopeAfter DEF Types
<1>5. ASSUME Exact(Scope) PROVE Exact(s)
  <2>1. \A n : Visible(vars, gs, n) = Visible(vars, frames, n)
    <3>1. frames \in Seq(FrameType)
      BY DEF Types
    <3>2. <<NewFrame>> = Append(<<>>, NewFrame)
      OBVIOUS
    <3>3. \/ gs = frames
          \/ \E F \in FrameType : F.vars = <<>> /\ gs = Append(frames, F)
      BY <3>2, NewFrameTyped
    <3>4. ASSUME NEW F \in FrameType, F.vars = <<>>, gs = Append(frames, F), NEW n
          PROVE  Visible(vars, gs, n) = Visible(vars, frames, n)
      BY <3>1, <3>4, NewFrameHidesNothing
    <3> QED
      BY <3>3, <3>4
  <2> QED
    BY <2>1, <1>2, <1>5, ScopeFacts DEF Exact
<1>6. EnvExact'
  BY <1>3, <1>5, ScopeFacts, ScopeAfter DEF Sets
<1>7. Entered(r, vars, frames, params, count, lost, gs)
  <2>1. ASSUME ~ lost, kind # "prefix" PROVE Sees(vars, frames, r)
    <3>1. SUFFICES ASSUME NEW n \in Names \ Inherited PROVE Shown(vars, frames, n) = r.seen[n]
      BY DEF Sees
    <3>2. r.seen[n] = GetVar(n)
      BY <2>1, RecordTyped
    <3>3. GetVar(n) = Shown(vars, frames, n)
      BY <2>1, ScopeFacts, ValueFacts
    <3> QED
      BY <3>2, <3>3
  <2>2. r.kind = "call" => r.given = ParamsOf(frames, params, count)
    BY <1>1, RecordTyped
  <2>3. r.kind = "subst" => r.frames = frames /\ r.count = count
    BY <1>1, RecordTyped
  <2> HIDE DEF r
  <2> QED
    BY <2>1, <2>2, <2>3, <1>1 DEF Entered
<1>8. Contained(vars, gs, params, count, vars', frames', params', count')
  <2>1. Contained(s.vars, s.frames, params, count, t.vars, t.frames, params, count)
    BY <1>2, <1>3, GrownInside
  <2> QED
    BY <2>1, <1>2, <1>3, ScopeAfter
<1>9. Pushes
  <2> HIDE DEF r
  <2> QED
    BY <1>1, <1>7, <1>8 DEF Pushes, r
<1> QED
  BY <1>4, <1>6, <1>9 DEF Effect

\* One case for each construct that is entered or left.
LEMMA NestingEffect ==
  ASSUME ScopesInv, Nesting
  PROVE  Types' /\ EnvExact' /\ Effect
<1>0. PICK d : Nested(d)
  BY DEF ScopesInv
<1>1. Types /\ EnvExact /\ Depths(d, frames, stack)
      /\ Undone(d, vars, frames, params, count, stack, lost)
  BY <1>0 DEF ScopesInv, Nested
<1>2. /\ Scope \in ScopeType /\ frames \in Seq(FrameType) /\ stack \in Seq(RecordType)
      /\ <<>> \in Seq(Pair) /\ env \in Environs /\ vars \in Tables
  BY <1>1, ScopeFacts DEF Types
<1>3. Values \subseteq Texts
  BY DEF Texts
<1>4. ASSUME NEW kind \in {"call", "block", "subst"}, Enter(kind, <<>>), NEW gs \in Seq(FrameType),
             \/ kind = "block" /\ gs = Append(frames, NewFrame)
             \/ kind = "call" /\ \E args \in Seq(Texts) : gs = Append(frames, CallFrame(args))
             \/ kind = "subst" /\ gs = IF frames = <<>> THEN <<NewFrame>> ELSE frames,
             frames' = gs, UNCHANGED <<vars, env, cwd, dir, params, count, lost>>
      PROVE  Types' /\ EnvExact' /\ Effect
  <2> DEFINE s == [vars |-> vars, frames |-> gs, env |-> env]
  <2>1. s \in ScopeType /\ Becomes(s)
    BY <1>2, <1>4 DEF ScopeType, Becomes
  <2>2. Sets(s, s)
    BY <2>1, SetsFacts
  <2>3. stack' = Append(stack, Record(kind, <<>>)) /\ kind \in Kinds
    BY <1>4 DEF Enter, Kinds
  <2> QED
    BY <2>1, <2>2, <2>3, <1>1, <1>2, <1>4, Pushed
<1>5. ASSUME NEW a \in Args, Call(a)
      PROVE  Types' /\ EnvExact' /\ Effect
  <2>1. a \in Seq(Texts)
    BY ArgsTyped
  <2>2. Append(frames, CallFrame(a)) \in Seq(FrameType)
    BY <2>1, <1>2, NewFrameTyped, AppendProperties
  <2> QED
    BY <2>1, <2>2, <1>4, <1>5 DEF Call
<1>6. ASSUME NEW n \in Names, NEW v \in Values \ {Empty}, CallNamed(n, v)
      PROVE  Types' /\ EnvExact' /\ Effect
  <2> DEFINE gs == Append(frames, CallFrame(<<v>>))
             s == [vars |-> vars, frames |-> gs, env |-> env]
             t == Assign(s, n, v, FALSE)
  <2>1. v \in Texts /\ <<v>> \in Seq(Texts)
    BY <1>3
  <2>2. gs \in Seq(FrameType)
    BY <2>1, <1>2, NewFrameTyped, AppendProperties
  <2>3. s \in ScopeType
    BY <2>2, <1>2 DEF ScopeType
  <2>4. s = [Scope EXCEPT !.frames = gs]
    <3> HIDE DEF gs
    <3> QED
      BY DEF Scope
  <2>5. Becomes(t)
    BY <2>4, <1>6 DEF CallNamed
  <2>6. Sets(s, t)
    <3> HIDE DEF s
    <3> QED
      BY <2>1, <2>3, SetsFacts
  <2>7. stack' = Append(stack, Record("call", <<>>)) /\ UNCHANGED <<cwd, dir, params, count, lost>>
    BY <1>6 DEF CallNamed, Enter
  <2>8. "call" \in Kinds /\ \E args \in Seq(Texts) : gs = Append(frames, CallFrame(args))
    BY <2>1 DEF Kinds
  <2> HIDE DEF t, gs
  <2> QED
    BY <2>2, <2>5, <2>6, <2>7, <2>8, <1>1, <1>2, Pushed
<1>7. ASSUME Block PROVE Types' /\ EnvExact' /\ Effect
  <2>1. Append(frames, NewFrame) \in Seq(FrameType)
    BY <1>2, NewFrameTyped, AppendProperties
  <2> QED
    BY <2>1, <1>4, <1>7 DEF Block
<1>8. ASSUME Substitute PROVE Types' /\ EnvExact' /\ Effect
  <2> DEFINE gs == IF frames = <<>> THEN <<NewFrame>> ELSE frames
  <2>1. gs \in Seq(FrameType)
    BY <1>2, NewFrameTyped
  <2>2. Enter("subst", <<>>) /\ frames' = gs /\ UNCHANGED <<vars, env, cwd, dir, params, count, lost>>
    BY <1>8 DEF Substitute
  <2> QED
    BY <2>1, <2>2, <1>4
<1>9. ASSUME NEW n \in Names, NEW v \in Values, NEW b,
             b = <<>> \/ (\E m \in Names, w \in Values : b = <<m, w>>), Prefix(<<n, v>>, b)
      PROVE  Types' /\ EnvExact' /\ Effect
  <2> DEFINE s1 == PrefixStep(Scope, <<n, v>>)
             s2 == IF b = <<>> THEN s1 ELSE PrefixStep(s1, b)
             old1 == <<n, GetVar(n)>>
             old2 == <<b[1], Value(s1.vars, s1.frames, s1.env, b[1])>>
             saved == IF b = <<>> THEN <<old1>> ELSE <<old1, old2>>
  <2>1. Sets(Scope, s1)
    BY <1>2, <1>3, SetsFacts DEF PrefixStep
  <2>2. s1 \in ScopeType
    BY <2>1 DEF Sets
  <2>3. old1 \in Pair
    BY <1>1, ScopeFacts DEF Pair
  <2> HIDE DEF s1
  <2>4. b # <<>> => old2 \in Pair /\ Sets(s1, PrefixStep(s1, b))
    <3>1. ASSUME NEW m \in Names, NEW w \in Values, b = <<m, w>>
          PROVE  old2 \in Pair /\ Sets(s1, PrefixStep(s1, b))
      <4>1. b[1] = m /\ b[2] = w
        BY <3>1
      <4> QED
        BY <4>1, <2>2, <1>3, ValueFacts, SetsFacts DEF PrefixStep, Pair
    <3> QED
      BY <3>1, <1>9
  <2>5. Sets(Scope, s2)
    BY <2>1, <2>4, <1>2, SetsFacts
  <2>6. Enter("prefix", saved) /\ Becomes(s2) /\ UNCHANGED <<cwd, dir, params, count, lost>>
    BY <1>9 DEF Prefix, s1
  <2> HIDE DEF s2, old1, old2
  <2>7. saved \in Seq(Pair) /\ Len(saved) \in {1, 2}
    BY <2>3, <2>4
  <2> HIDE DEF saved
  <2>8. Scope = [vars |-> vars, frames |-> frames, env |-> env]
    BY DEF Scope
  <2>9. stack' = Append(stack, Record("prefix", saved)) /\ "prefix" \in Kinds
    BY <2>6 DEF Enter, Kinds
  <2> QED
    BY <2>5, <2>6, <2>7, <2>8, <2>9, <1>1, <1>2, Pushed
<1>10. ASSUME stack # <<>>
       PROVE  /\ Len(stack) \in 1 .. Len(stack) /\ Last(stack) = stack[Len(stack)]
              /\ Last(stack) \in RecordType
              /\ Front(stack) \in Seq(RecordType) /\ Len(Front(stack)) = Len(stack) - 1
              /\ \A i \in 1 .. Len(stack) - 1 : Front(stack)[i] = stack[i]
  <2>1. Len(stack) \in 1 .. Len(stack) /\ Len(stack) - 1 \in 0 .. Len(stack)
    BY <1>2, <1>10, LenProperties, EmptySeq
  <2>2. stack[Len(stack)] \in RecordType
    BY <2>1, <1>2, ElementOfSeq
  <2> QED
    BY <2>1, <2>2, <1>2, InitialSegment DEF Last, Front
<1>a. ASSUME stack # <<>>, stack' = Front(stack)
      PROVE  /\ stack' \in Seq(RecordType)
             /\ \A i \in 1 .. Len(stack') :
                  /\ stack'[i].kind = "prefix" => Len(stack'[i].saved) \in {1, 2}
                  /\ stack'[i].kind = "subst" => stack'[i].cwd \in Dirs
  <2>1. Len(stack) \in Nat
    BY <1>2, LenProperties
  <2>2. \A i \in 1 .. Len(stack') : i \in 1 .. Len(stack) /\ stack'[i] = stack[i]
    BY <2>1, <1>a, <1>10
  <2>3. stack' \in Seq(RecordType)
    BY <1>a, <1>10
  <2>4. \A i \in 1 .. Len(stack) : /\ stack[i].kind = "prefix" => Len(stack[i].saved) \in {1, 2}
                                   /\ stack[i].kind = "subst" => stack[i].cwd \in Dirs
    BY <1>1 DEF Types
  <2> QED
    BY <2>2, <2>3, <2>4
<1>11. ASSUME CallEnds PROVE Types' /\ EnvExact' /\ Effect
  <2>1. /\ stack # <<>> /\ Last(stack).kind \in {"call", "block"} /\ stack' = Front(stack)
        /\ Becomes(Popped(Scope)) /\ UNCHANGED <<cwd, dir, params, count, lost>>
    BY <1>11 DEF CallEnds, Leaving
  <2>2. frames # <<>>
    <3>1. Len(stack) \in 1 .. Len(stack) /\ stack[Len(stack)].kind \in {"call", "block", "subst"}
      BY <2>1, <1>10
    <3> QED
      BY <3>1, <1>1, <1>2, DepthFacts
  <2>3. /\ Popped(Scope) \in ScopeType /\ Popped(Scope).vars = vars
        /\ Popped(Scope).frames = Front(frames)
        /\ Exact(Scope) => Exact(Popped(Scope))
    BY <2>2, <1>1, ScopeFacts, PoppedFacts
  <2>4. Types'
    BY <2>1, <2>3, <1>1, <1>a, ScopeAfter DEF Types
  <2>5. EnvExact'
    BY <2>1, <2>3, <1>1, ScopeFacts, ScopeAfter
  <2>6. Pops
    BY <2>1, <2>3, ScopeAfter DEF Pops
  <2> QED
    BY <2>4, <2>5, <2>6 DEF Effect
<1>12. ASSUME PrefixEnds PROVE Types' /\ EnvExact' /\ Effect
  <2> DEFINE o == Last(stack).saved
             s == PutBack(Scope, o[1])
             t == IF Len(o) = 1 THEN s ELSE PutBack(s, o[2])
  <2>1. /\ stack # <<>> /\ Last(stack).kind = "prefix" /\ stack' = Front(stack)
        /\ Becomes(t) /\ UNCHANGED <<cwd, dir, params, count, lost>>
    BY <1>12 DEF PrefixEnds, Leaving
  <2>2. o \in Seq(Pair) /\ Len(o) \in {1, 2}
    BY <2>1, <1>1, <1>10 DEF RecordType, Types
  <2>3. o[1] \in Pair /\ (Len(o) # 1 => o[2] \in Pair)
    BY <2>2, ElementOfSeq
  <2>4. ASSUME NEW u \in ScopeType, NEW x \in Pair PROVE Sets(u, PutBack(u, x))
    <3>1. x[1] \in Names /\ x[2] \in Optional
      BY DEF Pair
    <3>2. CASE x[2] = NoValue
      BY <3>1, <3>2, SetsFacts DEF PutBack
    <3>3. CASE x[2] # NoValue
      BY <3>1, <3>3, SetsFacts DEF PutBack, Optional
    <3> QED
      BY <3>2, <3>3
  <2>5. Sets(Scope, s)
    BY <2>3, <2>4, <1>2
  <2>6. s \in ScopeType
    BY <2>5 DEF Sets
  <2> HIDE DEF s, o
  <2>7. Sets(Scope, t)
    BY <2>3, <2>4, <2>5, <2>6, <1>2, SetsFacts
  <2>8. t \in ScopeType /\ Grown(Scope, t)
    BY <2>7 DEF Sets
  <2> HIDE DEF t
  <2>9. Types'
    BY <2>1, <2>8, <1>1, <1>a, ScopeAfter DEF Types
  <2>10. EnvExact'
    BY <2>1, <2>7, <2>8, <1>1, ScopeFacts, ScopeAfter DEF Sets
  <2>11. Contained(vars, frames, params, count, vars', frames', params', count')
    <3>1. Contained(Scope.vars, Scope.frames, params, count, t.vars, t.frames, params, count)
      BY <2>8, <1>2, GrownInside
    <3> QED
      BY <3>1, <2>1, <2>8, <1>1, ScopeFacts, ScopeAfter
  <2> QED
    BY <2>1, <2>9, <2>10, <2>11 DEF Effect
<1>b. ASSUME stack # <<>>, Last(stack).kind = "subst"
      PROVE  /\ Last(stack).frames \in Seq(FrameType) /\ Last(stack).count \in 0 .. MaxParams
             /\ Last(stack).cwd \in Dirs
             /\ Covers(Last(stack).frames, frames)
  <2>1. Last(stack).frames \in Seq(FrameType) /\ Last(stack).count \in 0 .. MaxParams
    BY <1>b, <1>10 DEF RecordType
  <2>2. Last(stack).cwd \in Dirs
    BY <1>1, <1>b, <1>10 DEF Types
  <2>3. Covers(Last(stack).frames, frames)
    BY <1>1, <1>b, <1>10 DEF Undone, Kept
  <2> QED
    BY <2>1, <2>2, <2>3
<1>13. ASSUME SubstituteEnds PROVE Types' /\ EnvExact' /\ Effect
  <2> DEFINE fs == Last(stack).frames
             t == [vars |-> vars, frames |-> fs, env |-> Synced(env, NamesOf(frames), vars, fs)]
  <2>1. /\ stack # <<>> /\ Last(stack).kind = "subst" /\ stack' = Front(stack)
        /\ frames' = fs /\ env' = Synced(env, NamesOf(frames), vars, fs) /\ vars' = vars
        /\ dir' = Last(stack).cwd /\ cwd' = Last(stack).cwd /\ count' = Last(stack).count
        /\ UNCHANGED <<params, lost>>
    BY <1>13 DEF SubstituteEnds, Leaving
  <2>2. Becomes(t)
    BY <2>1 DEF Becomes
  <2>3. t = [vars |-> Scope.vars, frames |-> fs,
             env |-> Synced(Scope.env, NamesOf(Scope.frames), Scope.vars, fs)]
    BY <1>1, ScopeFacts
  <2>4. fs \in Seq(FrameType) /\ Covers(fs, Scope.frames)
    BY <2>1, <1>1, <1>b, ScopeFacts
  <2> HIDE DEF t
  <2>5. t \in ScopeType /\ (Exact(Scope) => Exact(t))
    BY <2>3, <2>4, <1>2, RestoredFacts
  <2>6. Types'
    BY <2>1, <2>2, <2>5, <1>1, <1>a, <1>b, ScopeAfter DEF Types
  <2>7. EnvExact'
    BY <2>1, <2>2, <2>5, <1>1, ScopeFacts, ScopeAfter
  <2>8. Pops
    BY <2>1 DEF Pops
  <2> QED
    BY <2>6, <2>7, <2>8 DEF Effect
<1>14. ASSUME SubstituteLost PROVE Types' /\ EnvExact' /\ Effect
  <2>1. /\ stack # <<>> /\ Last(stack).kind = "subst" /\ stack' = Front(stack)
        /\ frames' = Last(stack).frames /\ cwd' = Last(stack).cwd
        /\ count' = Last(stack).count /\ lost' = TRUE
        /\ UNCHANGED <<vars, env, dir, params>>
    BY <1>14 DEF SubstituteLost, Leaving
  <2>2. Types'
    BY <2>1, <1>1, <1>a, <1>b DEF Types
  <2>3. EnvExact'
    BY <2>1 DEF EnvExact
  <2>4. Pops
    BY <2>1 DEF Pops
  <2> QED
    BY <2>2, <2>3, <2>4 DEF Effect
<1> QED
  BY <1>5, <1>6, <1>7, <1>8, <1>9, <1>11, <1>12, <1>13, <1>14 DEF Nesting

-----------------------------------------------------------------------------
(* The invariant is inductive *)

\* The shell starts with no frame and no activation.
LEMMA StartsNested == Init => ScopesInv
<1> SUFFICES ASSUME Init PROVE ScopesInv
  OBVIOUS
<1> DEFINE E == [value |-> cwd, exported |-> TRUE, deleted |-> FALSE]
<1>1. cwd \in Dirs /\ Dirs \subseteq Values /\ Empty \in Values /\ Values \subseteq Texts
  BY ValuesAssumption DEF Init, Texts
<1>2. E \in Entry
  BY <1>1 DEF Entry
<1>3. vars = [n \in {Pwd} |-> E] /\ vars \in Tables
  <2>1. vars = [n \in {Pwd} |-> E]
    BY DEF Init
  <2>2. vars \in [{Pwd} -> Entry]
    BY <2>1, <1>2
  <2> QED
    BY <2>1, <2>2, NamesAssumption DEF Tables
<1>4. env \in Environs
  <2>1. (CHOOSE x \in Dirs : TRUE) \in Dirs
    BY <1>1
  <2>2. env \in [{Pwd} \cup Inherited -> Texts]
    BY <1>1, <2>1 DEF Init
  <2> QED
    BY <2>2, NamesAssumption DEF Environs
<1>5. params \in Seq(Texts) /\ Len(params) = MaxParams
  BY <1>1, LimitsAssumption DEF Init
<1>6. Types
  <2>1. frames = <<>> /\ stack = <<>> /\ Len(stack) = 0 /\ dir = cwd /\ lost = FALSE /\ count = 0
    BY DEF Init
  <2>2. frames \in Seq(FrameType) /\ stack \in Seq(RecordType) /\ 1 .. Len(stack) = {}
    BY <2>1
  <2>3. count \in 0 .. MaxParams /\ dir \in Dirs
    BY <2>1, <1>1, LimitsAssumption
  <2>4. lost \in BOOLEAN
    BY <2>1, Zenon
  <2> QED
    BY <2>2, <2>3, <2>4, <1>1, <1>3, <1>4, <1>5 DEF Types
<1>7. EnvExact
  <2>1. SUFFICES ASSUME NEW n \in Names \ Inherited
                 PROVE  /\ n \in DOMAIN env <=> Visible(vars, frames, n).exported
                        /\ n \in DOMAIN env => env[n] = Visible(vars, frames, n).value
    BY DEF EnvExact
  <2>2. Holding(frames, n) = {}
    BY DEF Holding, Init
  <2>3. CASE n = Pwd
    <3>1. Visible(vars, frames, n) = E
      BY <2>2, <2>3, <1>3 DEF Visible
    <3>2. n \in DOMAIN env /\ env[n] = cwd
      BY <2>3 DEF Init
    <3> QED
      BY <3>1, <3>2
  <2>4. CASE n # Pwd
    <3>1. Visible(vars, frames, n) = Absent
      BY <2>2, <2>4, <1>3 DEF Visible
    <3>2. n \notin DOMAIN env
      BY <2>4 DEF Init
    <3> QED
      BY <3>1, <3>2 DEF Absent
  <2> QED
    BY <2>3, <2>4
<1>8. Nested([i \in 0 .. 0 |-> 0])
  <2>1. frames = <<>> /\ stack = <<>> /\ Len(stack) = 0 /\ Len(frames) = 0
    BY DEF Init
  <2> QED
    BY <2>1 DEF Nested, Depths, Undone
<1> QED
  BY <1>6, <1>7, <1>8 DEF ScopesInv

\* Every step keeps the types and the environment, and is one of the effects.
LEMMA StepEffect ==
  ASSUME ScopesInv, Next
  PROVE  Types' /\ EnvExact' /\ Effect
BY CommandsEffect, NestingEffect DEF Next, ScopesInv

\* Every effect keeps the depths and what they give back.
LEMMA StaysNested == ScopesInv /\ [Next]_all => ScopesInv'
<1>1. ASSUME ScopesInv, UNCHANGED all PROVE ScopesInv'
  BY <1>1 DEF ScopesInv, all, Types, EnvExact, Nested
<1>2. ASSUME ScopesInv, Next PROVE ScopesInv'
  <2>1. Types' /\ EnvExact' /\ Effect
    BY <1>2, StepEffect
  <2>2. PICK d : Nested(d)
    BY <1>2 DEF ScopesInv
  <2>3. /\ Depths(d, frames, stack) /\ Undone(d, vars, frames, params, count, stack, lost)
        /\ frames \in Seq(FrameType) /\ stack \in Seq(RecordType) /\ frames' \in Seq(FrameType)
        /\ stack' \in Seq(RecordType)
    BY <1>2, <2>1, <2>2 DEF Nested, ScopesInv, Types
  <2>4. SUFFICES \E h : /\ Depths(h, frames', stack')
                        /\ Undone(h, vars', frames', params', count', stack', lost')
    BY <2>1 DEF ScopesInv, Nested
  <2>5. CASE /\ UNCHANGED <<stack, lost>>
             /\ Contained(vars, frames, params, count, vars', frames', params', count')
    <3>1. /\ Depths(d, frames', stack)
          /\ Undone(d, vars', frames', params', count', stack, lost)
      BY <2>3, <2>5, Inside
    <3> QED
      BY <3>1, <2>5
  <2>6. CASE Pushes
    <3>1. PICK r \in RecordType, gs \in Seq(FrameType) :
            /\ stack' = Append(stack, r)
            /\ Entered(r, vars, frames, params, count, lost, gs)
            /\ Contained(vars, gs, params, count, vars', frames', params', count')
      BY <2>6 DEF Pushes
    <3>2. PICK h : /\ Depths(h, gs, stack')
                   /\ Undone(h, vars, gs, params, count, stack', lost)
      BY <3>1, <2>3, Deeper
    <3>3. /\ Depths(h, frames', stack')
          /\ Undone(h, vars', frames', params', count', stack', lost)
      BY <3>1, <3>2, <2>3, Inside
    <3> QED
      BY <3>3, <2>6 DEF Pushes
  <2>7. ASSUME stack # <<>>
        PROVE  /\ Len(stack) \in 1 .. Len(stack) /\ Last(stack) = stack[Len(stack)]
               /\ frames # <<>> /\ Last(stack).kind \in {"call", "block"} =>
                    Below(frames, d[Len(stack) - 1]) = Front(frames)
               /\ Last(stack).kind \in {"call", "block"} => frames # <<>>
               /\ Last(stack).kind = "prefix" => Below(frames, d[Len(stack) - 1]) = frames
    <3> DEFINE n == Len(stack)
    <3>1. n \in 1 .. n /\ Last(stack) = stack[n] /\ n \in Nat
      BY <2>3, <2>7, LenProperties, EmptySeq DEF Last
    <3>2. d[n] = Above(stack[n].kind, d[n - 1]) /\ d[n] = Len(frames) /\ d[n - 1] \in Nat
      BY <2>3, <3>1, DepthFacts DEF Depths
    <3>3. stack[n].kind \in {"call", "block"} => frames # <<>> /\ d[n - 1] = Len(frames) - 1
      <4>1. stack[n].kind \in {"call", "block"} => frames # <<>> /\ d[n] = d[n - 1] + 1
        <5>1. /\ stack[n].kind \in {"call", "block", "subst"} => frames # <<>>
              /\ stack[n].kind \in {"call", "block"} => d[n] = d[n - 1] + 1
          BY <2>3, <3>1, DepthFacts, ZenonT(40)
        <5> QED
          BY <5>1
      <4> QED
        BY <4>1, <3>2
    <3>4. stack[n].kind = "prefix" => Below(frames, d[n - 1]) = frames
      BY <2>3, <3>2, SubSeqFull DEF Above, Below
    <3> QED
      BY <3>1, <3>3, <3>4 DEF Front, Below
  <2>8. CASE /\ stack # <<>> /\ Last(stack).kind = "prefix"
             /\ stack' = Front(stack) /\ lost' = lost
             /\ Contained(vars, frames, params, count, vars', frames', params', count')
    <3>1. PICK h : /\ Depths(h, frames, stack')
                   /\ Undone(h, vars, frames, params, count, stack', lost)
      <4>1. Returns(d, frames, count, stack, frames, count)
        BY <2>7, <2>8 DEF Returns
      <4>2. \E h : /\ Depths(h, frames, Front(stack))
                  /\ Undone(h, vars, frames, params, count, Front(stack), lost)
        BY <4>1, <2>3, <2>8, Shallower
      <4> QED
        BY <4>2, <2>8
    <3>2. /\ Depths(h, frames', stack')
          /\ Undone(h, vars', frames', params', count', stack', lost)
      BY <3>1, <2>3, <2>8, Inside
    <3> QED
      BY <3>2, <2>8
  <2>9. CASE Pops
    <3>1. stack # <<>> /\ stack' = Front(stack) /\ (lost' = lost \/ lost' = TRUE) /\ vars' = vars /\ params' = params
      BY <2>9 DEF Pops
    <3>2. stack[Len(stack)].kind \in Kinds
      <4>1. stack[Len(stack)] \in RecordType
        BY <3>1, <2>3, <2>7, ElementOfSeq
      <4> QED
        BY <4>1 DEF RecordType
    <3>3. Returns(d, frames, count, stack, frames', count')
      BY <2>7, <2>9, <3>1, <3>2 DEF Pops, Kinds, Returns
    <3>4. PICK h : /\ Depths(h, frames', Front(stack))
                   /\ Undone(h, vars, frames', params, count', Front(stack), lost)
      BY <3>1, <3>3, <2>3, Shallower
    <3>5. Undone(h, vars, frames', params, count', Front(stack), lost')
      BY <3>1, <3>4, UndoneLost
    <3> QED
      BY <3>1, <3>4, <3>5
  <2> QED
    BY <2>1, <2>5, <2>6, <2>8, <2>9 DEF Effect
<1> QED
  BY <1>1, <1>2

-----------------------------------------------------------------------------
(* The theorems *)

\* ScopesInv is inductive.
LEMMA ScopesInductive == Spec => []ScopesInv
<1>1. Init => ScopesInv
  BY StartsNested
<1>2. ScopesInv /\ [Next]_all => ScopesInv'
  BY StaysNested
<1> QED
  BY <1>1, <1>2, PTL DEF Spec

\* Whatever is set, unset, exported, entered and left, in any nesting, a child
\* process is given exactly the exported variables that are visible where it is
\* started (sync_visible_var_env, arksh_shell_pop_scope_frame and
\* restore_cloned_scope_env keep the environment in step).
THEOREM ChildrenSeeExported == Spec => []EnvExact
<1>1. ScopesInv => EnvExact
  BY DEF ScopesInv
<1> QED
  BY <1>1, ScopesInductive, PTL

\* A record that is left is the innermost one, and what it leaves is below it.
LEMMA LeftFacts ==
  ASSUME ScopesInv, Next, Len(stack') < Len(stack)
  PROVE  Last(stack).kind # "prefix" => Pops
<1>1. stack \in Seq(RecordType) /\ Len(stack) \in Nat
  BY LenProperties DEF ScopesInv, Types
<1>2. Effect
  BY StepEffect
<1>3. ~ Pushes
  <2>1. ASSUME NEW r \in RecordType, stack' = Append(stack, r) PROVE FALSE
    <3>1. Len(stack') = Len(stack) + 1
      BY <1>1, <2>1, AppendProperties
    <3> QED
      BY <1>1, <3>1
  <2> QED
    BY <2>1 DEF Pushes
<1>4. stack' # stack
  BY <1>1
<1> QED
  BY <1>2, <1>3, <1>4 DEF Effect

\* What the innermost record of the stack promises
LEMMA InnermostKept ==
  ASSUME ScopesInv, stack # <<>>
  PROVE  /\ Last(stack) = stack[Len(stack)]
         /\ ~ lost /\ Last(stack).kind = "subst" => Sees(vars, Last(stack).frames, Last(stack))
         /\ ~ lost /\ Last(stack).kind \in {"call", "block"} => Sees(vars, Front(frames), Last(stack))
         /\ Last(stack).kind = "call" => ParamsOf(Front(frames), params, count) = Last(stack).given
<1> DEFINE n == Len(stack)
<1>1. PICK d : Nested(d)
  BY DEF ScopesInv
<1>2. /\ Depths(d, frames, stack) /\ Undone(d, vars, frames, params, count, stack, lost)
      /\ frames \in Seq(FrameType) /\ stack \in Seq(RecordType)
  BY <1>1 DEF Nested, ScopesInv, Types
<1>3. n \in 1 .. n /\ Last(stack) = stack[n] /\ n \in Nat
  BY <1>2, LenProperties, EmptySeq DEF Last
<1>4. /\ Kept(stack[n], d[n - 1], d[n], vars, frames, params, count, lost)
      /\ ~ lost /\ stack[n].kind = "subst" => Sees(vars, stack[n].frames, stack[n])
  BY <1>2, <1>3 DEF Undone
<1>5. d[n] = Len(frames) /\ d[n - 1] \in Nat /\ Len(frames) \in Nat
  BY <1>2, <1>3, DepthFacts DEF Depths
<1>6. stack[n].kind \in {"call", "block"} => d[n] = d[n - 1] + 1
  BY <1>2, <1>3, DepthFacts
<1>7. stack[n].kind \in {"call", "block"} => Below(frames, d[n - 1]) = Front(frames)
  <2>1. stack[n].kind \in {"call", "block"} => d[n - 1] = Len(frames) - 1
    BY <1>5, <1>6
  <2> QED
    BY <2>1 DEF Below, Front
<1> QED
  BY <1>3, <1>4, <1>7 DEF Kept

\* A function, a block or a substitution gives every variable back to its caller
\* as the caller left it, however deep it nested and whatever it set or unset
\* (arksh_shell_pop_scope_frame, arksh_shell_destroy_subshell).
THEOREM CallersKeepVariables == Spec => CallerKeeps
<1>1. ASSUME ScopesInv, Next, Left({"call", "block", "subst"}), ~ lost'
      PROVE  \A n \in Names \ Inherited : ValueAfter(n) = Last(stack).seen[n]
  <2>1. Pops
    BY <1>1, LeftFacts DEF Left
  <2>2. Types' /\ EnvExact'
    BY <1>1, StepEffect
  <2>3. /\ stack # <<>> /\ vars' = vars /\ ~ lost
        /\ Last(stack).kind \in {"call", "block", "subst"}
    BY <1>1, <2>1 DEF Pops, Left
  <2>4. Sees(vars, frames', Last(stack))
    BY <1>1, <2>1, <2>3, InnermostKept DEF Pops
  <2>5. ASSUME NEW n \in Names \ Inherited PROVE ValueAfter(n) = Shown(vars', frames', n)
    <3> DEFINE s == [vars |-> vars', frames |-> frames', env |-> env']
    <3>1. s \in ScopeType /\ s.vars = vars' /\ s.frames = frames' /\ s.env = env'
      BY <2>2 DEF Types, ScopeType
    <3> HIDE DEF s
    <3>2. Exact(s)
      BY <1>1, <2>2, <3>1 DEF EnvExact, Exact
    <3>3. Value(s.vars, s.frames, s.env, n) = Shown(s.vars, s.frames, n)
      BY <3>1, <3>2, ValueFacts
    <3> QED
      BY <3>1, <3>3 DEF ValueAfter
  <2> QED
    BY <2>3, <2>4, <2>5 DEF Sees
<1>2. ScopesInv /\ [Next]_all =>
        [Left({"call", "block", "subst"}) /\ ~ lost' =>
           \A n \in Names \ Inherited : ValueAfter(n) = Last(stack).seen[n]]_all
  BY <1>1
<1> QED
  BY <1>2, ScopesInductive, PTL DEF Spec, CallerKeeps

\* What a function shifts or sets, in blocks and substitutions of its own too,
\* never reaches the positional parameters of its caller
\* (arksh_shell_shift_positional, arksh_shell_set_positional_argv).
THEOREM CallersKeepParameters == Spec => ParamsKept
<1>1. ASSUME ScopesInv, Next, Left({"call"})
      PROVE  ParamsAfter = Last(stack).given
  <2>1. Pops /\ Last(stack).kind = "call"
    BY <1>1, LeftFacts DEF Left
  <2>2. stack # <<>> /\ params' = params /\ frames' = Front(frames) /\ count' = count
    BY <2>1 DEF Pops
  <2> QED
    BY <1>1, <2>1, <2>2, InnermostKept DEF ParamsAfter
<1>2. ScopesInv /\ [Next]_all => [Left({"call"}) => ParamsAfter = Last(stack).given]_all
  BY <1>1
<1> QED
  BY <1>2, ScopesInductive, PTL DEF Spec, ParamsKept

\* Inside a substitution, however deep, no command writes to the table of global
\* variables that the clone shares with its parent (arksh_shell_clone_subshell
\* gives it a frame of its own).
THEOREM SubstitutionsShareGlobals == Spec => GlobalsShared
<1>1. ASSUME ScopesInv, Next, NEW i \in DOMAIN stack, stack[i].kind = "subst"
      PROVE  vars' = vars
  <2>1. PICK d : Nested(d)
    BY <1>1 DEF ScopesInv
  <2>2. /\ Depths(d, frames, stack) /\ frames \in Seq(FrameType) /\ stack \in Seq(RecordType)
    BY <1>1, <2>1 DEF Nested, ScopesInv, Types
  <2>3. frames # <<>>
    <3>1. i \in 1 .. Len(stack)
      BY <2>2
    <3> QED
      BY <3>1, <1>1, <2>2, DepthFacts, ZenonT(40)
  <2>4. Effect
    BY <1>1, StepEffect
  <2>5. ASSUME NEW r, NEW gs, Entered(r, vars, frames, params, count, lost, gs)
        PROVE  gs # <<>>
    <3>1. gs = frames \/ gs = <<NewFrame>> \/ \E F : gs = Append(frames, F)
      BY <2>5 DEF Entered
    <3>2. \A F : Append(frames, F) # <<>>
      BY <2>2
    <3>3. <<NewFrame>> # <<>>
      OBVIOUS
    <3> QED
      BY <3>1, <3>2, <3>3, <2>3
  <2> QED
    BY <2>3, <2>4, <2>5 DEF Effect, Pushes, Pops, Contained
<1>2. ScopesInv /\ [Next]_all =>
        [(\E i \in DOMAIN stack : stack[i].kind = "subst") => vars' = vars]_all
  BY <1>1 DEF all
<1> QED
  BY <1>2, ScopesInductive, PTL DEF Spec, GlobalsShared
=============================================================================
