--------------------------- MODULE RedirectProofs ---------------------------
(***************************************************************************)
(* Proofs about Redirect, for every set of written redirections and paths, *)
(* every number of commands and every depth of groups and built-ins.       *)
(***************************************************************************)
EXTENDS Redirect, Positions, SequenceTheorems, TLAPS

-----------------------------------------------------------------------------
(* Groups and built-ins: the input a command inherits *)

\* A frame is the record Frame builds; only its output changes later.
IsFrame(f) ==
  /\ f = [kind |-> f.kind, rs |-> f.rs, saved |-> f.saved, file |-> f.file, prior |-> f.prior, was |-> f.was, out |-> f.out]
  /\ f.rs \in Lists(MaxRedirections) /\ Len(f.rs) \in 0 .. MaxRedirections

Shaped(st) == IsSeq(st) /\ \A k \in 1 .. Len(st) : IsFrame(st[k])

\* The redirections of a group that change its input, the groups among the first
\* k frames that have one, and the input those k frames leave to a command.
Affecting(rs) == {j \in 1 .. Len(rs) : AffectsStdin(rs[j])}
Redirecting(st, k) == {i \in 1 .. k : st[i].kind = "group" /\ Affecting(st[i].rs) # {}}
LastInput(rs) == rs[Max(Affecting(rs))]
InputAt(st, k) == IF Redirecting(st, k) = {} THEN NoInput ELSE LastInput(st[Max(Redirecting(st, k))].rs)

\* Each group kept the input of the frames around it, and inherited is that of all of them.
Saves(st) == \A k \in 1 .. Len(st) : st[k].kind = "group" => st[k].prior = InputAt(st, k - 1)
Inherits ==
  /\ Saves(stack)
  /\ inherited = InputAt(stack, Len(stack))

InputInv == Shaped(stack) /\ Inherits

\* The greatest of a set of positions
LEMMA Greatest ==
  ASSUME NEW n \in Nat, NEW S, S \subseteq 1 .. n, S # {}
  PROVE  Max(S) \in S /\ \A y \in S : y <= Max(S)
<1>1. PICK m \in S : \A y \in S : y <= m
  BY Extremes
<1>2. \E x \in S : \A y \in S : x >= y
  BY <1>1
<1> QED
  BY <1>2 DEF Max

\* A member that is at least every other one is the maximum.
LEMMA GreatestIs ==
  ASSUME NEW n \in Nat, NEW S, S \subseteq 1 .. n, NEW m \in S, \A y \in S : y <= m
  PROVE  Max(S) = m
<1>1. Max(S) \in S /\ \A y \in S : y <= Max(S)
  BY Greatest
<1> DEFINE x == Max(S)
<1>2. x \in S /\ \A y \in S : y <= x
  BY <1>1
<1> HIDE DEF x
<1>3. x <= m /\ m <= x /\ x \in Int /\ m \in Int
  BY <1>2
<1> QED
  BY <1>3 DEF x

\* The input depends on nothing but the kinds and redirections of the frames.
LEMMA InputSame ==
  ASSUME NEW k \in Nat, NEW a, NEW b, \A i \in 1 .. k : a[i].kind = b[i].kind /\ a[i].rs = b[i].rs
  PROVE  InputAt(a, k) = InputAt(b, k)
<1> DEFINE G == Redirecting(a, k)
<1>1. Redirecting(b, k) = G
  BY DEF Redirecting
<1>2. G \subseteq 1 .. k
  BY DEF Redirecting
<1>3. CASE G = {}
  BY <1>1, <1>3 DEF InputAt
<1>4. CASE G # {}
  <2>1. Max(G) \in 1 .. k
    BY <1>2, <1>4, Greatest
  <2>2. a[Max(G)].rs = b[Max(G)].rs
    BY <2>1
  <2> QED
    BY <1>1, <1>4, <2>2 DEF InputAt
<1> QED
  BY <1>3, <1>4

\* One more frame: a group that redirects its input replaces the input.
LEMMA InputNext ==
  ASSUME NEW k \in Nat, NEW st
  PROVE  InputAt(st, k + 1) = IF st[k + 1].kind = "group" /\ Affecting(st[k + 1].rs) # {}
                              THEN LastInput(st[k + 1].rs) ELSE InputAt(st, k)
<1> DEFINE G == Redirecting(st, k)
           H == Redirecting(st, k + 1)
<1>1. CASE st[k + 1].kind = "group" /\ Affecting(st[k + 1].rs) # {}
  <2>1. k + 1 \in H /\ H \subseteq 1 .. k + 1 /\ k + 1 \in Nat
    BY <1>1 DEF Redirecting
  <2>2. Max(H) = k + 1
    <3> HIDE DEF H
    <3>1. \A y \in H : y <= k + 1
      BY <2>1
    <3> QED
      BY <2>1, <3>1, GreatestIs
  <2> QED
    BY <1>1, <2>1, <2>2 DEF InputAt
<1>2. CASE ~ (st[k + 1].kind = "group" /\ Affecting(st[k + 1].rs) # {})
  <2>1. H = G
    BY <1>2 DEF Redirecting
  <2> QED
    BY <1>2, <2>1 DEF InputAt
<1> QED
  BY <1>1, <1>2

\* Frames that differ in their output only
SameFrames(a, b) ==
  /\ Shaped(a) /\ Shaped(b) /\ Len(b) = Len(a)
  /\ \A k \in 1 .. Len(a) : /\ b[k].kind = a[k].kind /\ b[k].rs = a[k].rs /\ b[k].prior = a[k].prior
                            /\ b[k].saved = a[k].saved /\ b[k].file = a[k].file /\ b[k].was = a[k].was

\* What a frame has written is none of what its end restores.
LEMMA OutputOnly ==
  ASSUME NEW f, IsFrame(f), NEW x
  PROVE  LET g == [f EXCEPT !.out = x]
         IN  /\ IsFrame(g) /\ g.kind = f.kind /\ g.rs = f.rs /\ g.prior = f.prior
             /\ g.saved = f.saved /\ g.file = f.file /\ g.was = f.was /\ g.out = x
<1> DEFINE g == [f EXCEPT !.out = x]
<1>1. f = [kind |-> f.kind, rs |-> f.rs, saved |-> f.saved, file |-> f.file, prior |-> f.prior, was |-> f.was, out |-> f.out]
  BY DEF IsFrame
<1>2. g = [kind |-> f.kind, rs |-> f.rs, saved |-> f.saved, file |-> f.file, prior |-> f.prior, was |-> f.was, out |-> x]
  BY <1>1
<1> HIDE DEF g
<1>3. /\ g.kind = f.kind /\ g.rs = f.rs /\ g.prior = f.prior
      /\ g.saved = f.saved /\ g.file = f.file /\ g.was = f.was /\ g.out = x
  BY <1>2
<1>4. g = [kind |-> g.kind, rs |-> g.rs, saved |-> g.saved, file |-> g.file, prior |-> g.prior, was |-> g.was, out |-> g.out]
  BY <1>2, <1>3
<1>5. g.rs \in Lists(MaxRedirections) /\ Len(g.rs) \in 0 .. MaxRedirections
  BY <1>3 DEF IsFrame
<1>6. IsFrame(g)
  BY <1>4, <1>5 DEF IsFrame
<1> QED
  BY <1>3, <1>6 DEF g

\* The text goes to the last of the frames, or to the terminal.
Grew(frames, text) ==
  IF frames = <<>> THEN stack' = frames /\ shown' = shown \o text
  ELSE /\ shown' = shown /\ stack'[Len(frames)].out = frames[Len(frames)].out \o text
       /\ \A k \in 1 .. Len(frames) : k # Len(frames) => stack'[k].out = frames[k].out

\* Output goes to a frame of the stack and changes nothing else of it.
LEMMA EmitSame ==
  ASSUME NEW frames, NEW text, Shaped(frames), Emit(frames, text)
  PROVE  SameFrames(frames, stack') /\ Grew(frames, text)
<1>1. CASE frames = <<>>
  BY <1>1 DEF Emit, SameFrames, Grew
<1>2. CASE frames # <<>>
  <2> DEFINE n == Len(frames)
             f == frames[n]
             g == [f EXCEPT !.out = @ \o text]
             u == [frames EXCEPT ![n] = g]
  <2>1. IsSeq(frames) /\ n \in Nat /\ n # 0 /\ DOMAIN frames = 1 .. n /\ Len(frames) = n
    BY <1>2, SeqFacts DEF Shaped
  <2>2. stack' = u /\ shown' = shown
    BY <1>2 DEF Emit
  <2>3. IsFrame(f)
    BY <2>1 DEF Shaped
  <2>4. /\ IsFrame(g) /\ g.kind = f.kind /\ g.rs = f.rs /\ g.prior = f.prior
        /\ g.saved = f.saved /\ g.file = f.file /\ g.was = f.was /\ g.out = f.out \o text
    <3> HIDE DEF f
    <3> QED
      BY <2>3, OutputOnly
  <2> HIDE DEF g, n
  <2>5. /\ IsSeq(u) /\ Len(u) = n /\ u[n] = g
        /\ \A i \in 1 .. n : i # n => u[i] = frames[i]
    <3>1. n \in DOMAIN frames
      BY <2>1
    <3>2. /\ IsSeq(u) /\ DOMAIN u = DOMAIN frames /\ Len(u) = Len(frames) /\ u[n] = g
          /\ \A i \in DOMAIN frames : i # n => u[i] = frames[i]
      BY <2>1, <3>1, ReplacedAny, ZenonT(60)
    <3> HIDE DEF u
    <3> QED
      BY <2>1, <3>2
  <2> HIDE DEF u
  <2>6. \A i \in 1 .. n : IsFrame(frames[i])
    BY DEF Shaped, n
  <2>7. \A i \in 1 .. n : IsFrame(u[i])
    BY <2>4, <2>5, <2>6
  <2>8. Shaped(u)
    BY <2>5, <2>7 DEF Shaped
  <2> QED
    BY <1>2, <2>1, <2>2, <2>4, <2>5, <2>8 DEF SameFrames, Grew, n
<1> QED
  BY <1>1, <1>2

\* A frame is pushed on the groups and built-ins.
LEMMA PushedKeeps ==
  ASSUME NEW st, Shaped(st), Saves(st), NEW f, IsFrame(f),
         f.kind = "group" => f.prior = InputAt(st, Len(st))
  PROVE  LET u == Append(st, f)
         IN  /\ Shaped(u) /\ Len(u) = Len(st) + 1 /\ u[Len(u)] = f
             /\ Saves(u)
             /\ InputAt(u, Len(u)) = IF f.kind = "group" /\ Affecting(f.rs) # {} THEN LastInput(f.rs) ELSE InputAt(st, Len(st))
<1> DEFINE u == Append(st, f)
           n == Len(st)
<1>1. IsSeq(st) /\ n \in Nat /\ n = Len(st)
  BY SeqFacts DEF Shaped
<1>2. /\ IsSeq(u) /\ Len(u) = n + 1 /\ u[n + 1] = f
      /\ \A i \in 1 .. n : u[i] = st[i]
  BY <1>1, AppendAny
<1> HIDE DEF u, n
<1>3. Shaped(u)
  BY <1>1, <1>2 DEF Shaped
<1>4. \A k \in 0 .. n : InputAt(u, k) = InputAt(st, k)
  <2>1. SUFFICES ASSUME NEW k \in 0 .. n PROVE InputAt(u, k) = InputAt(st, k)
    OBVIOUS
  <2>2. k \in Nat /\ \A i \in 1 .. k : u[i].kind = st[i].kind /\ u[i].rs = st[i].rs
    BY <1>1, <1>2
  <2> QED
    BY <2>2, InputSame
<1>5. \A k \in 1 .. n + 1 : u[k].kind = "group" => u[k].prior = InputAt(u, k - 1)
  <2>1. SUFFICES ASSUME NEW k \in 1 .. n + 1, u[k].kind = "group"
                 PROVE  u[k].prior = InputAt(u, k - 1)
    OBVIOUS
  <2>0. \A i \in 1 .. n : st[i].kind = "group" => st[i].prior = InputAt(st, i - 1)
    BY <1>1 DEF Saves
  <2>2. CASE k = n + 1
    <3>1. k - 1 = n /\ n \in 0 .. n
      BY <1>1, <2>2
    <3> QED
      BY <1>1, <1>2, <1>4, <2>1, <2>2, <3>1
  <2>3. CASE k # n + 1
    <3>1. k \in 1 .. n /\ k - 1 \in 0 .. n
      BY <1>1, <2>3
    <3> QED
      BY <1>1, <1>2, <1>4, <2>0, <2>1, <3>1
  <2> QED
    BY <2>2, <2>3
<1>6. InputAt(u, n + 1) = IF f.kind = "group" /\ Affecting(f.rs) # {} THEN LastInput(f.rs) ELSE InputAt(st, Len(st))
  <2>1. InputAt(u, n) = InputAt(st, Len(st))
    BY <1>1, <1>4
  <2> QED
    BY <1>1, <1>2, <2>1, InputNext
<1> QED
  BY <1>1, <1>2, <1>3, <1>5, <1>6 DEF u, n, Saves

\* The innermost frame ends.
LEMMA PoppedKeeps ==
  ASSUME NEW st, Shaped(st), st # <<>>, NEW v, SameFrames(Front(st), v),
         Saves(st)
  PROVE  /\ Shaped(v) /\ Len(st) \in Nat \ {0} /\ Len(v) = Len(st) - 1
         /\ Saves(v)
         /\ InputAt(v, Len(v)) = InputAt(st, Len(st) - 1)
         /\ st[Len(st)].kind # "group" => InputAt(st, Len(st)) = InputAt(st, Len(st) - 1)
         /\ st[Len(st)].kind = "group" => st[Len(st)].prior = InputAt(st, Len(st) - 1)
<1> DEFINE n == Len(st)
           w == Front(st)
<1>1. /\ n \in Nat \ {0} /\ n = Len(st) /\ Len(w) = n - 1
      /\ \A i \in 1 .. n - 1 : w[i] = st[i]
  <2>1. w = Shorter(st)
    BY DEF Front, Shorter
  <2> QED
    BY <2>1, ShorterAny DEF Shaped
<1> HIDE DEF n, w
<1>2. /\ Shaped(v) /\ Len(v) = n - 1
      /\ \A k \in 1 .. n - 1 : v[k].kind = st[k].kind /\ v[k].rs = st[k].rs /\ v[k].prior = st[k].prior
  BY <1>1 DEF SameFrames, w
<1>3. \A k \in 0 .. n - 1 : InputAt(v, k) = InputAt(st, k)
  <2>1. SUFFICES ASSUME NEW k \in 0 .. n - 1 PROVE InputAt(v, k) = InputAt(st, k)
    OBVIOUS
  <2>2. k \in Nat /\ \A i \in 1 .. k : v[i].kind = st[i].kind /\ v[i].rs = st[i].rs
    BY <1>1, <1>2
  <2> QED
    BY <2>2, InputSame
<1>4. \A k \in 1 .. n - 1 : v[k].kind = "group" => v[k].prior = InputAt(v, k - 1)
  <2>1. SUFFICES ASSUME NEW k \in 1 .. n - 1, v[k].kind = "group" PROVE v[k].prior = InputAt(v, k - 1)
    OBVIOUS
  <2>2. k \in 1 .. n /\ k - 1 \in 0 .. n - 1
    BY <1>1
  <2> QED
    BY <1>1, <1>2, <1>3, <2>1, <2>2 DEF Saves
<1>5. InputAt(v, n - 1) = InputAt(st, n - 1)
  BY <1>1, <1>3
<1>6. st[n].kind # "group" => InputAt(st, n) = InputAt(st, n - 1)
  <2>1. n - 1 \in Nat /\ n - 1 + 1 = n
    BY <1>1
  <2> QED
    BY <2>1, InputNext
<1>7. st[n].kind = "group" => st[n].prior = InputAt(st, n - 1)
  <2>1. n \in 1 .. n
    BY <1>1
  <2> QED
    BY <1>1, <2>1 DEF Saves
<1> QED
  BY <1>1, <1>2, <1>4, <1>5, <1>6, <1>7 DEF Saves

\* The length of a written list of redirections
LEMMA ListLength ==
  ASSUME NEW m \in Nat, NEW rs \in Lists(m)
  PROVE  Len(rs) \in 0 .. m
<1>1. PICK k \in 0 .. m : rs \in [1 .. k -> Redirections]
  BY DEF Lists
<1>2. rs \in Seq(Redirections) /\ Len(rs) = k
  BY <1>1
<1> QED
  BY <1>1, <1>2

\* The frame a command pushes holds the input in force.
LEMMA NewFrame ==
  ASSUME NEW kind, NEW rs \in Lists(MaxRedirections), NEW saved, NEW file, NEW was
  PROVE  LET f == Frame(kind, rs, saved, file, was)
         IN  /\ IsFrame(f) /\ f.kind = kind /\ f.rs = rs /\ f.prior = inherited
             /\ f.saved = saved /\ f.file = file /\ f.was = was
<1>1. Len(rs) \in 0 .. MaxRedirections
  BY ListLength, BoundsAssumption
<1> QED
  BY <1>1 DEF Frame, IsFrame

\* One case for each action that pushes or pops a frame or changes the input.
LEMMA InputStep ==
  ASSUME InputInv, [Next]_vars
  PROVE  InputInv'
<1>0. /\ Shaped(stack) /\ inherited = InputAt(stack, Len(stack))
      /\ Saves(stack)
  BY DEF InputInv, Inherits
<1>1. CASE UNCHANGED <<stack, inherited>>
  BY <1>1 DEF InputInv, Inherits
<1>2. ASSUME NEW rs \in Lists(MaxRedirections), Builtin(rs)
      PROVE  InputInv'
  <2>1. PICK saved, file, was : stack' = Append(stack, Frame("builtin", rs, saved, file, was))
    BY <1>2 DEF Builtin
  <2> DEFINE f == Frame("builtin", rs, saved, file, was)
  <2>2. IsFrame(f) /\ f.kind = "builtin"
    BY NewFrame
  <2>3. inherited' = inherited
    BY <1>2 DEF Builtin
  <2> HIDE DEF f
  <2>4. /\ Shaped(stack') /\ inherited' = InputAt(stack', Len(stack'))
        /\ Saves(stack')
    <3>1. stack' = Append(stack, f)
      BY <2>1 DEF f
    <3> QED
      BY <1>0, <2>2, <2>3, <3>1, PushedKeeps
  <2> QED
    BY <2>4 DEF InputInv, Inherits
<1>3. ASSUME NEW rs \in Lists(MaxRedirections), Group(rs)
      PROVE  InputInv'
  <2> DEFINE f == Frame("group", rs, -1, -1, intended)
  <2>1. IsFrame(f) /\ f.kind = "group" /\ f.rs = rs /\ f.prior = inherited
    BY NewFrame
  <2>2. stack' = Append(stack, f)
    BY <1>3 DEF Group
  <2>3. inherited' = IF Affecting(rs) # {} THEN LastInput(rs) ELSE inherited
    BY <1>3 DEF Group, Affecting, LastInput
  <2> HIDE DEF f
  <2>4. /\ Shaped(stack') /\ inherited' = InputAt(stack', Len(stack'))
        /\ Saves(stack')
    <3>1. /\ Shaped(stack')
          /\ Saves(stack')
          /\ InputAt(stack', Len(stack')) = IF f.kind = "group" /\ Affecting(f.rs) # {} THEN LastInput(f.rs) ELSE inherited
      BY <1>0, <2>1, <2>2, PushedKeeps
    <3> QED
      BY <2>1, <2>3, <3>1
  <2> QED
    BY <2>4 DEF InputInv, Inherits
<1>4. ASSUME NEW text, stack # <<>>, Emit(Front(stack), text),
             inherited' = IF stack[Len(stack)].kind = "group" THEN stack[Len(stack)].prior ELSE inherited
      PROVE  InputInv'
  <2>1. Shaped(Front(stack))
    <3>1. Front(stack) = Shorter(stack)
      BY DEF Front, Shorter
    <3> DEFINE w == Front(stack)
               n == Len(stack)
    <3>2. IsSeq(w) /\ Len(w) = n - 1 /\ n \in Nat /\ \A i \in 1 .. n - 1 : w[i] = stack[i]
      BY <1>0, <1>4, <3>1, ShorterAny DEF Shaped
    <3>3. \A i \in 1 .. n : IsFrame(stack[i])
      BY <1>0 DEF Shaped
    <3> HIDE DEF w, n
    <3> QED
      BY <3>2, <3>3 DEF Shaped, w
  <2>2. SameFrames(Front(stack), stack')
    BY <1>4, <2>1, EmitSame
  <2>3. /\ Shaped(stack') /\ inherited' = InputAt(stack', Len(stack'))
        /\ Saves(stack')
    BY <1>0, <1>4, <2>2, PoppedKeeps
  <2> QED
    BY <2>3 DEF InputInv, Inherits
<1>5. ASSUME NEW ok \in BOOLEAN, BuiltinEnds(ok)
      PROVE  InputInv'
  <2>1. PICK text : Emit(Front(stack), text)
    BY <1>5, Zenon DEF BuiltinEnds
  <2>2. stack # <<>> /\ inherited' = inherited /\ stack[Len(stack)].kind = "builtin"
    BY <1>5 DEF BuiltinEnds, Last
  <2> QED
    BY <1>4, <2>1, <2>2
<1>6. ASSUME NEW ok \in BOOLEAN, GroupEnds(ok)
      PROVE  InputInv'
  <2>1. PICK text : Emit(Front(stack), text)
    BY <1>6, Zenon DEF GroupEnds
  <2>2. stack # <<>> /\ inherited' = stack[Len(stack)].prior /\ stack[Len(stack)].kind = "group"
    BY <1>6 DEF GroupEnds, Last, InheritedAfter
  <2> QED
    BY <1>4, <2>1, <2>2
<1>7. ASSUME Next PROVE InputInv'
  <2>1. CASE \E rs \in Lists(MaxRedirections) : Exec(rs)
    BY <1>1, <2>1 DEF Exec
  <2>2. CASE ExecRedirects \/ ExecSucceeds \/ ExecUnwinds
    BY <1>1, <2>2 DEF ExecRedirects, ExecSucceeds, ExecUnwinds
  <2>3. CASE \E rs \in Lists(MaxRedirections) : BuiltinUnredirected(rs)
    BY <1>1, <2>3 DEF BuiltinUnredirected
  <2>4. CASE \E specs \in Single(MaxRedirections) \union Double, capture \in BOOLEAN : Pipeline(specs, capture)
    BY <1>1, <2>4 DEF Pipeline, Launch
  <2>5. CASE \E specs \in Single(1) \union Double, capture \in BOOLEAN, text \in {"out", Empty} : PipelineFromBuiltin(specs, capture, text)
    BY <1>1, <2>5 DEF PipelineFromBuiltin, Launch
  <2>6. CASE \E rs \in Lists(1), capture \in BOOLEAN : ExecCommand(rs, capture)
    BY <1>1, <2>6 DEF ExecCommand, Launch
  <2>7. CASE Fork \/ ForkFails \/ PipelineEnds
    BY <1>1, <2>7 DEF Fork, ForkFails, PipelineEnds
  <2> QED
    BY <1>2, <1>3, <1>5, <1>6, <1>7, <2>1, <2>2, <2>3, <2>4, <2>5, <2>6, <2>7 DEF Next, GroupTails
<1>8. CASE UNCHANGED vars
  BY <1>1, <1>8 DEF vars
<1> QED
  BY <1>7, <1>8

\* The last redirection of the innermost group that has one is the only maximal one.
LEMMA InputIsInnermost ==
  ASSUME InputInv
  PROVE  InnermostInput
<1> DEFINE n == Len(stack)
           S == GroupInputs
           inner == Innermost
           x0 == CHOOSE x \in Innermost : TRUE
           G == Redirecting(stack, n)
<1>1. n \in Nat /\ (\A k \in 1 .. n : Len(stack[k].rs) \in 0 .. MaxRedirections) /\ inherited = InputAt(stack, n)
  BY SeqFacts DEF InputInv, Shaped, IsFrame, Inherits
<1>2. \A i, j : <<i, j>> \in S <=> /\ i \in 1 .. n /\ j \in 1 .. MaxRedirections /\ stack[i].kind = "group"
                                   /\ j <= Len(stack[i].rs) /\ AffectsStdin(stack[i].rs[j])
  BY Zenon DEF GroupInputs
<1>3. \A x \in S : x = <<x[1], x[2]>>
  BY DEF GroupInputs
<1> HIDE DEF S, n
<1>4. \A i, j : <<i, j>> \in S <=> i \in G /\ j \in Affecting(stack[i].rs)
  <2>1. \A i \in 1 .. n : \A j : (j \in 1 .. MaxRedirections /\ j <= Len(stack[i].rs)) <=> j \in 1 .. Len(stack[i].rs)
    BY <1>1, BoundsAssumption
  <2> QED
    BY <1>2, <2>1 DEF Redirecting, Affecting
<1>5. G \subseteq 1 .. n
  BY DEF Redirecting
<1>6. CASE G = {}
  <2>1. S = {}
    BY <1>3, <1>4, <1>6
  <2>2. inherited = NoInput
    BY <1>1, <1>6 DEF InputAt
  <2> QED
    BY <2>1, <2>2 DEF InnermostInput, S
<1>7. CASE G # {}
  <2> DEFINE i == Max(G)
             A == Affecting(stack[i].rs)
             j == Max(A)
  <2>1. i \in G /\ \A y \in G : y <= i
    BY <1>1, <1>5, <1>7, Greatest
  <2>2. A # {} /\ A \subseteq 1 .. Len(stack[i].rs) /\ Len(stack[i].rs) \in Nat
    <3>1. i \in 1 .. n /\ A # {}
      BY <2>1 DEF Redirecting
    <3>2. A \subseteq 1 .. Len(stack[i].rs)
      BY DEF Affecting
    <3>3. Len(stack[i].rs) \in Nat
      <4> HIDE DEF i
      <4> QED
        BY <1>1, <3>1
    <3> QED
      BY <3>1, <3>2, <3>3
  <2>3. j \in A /\ \A y \in A : y <= j
    BY <2>2, Greatest
  <2>4. inherited = stack[i].rs[j]
    BY <1>1, <1>7 DEF InputAt, LastInput
  <2> HIDE DEF i, A, j
  <2>5. <<i, j>> \in S
    BY <1>4, <2>1, <2>3 DEF A
  <2>6. i \in Int /\ j \in Int /\ G \subseteq Int /\ A \subseteq Int
    BY <1>5, <2>1, <2>2, <2>3
  <2>7. \A y \in S : y[1] \in G /\ (y[1] = i => y[2] \in A)
    BY <1>3, <1>4 DEF A
  <2>8. <<i, j>> \in inner
    <3>1. SUFFICES ASSUME NEW y \in S PROVE y[1] < i \/ (y[1] = i /\ y[2] <= j)
      BY <2>5 DEF Innermost, S
    <3>2. y[1] <= i /\ y[1] \in Int /\ (y[1] = i => y[2] <= j)
      BY <2>1, <2>3, <2>6, <2>7
    <3> QED
      BY <2>6, <3>2
  <2>9. \A x \in inner : x = <<i, j>>
    <3>1. SUFFICES ASSUME NEW x \in inner PROVE x = <<i, j>>
      OBVIOUS
    <3>2. x \in S /\ (i < x[1] \/ (i = x[1] /\ j <= x[2]))
      BY <2>5 DEF Innermost, S
    <3>3. x[1] <= i /\ x[1] \in Int /\ (x[1] = i => x[2] <= j /\ x[2] \in Int)
      BY <2>1, <2>2, <2>3, <2>6, <2>7, <3>2
    <3>4. x[1] = i /\ x[2] = j
      BY <2>6, <3>2, <3>3
    <3> QED
      BY <1>3, <3>2, <3>4
  <2>10. x0 = <<i, j>>
    BY <2>8, <2>9
  <2>11. S # {} /\ inherited = stack[x0[1]].rs[x0[2]]
    <3> HIDE DEF x0
    <3> QED
      BY <2>4, <2>5, <2>10
  <2> QED
    BY <2>11 DEF InnermostInput, S
<1> QED
  BY <1>6, <1>7

\* The shell starts without frames.
LEMMA InputInit ==
  ASSUME stack = <<>>, inherited = NoInput
  PROVE  InputInv
<1>1. IsSeq(<<>>) /\ Len(<<>>) = 0
  <2>1. <<>> \in Seq({})
    OBVIOUS
  <2> QED
    BY <2>1 DEF IsSeq
<1>2. InputAt(<<>>, 0) = NoInput
  BY DEF InputAt, Redirecting
<1> QED
  BY <1>1, <1>2 DEF InputInv, Shaped, Inherits, Saves

\* However groups nest, end and fail, a command starts with the input of the
\* innermost group that redirects it: the input saved by execute_compound_body
\* is put back when the group ends.
THEOREM InputOfInnermost == Spec => []InnermostInput
<1>1. Init => InputInv
  BY InputInit DEF Init
<1>2. InputInv /\ [Next]_vars => InputInv'
  BY InputStep
<1>3. InputInv => InnermostInput
  BY InputIsInnermost
<1> QED
  BY <1>1, <1>2, <1>3, PTL DEF Spec

-----------------------------------------------------------------------------
(* The descriptors of the shell *)

\* The numbers the shell keeps its backups and pipe ends in
Own == Fds \ Std

IsTable(t) == t = [n \in Fds |-> t[n]]
Agree(t, u, S) == \A n \in Fds : n \notin S => t[n] = u[n]
StdOpen(t) == \A n \in Std : t[n] # Closed
ClosedFrom(t, h) == \A n \in Fds : n >= h => t[n] = Closed

\* What a built-in that replaced its input needs to put it back
FrameKeeps(f, t) ==
  \/ f.saved = -1 /\ f.file = -1
  \/ /\ f.saved \in Own /\ f.file \in Own \union {-1}
     /\ f.was[0] # Closed /\ f.was[f.saved] = Closed /\ t[f.saved] = f.was[0]
     /\ f.file # -1 => f.was[f.file] = Closed /\ t[f.file] # Closed
Distinct(f, g) == \A n \in {f.saved, f.file} : n # -1 => n \notin {g.saved, g.file}
FramesKeep(st, t) ==
  \A k \in 1 .. Len(st) :
    /\ FrameKeeps(st[k], t)
    /\ \A j \in 1 .. k - 1 : Distinct(st[j], st[k])

\* The backups of exec hold what the descriptors were, in numbers nobody else uses.
FdsOf(B) == {B[i].fd : i \in 1 .. Len(B)}
SavedOf(B) == {B[i].saved : i \in 1 .. Len(B)}
BackupsOK(t, B, was) ==
  /\ B \in Seq([fd : Std, saved : Own])
  /\ \A i, j \in 1 .. Len(B) : i # j => B[i].fd # B[j].fd /\ B[i].saved # B[j].saved
  /\ \A i \in 1 .. Len(B) : t[B[i].saved] = was[B[i].fd] /\ was[B[i].saved] = Closed

\* While exec applies its list: the table is the intended one but for the backups,
\* and every descriptor that changed has one.
Applying(t, B, was, int, h) ==
  /\ IsTable(t) /\ BackupsOK(t, B, was)
  /\ Agree(t, int, SavedOf(B)) /\ Agree(was, int, FdsOf(B))
  /\ ClosedFrom(t, h + Len(B))

\* Every number from here on is free between two commands.
Height == 3 + 2 * produced

\* exec under way: w is the table it started with, every number from h on free
ExecOK(e, w, t, int, h) ==
  /\ e = [rs |-> e.rs, i |-> e.i, backups |-> e.backups, doing |-> e.doing, was |-> e.was]
  /\ e.doing \in {"apply", "release", "rollback"}
  /\ Len(e.rs) \in Nat /\ e.i \in Nat \ {0} /\ Plain(e.rs)
  /\ IsTable(e.was) /\ IsTable(w) /\ StdOpen(w) /\ Agree(w, int, Std) /\ ClosedFrom(w, h)
  /\ BackupsOK(t, e.backups, w)
  /\ e.doing = "apply" => Applying(t, e.backups, w, int, h)
  /\ e.doing = "release" => Agree(t, int, SavedOf(e.backups))
  /\ e.doing = "rollback" => int = w /\ Agree(t, w, SavedOf(e.backups) \union FdsOf(e.backups))

\* A pipeline under way: the shell holds the read end of the last pipe, and that of
\* the captured output once every process is started.
EndKept(n, int, h) == n = -1 \/ (n \in Own /\ n < h + 2 /\ int[n] = Closed)

PipelineOK(p, t, int, h) ==
  /\ p = [specs |-> p.specs, i |-> p.i, prev |-> p.prev, capture |-> p.capture, read |-> p.read]
  /\ p.i \in Nat \ {0}
  /\ EndKept(p.prev, int, h) /\ EndKept(p.read, int, h)
  /\ p.read # -1 => ~ (p.i <= Len(p.specs))
  /\ Agree(t, int, {p.prev, p.read}) /\ ClosedFrom(int, h)

\* The table t with the ends s that failed pipelines left open
Over(t, s) == [n \in Fds |-> IF s[n] = Closed THEN t[n] ELSE s[n]]

\* Those ends are in numbers that no built-in under way has taken.
FrameApart(f, s) == \A n \in Fds : n \in {f.saved, f.file} => s[n] = Closed
StraysKeep ==
  /\ IsTable(intended) /\ IsTable(stray) /\ \A n \in Std : stray[n] = Closed
  /\ \A k \in 1 .. Len(stack) : FrameApart(stack[k], stray)

TablesKeep ==
  /\ IsTable(table) /\ IsTable(Expected) /\ StdOpen(Expected) /\ ClosedFrom(Expected, Height)
  /\ FramesKeep(stack, Expected)
  /\ ~ Idle => (exec = NoExec \/ pipeline = NoPipeline) /\ produced \in 1 .. MaxCommands
  /\ exec # NoExec => ExecOK(exec, Over(exec.was, stray), table, Expected, Height - 2)
  /\ pipeline # NoPipeline => PipelineOK(pipeline, table, Expected, Height - 2)
  /\ Idle => table = Expected

RedirectInv == InputInv /\ produced \in Nat /\ (plain => TablesKeep /\ StraysKeep)

\* The expected table, one descriptor at a time
LEMMA ExpectedIs ==
  /\ Expected = Over(intended, stray) /\ IsTable(Expected)
  /\ \A n \in Fds : Expected[n] = IF stray[n] = Closed THEN intended[n] ELSE stray[n]
BY DEF Expected, Over, IsTable

LEMMA OverIs ==
  ASSUME NEW t, NEW s
  PROVE  IsTable(Over(t, s)) /\ \A n \in Fds : Over(t, s)[n] = IF s[n] = Closed THEN t[n] ELSE s[n]
BY DEF Over, IsTable

\* It changes with its two parts only.
LEMMA ExpectedSame ==
  ASSUME UNCHANGED <<intended, stray>>
  PROVE  Expected' = Expected
BY DEF Expected

\* What the operations on tables do to each descriptor
LEMMA PutAt ==
  ASSUME NEW t, IsTable(t), NEW n \in Fds, NEW s
  PROVE  /\ IsTable(Put(t, n, s)) /\ Put(t, n, s)[n] = s
         /\ \A m \in Fds : m # n => Put(t, n, s)[m] = t[m]
BY DEF IsTable, Put

\* close frees one number; -1 is no descriptor.
LEMMA CloseAt ==
  ASSUME NEW t, IsTable(t), NEW n \in Fds \union {-1}
  PROVE  /\ IsTable(Close(t, n)) /\ (n # -1 => Close(t, n)[n] = Closed)
         /\ \A m \in Fds : m # n => Close(t, n)[m] = t[m]
<1>1. CASE n \in Fds
  <2>1. Close(t, n) = Put(t, n, Closed)
    BY <1>1 DEF Close
  <2> QED
    BY <1>1, <2>1, PutAt
<1>2. CASE n \notin Fds
  BY <1>2 DEF Close
<1> QED
  BY <1>1, <1>2

\* Closing a set frees exactly its members.
LEMMA CloseAllAt ==
  ASSUME NEW t, NEW S
  PROVE  /\ IsTable(CloseAll(t, S))
         /\ \A m \in Fds : CloseAll(t, S)[m] = IF m \in S THEN Closed ELSE t[m]
BY DEF IsTable, CloseAll

\* dup2 copies an open descriptor over another number.
LEMMA Dup2At ==
  ASSUME NEW t, IsTable(t), NEW from, t[from] # Closed, NEW to \in Fds
  PROVE  /\ IsTable(Dup2(t, from, to)) /\ Dup2(t, from, to)[to] = t[from]
         /\ \A m \in Fds : m # to => Dup2(t, from, to)[m] = t[m]
<1>1. Dup2(t, from, to) = Put(t, to, t[from])
  BY DEF Dup2
<1> QED
  BY <1>1, PutAt

\* dup, open and pipe take a free number, not above any other free one.
LEMMA LowestFree ==
  ASSUME NEW t, NEW k \in Fds, t[k] = Closed
  PROVE  Lowest(t) \in Fds /\ t[Lowest(t)] = Closed /\ Lowest(t) <= k
<1> DEFINE F == {n \in Fds : t[n] = Closed}
           I == {n + 1 : n \in F}
<1>1. MaxFd + 1 \in Nat /\ I \subseteq 1 .. MaxFd + 1 /\ I # {} /\ F \subseteq Int
  BY BoundsAssumption DEF Fds
<1>2. PICK i \in I : \A y \in I : i <= y
  <2> HIDE DEF I
  <2> QED
    BY <1>1, Extremes
<1>3. PICK m \in F : i = m + 1
  BY <1>2
<1>4. \A y \in F : m <= y
  <2>1. SUFFICES ASSUME NEW y \in F PROVE m <= y
    OBVIOUS
  <2>2. y + 1 \in I /\ y \in Int /\ m \in Int
    BY <1>1, <1>3
  <2>3. m + 1 <= y + 1
    BY <1>2, <1>3, <2>2
  <2> QED
    BY <2>2, <2>3
<1>5. \E x \in F : \A y \in F : x =< y
  BY <1>3, <1>4
<1>6. Min(F) \in F /\ \A y \in F : Min(F) <= y
  <2> HIDE DEF F
  <2> QED
    BY <1>5 DEF Min
<1> QED
  BY <1>6 DEF Lowest

\* Closed is no stream that was opened.
LEMMA StreamOpen ==
  ASSUME NEW r
  PROVE  Stream(r) # Closed
<1>1. Len(Stream(r)) = 2 /\ Len(Closed) = 1
  BY DEF Stream, Closed
<1> QED
  BY <1>1

\* The standard descriptors, the shell's own, and how many there are.
LEMMA Numbers ==
  /\ Std \subseteq Fds /\ Fds \subseteq Int /\ Std = {0, 1, 2} /\ 0 \in Fds /\ -1 \notin Fds
  /\ \A n : n \in Own <=> n \in Fds /\ n >= 3
  /\ \A n \in Int : n \in Fds <=> n >= 0 /\ n <= MaxFd
  /\ MaxFd \in Nat /\ MaxCommands \in Nat /\ MaxFd >= 2 * MaxCommands + 4
BY BoundsAssumption DEF Std, Fds, Own

\* The shell's own descriptors lie above the standard ones.
LEMMA OwnNumbers ==
  /\ \A n \in Own : n \in Fds /\ n \in Int /\ n >= 3 /\ n >= 0 /\ ~ (n < 0) /\ n # 0 /\ n # -1 /\ n \notin Std
  /\ \A n \in Own \union {-1} : n \in Fds \union {-1} /\ n # 0 /\ n \in Int
  /\ 0 \in Fds /\ 0 \in Std
<1>1. \A n \in Own : n \in Fds /\ n \in Int /\ n >= 3 /\ n \notin Std
  BY Numbers DEF Own
<1> QED
  BY <1>1, Numbers

-----------------------------------------------------------------------------
(* exec *)

\* Backups pair a standard descriptor with one of the shell's own.
LEMMA BackupTyped ==
  ASSUME NEW B \in Seq([fd : Std, saved : Own])
  PROVE  /\ Len(B) \in Nat /\ \A i \in 1 .. Len(B) : B[i].fd \in Std /\ B[i].saved \in Own
         /\ FdsOf(B) \subseteq Std /\ SavedOf(B) \subseteq Own
<1>1. \A i \in 1 .. Len(B) : B[i] \in [fd : Std, saved : Own]
  BY ElementOfSeq
<1>2. \A b \in [fd : Std, saved : Own] : b.fd \in Std /\ b.saved \in Own
  OBVIOUS
<1>3. Len(B) \in Nat
  OBVIOUS
<1>4. \A i \in 1 .. Len(B) : B[i].fd \in Std /\ B[i].saved \in Own
  BY <1>1, <1>2
<1> QED
  BY <1>3, <1>4 DEF FdsOf, SavedOf

\* A list of backups with one more
Added(B, fd, n) == Append(B, [fd |-> fd, saved |-> n])

GrewBy(B, C, fd, n) ==
  /\ C \in Seq([fd : Std, saved : Own]) /\ Len(B) \in Nat /\ Len(C) = Len(B) + 1
  /\ C[Len(B) + 1].fd = fd /\ C[Len(B) + 1].saved = n /\ \A i \in 1 .. Len(B) : C[i] = B[i]
  /\ FdsOf(C) = FdsOf(B) \union {fd} /\ SavedOf(C) = SavedOf(B) \union {n}

\* One more backup is one more pair.
LEMMA BackupAdded ==
  ASSUME NEW B \in Seq([fd : Std, saved : Own]), NEW fd \in Std, NEW n \in Own
  PROVE  GrewBy(B, Added(B, fd, n), fd, n)
<1> DEFINE b == [fd |-> fd, saved |-> n]
           C == Append(B, b)
           m == Len(B)
<1>1. b \in [fd : Std, saved : Own] /\ b.fd = fd /\ b.saved = n
  OBVIOUS
<1> HIDE DEF b
<1>2. /\ C \in Seq([fd : Std, saved : Own]) /\ m \in Nat /\ Len(C) = m + 1
      /\ C[m + 1] = b /\ \A i \in 1 .. m : C[i] = B[i]
  BY <1>1
<1>3. Len(B) = m
  OBVIOUS
<1> HIDE DEF C, m
<1>4. \A i : i \in 1 .. m + 1 <=> i \in 1 .. m \/ i = m + 1
  BY <1>2
<1>5. FdsOf(C) = FdsOf(B) \union {fd} /\ SavedOf(C) = SavedOf(B) \union {n}
  BY <1>1, <1>2, <1>3, <1>4 DEF FdsOf, SavedOf
<1> QED
  BY <1>1, <1>2, <1>3, <1>5 DEF Added, C, b, GrewBy

\* There are at most three backups, and one more number is free above them.
LEMMA AtMostThree ==
  ASSUME NEW B \in Seq([fd : Std, saved : Own]),
         \A i, j \in 1 .. Len(B) : i # j => B[i].fd # B[j].fd
  PROVE  Len(B) <= 3
<1>1. SUFFICES ASSUME Len(B) >= 4, Len(B) \in Nat PROVE FALSE
  OBVIOUS
<1>2. 1 \in 1 .. Len(B) /\ 2 \in 1 .. Len(B) /\ 3 \in 1 .. Len(B) /\ 4 \in 1 .. Len(B)
  BY <1>1
<1>3. \A i \in 1 .. Len(B) : B[i].fd \in {0, 1, 2}
  BY BackupTyped, Numbers
<1> QED
  BY <1>2, <1>3

\* ensure_persistent_fd_backup: what exec may change is saved first.
LEMMA BackedKeeps ==
  ASSUME NEW t, NEW B, NEW was, NEW int, NEW h \in Nat, h + 3 <= MaxFd,
         Applying(t, B, was, int, h), StdOpen(int), StdOpen(was), NEW fd \in Std
  PROVE  LET s == Backed([t |-> t, backups |-> B], fd)
         IN  /\ s = [t |-> s.t, backups |-> s.backups]
             /\ Applying(s.t, s.backups, was, int, h)
             /\ fd \in FdsOf(s.backups) /\ FdsOf(B) \subseteq FdsOf(s.backups)
<1> DEFINE st == [t |-> t, backups |-> B]
           s == Backed(st, fd)
<1>0. /\ IsTable(t) /\ B \in Seq([fd : Std, saved : Own]) /\ Len(B) \in Nat
      /\ \A i, j \in 1 .. Len(B) : i # j => B[i].fd # B[j].fd /\ B[i].saved # B[j].saved
      /\ \A i \in 1 .. Len(B) : t[B[i].saved] = was[B[i].fd] /\ was[B[i].saved] = Closed
      /\ Agree(t, int, SavedOf(B)) /\ Agree(was, int, FdsOf(B)) /\ ClosedFrom(t, h + Len(B))
  BY DEF Applying, BackupsOK
<1>1. (\E b \in ToSet(B) : b.fd = fd) <=> fd \in FdsOf(B)
  BY <1>0 DEF ToSet, FdsOf
<1>2. CASE fd \in FdsOf(B)
  <2>1. s = st
    BY <1>1, <1>2 DEF Backed
  <2> QED
    BY <1>2, <2>1
<1>3. CASE fd \notin FdsOf(B)
  <2>1. SavedOf(B) \subseteq Own /\ fd \in Fds /\ fd \notin SavedOf(B)
    BY <1>0, BackupTyped, Numbers DEF Own
  <2>2. t[fd] = int[fd] /\ was[fd] = int[fd] /\ t[fd] # Closed
    BY <1>0, <1>3, <2>1 DEF Agree, StdOpen
  <2> DEFINE n == Lowest(t)
             u == Put(t, n, t[fd])
             C == Added(B, fd, n)
  <2>3. s = [t |-> u, backups |-> C]
    BY <1>1, <1>3, <2>2 DEF Backed, Added
  <2>4. n \in Fds /\ t[n] = Closed /\ n <= h + Len(B)
    <3>1. Len(B) <= 3
      BY <1>0, AtMostThree
    <3>2. h + Len(B) \in Fds
      BY <1>0, <3>1, Numbers
    <3>3. t[h + Len(B)] = Closed
      BY <1>0, <3>2 DEF ClosedFrom
    <3> QED
      BY <3>2, <3>3, LowestFree
  <2> HIDE DEF n
  <2>5. \A m \in Std : t[m] # Closed
    BY <1>0, <2>1, Numbers DEF Agree, StdOpen, Own
  <2>6. n \in Own /\ n \notin Std /\ n # fd
    BY <2>4, <2>5 DEF Own
  <2>7. /\ C \in Seq([fd : Std, saved : Own]) /\ Len(C) = Len(B) + 1
        /\ C[Len(B) + 1].fd = fd /\ C[Len(B) + 1].saved = n /\ \A i \in 1 .. Len(B) : C[i] = B[i]
        /\ FdsOf(C) = FdsOf(B) \union {fd} /\ SavedOf(C) = SavedOf(B) \union {n}
    <3>1. GrewBy(B, C, fd, n)
      BY <1>0, <2>6, BackupAdded
    <3> HIDE DEF C
    <3> QED
      BY <3>1 DEF GrewBy
  <2>8. IsTable(u) /\ u[n] = t[fd] /\ \A m \in Fds : m # n => u[m] = t[m]
    BY <1>0, <2>4, PutAt
  <2> HIDE DEF u, C
  <2>9. \A i \in 1 .. Len(B) : /\ B[i].fd \in Std /\ B[i].saved \in Own
                              /\ B[i].fd \in FdsOf(B) /\ B[i].saved \in SavedOf(B)
    BY <1>0, BackupTyped DEF FdsOf, SavedOf
  <2>10. n \notin SavedOf(B)
    <3>1. SUFFICES ASSUME NEW i \in 1 .. Len(B), B[i].saved = n PROVE FALSE
      BY DEF SavedOf
    <3>2. t[n] = was[B[i].fd]
      BY <1>0, <3>1
    <3>3. was[B[i].fd] # Closed
      BY <2>9 DEF StdOpen
    <3> QED
      BY <2>4, <3>2, <3>3
  <2>11. was[n] = Closed
    <3>1. n \notin FdsOf(B)
      BY <1>0, <2>6, BackupTyped
    <3> QED
      BY <1>0, <2>4, <2>10, <3>1 DEF Agree
  <2>12. \A i \in 1 .. Len(C) : i \in 1 .. Len(B) \/ i = Len(B) + 1
    BY <1>0, <2>7
  <2>13. \A i, j \in 1 .. Len(C) : i # j => C[i].fd # C[j].fd /\ C[i].saved # C[j].saved
    BY <1>0, <1>3, <2>7, <2>9, <2>10, <2>12
  <2>14. \A i \in 1 .. Len(C) : u[C[i].saved] = was[C[i].fd] /\ was[C[i].saved] = Closed
    <3>1. SUFFICES ASSUME NEW i \in 1 .. Len(C)
                   PROVE  u[C[i].saved] = was[C[i].fd] /\ was[C[i].saved] = Closed
      OBVIOUS
    <3>2. CASE i = Len(B) + 1
      BY <2>2, <2>7, <2>8, <2>11, <3>2
    <3>3. CASE i \in 1 .. Len(B)
      <4>1. C[i] = B[i] /\ B[i].saved # n /\ B[i].saved \in Fds
        BY <2>7, <2>9, <2>10, <3>3 DEF Own
      <4> QED
        BY <1>0, <2>8, <3>3, <4>1
    <3> QED
      BY <2>12, <3>2, <3>3
  <2>15. Agree(u, int, SavedOf(C)) /\ Agree(was, int, FdsOf(C))
    BY <1>0, <2>7, <2>8 DEF Agree
  <2>16. ClosedFrom(u, h + Len(C))
    <3>1. SUFFICES ASSUME NEW m \in Fds, m >= h + Len(C) PROVE u[m] = Closed
      BY DEF ClosedFrom
    <3>2. m # n /\ m >= h + Len(B)
      BY <1>0, <2>4, <2>7, <3>1, Numbers
    <3> QED
      BY <1>0, <2>8, <3>2 DEF ClosedFrom
  <2>17. Applying(u, C, was, int, h)
    BY <2>7, <2>8, <2>13, <2>14, <2>15, <2>16 DEF Applying, BackupsOK
  <2> QED
    BY <2>3, <2>7, <2>17
<1> QED
  BY <1>2, <1>3

\* One descriptor that is saved changes, and the intended one with it.
LEMMA ChangeKeeps ==
  ASSUME NEW t, NEW B, NEW was, NEW int, NEW h \in Nat, h >= 3, Applying(t, B, was, int, h), IsTable(int),
         NEW fd \in Std, fd \in FdsOf(B), NEW s
  PROVE  Applying(Put(t, fd, s), B, was, Put(int, fd, s), h)
<1> DEFINE u == Put(t, fd, s)
           v == Put(int, fd, s)
<1>0. /\ IsTable(t) /\ B \in Seq([fd : Std, saved : Own]) /\ Len(B) \in Nat
      /\ \A i, j \in 1 .. Len(B) : i # j => B[i].fd # B[j].fd /\ B[i].saved # B[j].saved
      /\ \A i \in 1 .. Len(B) : t[B[i].saved] = was[B[i].fd] /\ was[B[i].saved] = Closed
      /\ Agree(t, int, SavedOf(B)) /\ Agree(was, int, FdsOf(B)) /\ ClosedFrom(t, h + Len(B))
  BY DEF Applying, BackupsOK
<1>1. fd \in Fds /\ fd \in Int /\ fd < 3
  BY Numbers
<1>2. /\ IsTable(u) /\ u[fd] = s /\ \A m \in Fds : m # fd => u[m] = t[m]
      /\ IsTable(v) /\ v[fd] = s /\ \A m \in Fds : m # fd => v[m] = int[m]
  BY <1>0, <1>1, PutAt
<1> HIDE DEF u, v
<1>3. \A i \in 1 .. Len(B) : B[i].saved \in Fds /\ B[i].saved # fd
  BY <1>0, BackupTyped DEF Own
<1>4. BackupsOK(u, B, was)
  BY <1>0, <1>2, <1>3 DEF BackupsOK
<1>5. Agree(u, v, SavedOf(B)) /\ Agree(was, v, FdsOf(B))
  BY <1>0, <1>2 DEF Agree
<1>6. ClosedFrom(u, h + Len(B))
  <2>1. SUFFICES ASSUME NEW m \in Fds, m >= h + Len(B) PROVE u[m] = Closed
    BY DEF ClosedFrom
  <2>2. m # fd
    BY <1>0, <1>1, <2>1, Numbers
  <2> QED
    BY <1>0, <1>2, <2>1, <2>2 DEF ClosedFrom
<1> QED
  BY <1>2, <1>4, <1>5, <1>6 DEF Applying, u, v

\* open and dup2 through a free number leave only the descriptor named changed.
LEMMA MoveToIs ==
  ASSUME NEW t, IsTable(t), StdOpen(t), NEW k \in Fds, t[k] = Closed, NEW r, r.fd \in Std
  PROVE  MoveTo(t, r) = Put(t, r.fd, Stream(r))
<1> DEFINE n == Lowest(t)
           s == Stream(r)
           t1 == Put(t, n, s)
           t2 == Dup2(t1, n, r.fd)
           t3 == Close(t2, n)
           u == Put(t, r.fd, s)
<1>1. n \in Fds /\ t[n] = Closed
  BY LowestFree
<1>2. MoveTo(t, r) = t3
  BY DEF MoveTo
<1>3. s # Closed
  BY StreamOpen
<1> HIDE DEF n, s
<1>4. r.fd \in Fds /\ r.fd # n
  BY <1>1, Numbers DEF StdOpen
<1>5. IsTable(t1) /\ t1[n] = s /\ \A m \in Fds : m # n => t1[m] = t[m]
  BY <1>1, PutAt
<1> HIDE DEF t1
<1>6. IsTable(t2) /\ t2[r.fd] = s /\ \A m \in Fds : m # r.fd => t2[m] = t1[m]
  BY <1>3, <1>4, <1>5, Dup2At
<1> HIDE DEF t2
<1>7. IsTable(t3) /\ t3[n] = Closed /\ \A m \in Fds : m # n => t3[m] = t2[m]
  <2>1. n \in Fds \union {-1} /\ n # -1
    BY <1>1, Numbers
  <2> QED
    BY <1>6, <2>1, CloseAt
<1> HIDE DEF t3
<1>8. IsTable(u) /\ u[r.fd] = s /\ \A m \in Fds : m # r.fd => u[m] = t[m]
  BY <1>4, PutAt
<1> HIDE DEF u
<1>9. \A m \in Fds : t3[m] = u[m]
  BY <1>1, <1>4, <1>5, <1>6, <1>7, <1>8
<1>10. t3 = u
  BY <1>7, <1>8, <1>9 DEF IsTable
<1> QED
  BY <1>2, <1>10 DEF u, s

\* The redirections exec may apply while the run is plain
PlainOne(r) == r.fd \in Std /\ r.kind # "close" /\ (r.kind \in Dups => r.target \in {1, 2})

\* Backing up for one redirection changes nothing of what was intended.
LEMMA SavedKeeps ==
  ASSUME NEW t, NEW B, NEW was, NEW int, NEW h \in Nat, h + 3 <= MaxFd,
         Applying(t, B, was, int, h), StdOpen(int), StdOpen(was), NEW r, PlainOne(r)
  PROVE  LET s == Saved(r, [t |-> t, backups |-> B])
         IN  /\ s = [t |-> s.t, backups |-> s.backups]
             /\ Applying(s.t, s.backups, was, int, h) /\ r.fd \in FdsOf(s.backups)
<1> DEFINE st == [t |-> t, backups |-> B]
           s1 == Backed(st, r.fd)
           s2 == Backed(s1, r.target)
<1>1. r.fd \in Std
  BY DEF PlainOne
<1>2. /\ s1 = [t |-> s1.t, backups |-> s1.backups]
      /\ Applying(s1.t, s1.backups, was, int, h) /\ r.fd \in FdsOf(s1.backups)
  BY <1>1, BackedKeeps
<1>3. CASE r.kind \notin Dups
  BY <1>2, <1>3 DEF Saved
<1>4. CASE r.kind \in Dups
  <2>1. r.target \in Std
    BY <1>4, Numbers DEF PlainOne
  <2>2. Saved(r, st) = s2
    BY <1>4 DEF Saved
  <2> HIDE DEF s1
  <2> DEFINE a == s1.t
             C == s1.backups
  <2>3. s2 = Backed([t |-> a, backups |-> C], r.target) /\ Applying(a, C, was, int, h) /\ r.fd \in FdsOf(C)
    BY <1>2
  <2> HIDE DEF a, C, s2
  <2>4. /\ s2 = [t |-> s2.t, backups |-> s2.backups]
        /\ Applying(s2.t, s2.backups, was, int, h) /\ FdsOf(C) \subseteq FdsOf(s2.backups)
    BY <2>1, <2>3, BackedKeeps
  <2> QED
    BY <2>2, <2>3, <2>4
<1> QED
  BY <1>3, <1>4

\* A redirection that does not fail does to the table what it means.
LEMMA AppliedKeeps ==
  ASSUME NEW t, NEW B, NEW was, NEW int, NEW h \in Nat, h >= 3, h + 3 <= MaxFd,
         Applying(t, B, was, int, h), StdOpen(int), IsTable(int), NEW r, PlainOne(r),
         r.fd \in FdsOf(B), ~ Fails(r, t)
  PROVE  LET d == ApplyPersistently(r, [t |-> t, backups |-> B])
             m == Meant(int, r)
         IN  /\ d.backups = B /\ Applying(d.t, B, was, m, h)
             /\ IsTable(m) /\ StdOpen(m) /\ Agree(int, m, Std)
<1> DEFINE st == [t |-> t, backups |-> B]
           d == ApplyPersistently(r, st)
           m == Meant(int, r)
<1>0. /\ IsTable(t) /\ B \in Seq([fd : Std, saved : Own]) /\ Len(B) \in Nat
      /\ \A i, j \in 1 .. Len(B) : i # j => B[i].fd # B[j].fd
      /\ Agree(t, int, SavedOf(B)) /\ ClosedFrom(t, h + Len(B))
  BY DEF Applying, BackupsOK
<1>1. r.fd \in Std /\ r.fd \in Fds /\ r.kind # "close" /\ (r.kind \in Dups => r.target \in Std)
  BY Numbers DEF PlainOne
<1>2. \A n \in Std : t[n] = int[n] /\ t[n] # Closed
  BY <1>0, BackupTyped, Numbers DEF Agree, StdOpen, Own
<1>3. \E s : s # Closed /\ d = [t |-> Put(t, r.fd, s), backups |-> B] /\ m = Put(int, r.fd, s)
  <2>1. CASE r.kind \in Dups
    <3>1. t[r.target] # Closed /\ int[r.target] = t[r.target]
      BY <1>1, <1>2, <2>1
    <3>2. d = [t |-> Put(t, r.fd, t[r.target]), backups |-> B]
      BY <1>1, <2>1, <3>1 DEF ApplyPersistently, Dup2
    <3>3. m = Put(int, r.fd, t[r.target])
      BY <1>1, <2>1, <3>1 DEF Meant
    <3> QED
      BY <3>1, <3>2, <3>3
  <2>2. CASE r.kind \notin Dups
    <3>1. MoveTo(t, r) = Put(t, r.fd, Stream(r))
      <4>1. Len(B) <= 3
        BY <1>0, AtMostThree
      <4>2. h + Len(B) \in Fds
        BY <1>0, <4>1, Numbers
      <4>3. t[h + Len(B)] = Closed
        BY <1>0, <4>2 DEF ClosedFrom
      <4> QED
        BY <1>0, <1>1, <1>2, <4>2, <4>3, MoveToIs DEF StdOpen
    <3>2. d = [t |-> Put(t, r.fd, Stream(r)), backups |-> B]
      BY <1>1, <2>2, <3>1 DEF ApplyPersistently
    <3>3. m = Put(int, r.fd, Stream(r))
      BY <1>1, <2>2 DEF Meant
    <3> QED
      BY <3>2, <3>3, StreamOpen
  <2> QED
    BY <2>1, <2>2
<1>4. PICK s : s # Closed /\ d = [t |-> Put(t, r.fd, s), backups |-> B] /\ m = Put(int, r.fd, s)
  BY <1>3
<1> HIDE DEF d, m
<1>5. d.backups = B /\ d.t = Put(t, r.fd, s)
  BY <1>4
<1>6. Applying(d.t, B, was, m, h)
  BY <1>1, <1>4, <1>5, ChangeKeeps
<1>7. IsTable(m) /\ m[r.fd] = s /\ \A n \in Fds : n # r.fd => m[n] = int[n]
  BY <1>1, <1>4, PutAt
<1>8. StdOpen(m) /\ Agree(int, m, Std)
  BY <1>1, <1>4, <1>7, Numbers DEF StdOpen, Agree
<1> QED
  BY <1>5, <1>6, <1>7, <1>8 DEF d, m

\* A built-in's frame needs nothing but the numbers the shell keeps.
LEMMA FramesSame ==
  ASSUME NEW st, NEW t, NEW u, FramesKeep(st, t), Agree(t, u, Std)
  PROVE  FramesKeep(st, u)
<1>1. \A k \in 1 .. Len(st) : FrameKeeps(st[k], u)
  BY DEF FramesKeep, FrameKeeps, Agree, Own
<1> QED
  BY <1>1 DEF FramesKeep

\* Where the free numbers start while a command is under way
LEMMA Heights ==
  ASSUME produced \in 1 .. MaxCommands
  PROVE  /\ Height \in Nat /\ Height - 2 \in Nat /\ Height - 2 >= 3 /\ Height - 2 + 3 <= MaxFd
         /\ Height >= 3 /\ Height - 2 <= Height
<1>1. produced \in Nat /\ produced >= 1 /\ produced <= MaxCommands
  BY Numbers
<1>2. Height \in Nat /\ Height = 3 + 2 * produced
  BY <1>1 DEF Height
<1>3. Height >= 5 /\ Height + 1 <= 2 * MaxCommands + 4
  BY <1>1, <1>2, Numbers
<1> QED
  BY <1>2, <1>3, Numbers

\* What is free from h on is free from any later number on.
LEMMA FreeAbove ==
  ASSUME NEW t, NEW h \in Int, ClosedFrom(t, h), NEW k \in Int, h <= k
  PROVE  ClosedFrom(t, k)
BY Numbers DEF ClosedFrom

\* A table that changed on standard descriptors only
LEMMA FreeStill ==
  ASSUME NEW t, NEW u, NEW h \in Int, h >= 3, ClosedFrom(t, h), Agree(t, u, Std)
  PROVE  ClosedFrom(u, h)
BY Numbers DEF ClosedFrom, Agree

\* What exec finds when it takes a step
LEMMA ExecFinds ==
  ASSUME RedirectInv, plain, exec # NoExec
  PROVE  /\ pipeline = NoPipeline /\ produced \in 1 .. MaxCommands /\ ExecOK(exec, Over(exec.was, stray), table, Expected, Height - 2)
         /\ IsTable(table) /\ IsTable(Expected) /\ StdOpen(Expected)
         /\ FramesKeep(stack, Expected) /\ ClosedFrom(Expected, Height)
BY DEF RedirectInv, TablesKeep, Idle

\* What has to be shown of a step of exec
LEMMA ExecLeaves ==
  ASSUME UNCHANGED <<stack, pipeline, produced>>, pipeline = NoPipeline, produced \in 1 .. MaxCommands,
         FramesKeep(stack, Expected), ClosedFrom(Expected, Height),
         IsTable(table'), IsTable(Expected'), StdOpen(Expected'), Agree(Expected, Expected', Std),
         exec' # NoExec => ExecOK(exec', Over(exec'.was, stray'), table', Expected', Height - 2),
         exec' = NoExec => table' = Expected'
  PROVE  TablesKeep'
<1>1. Height' = Height
  BY DEF Height
<1>2. FramesKeep(stack, Expected')
  BY FramesSame
<1>3. ClosedFrom(Expected', Height)
  BY Heights, FreeStill
<1> QED
  BY <1>1, <1>2, <1>3 DEF TablesKeep, Idle

\* What is meant for a standard descriptor is meant for the expected table too.
LEMMA MeantOver ==
  ASSUME StraysKeep, NEW r, PlainOne(r), intended' = Meant(intended, r), UNCHANGED stray
  PROVE  Expected' = Meant(Expected, r)
<1>1. r.fd \in Std /\ r.fd \in Fds /\ stray[r.fd] = Closed /\ IsTable(intended)
  BY Numbers DEF PlainOne, StraysKeep
<1>2. r.kind \in Dups => r.target \in Fds /\ Expected[r.target] = intended[r.target]
  BY Numbers, ExpectedIs DEF PlainOne, StraysKeep, Std
<1>3. PICK x : Meant(intended, r) = Put(intended, r.fd, x) /\ Meant(Expected, r) = Put(Expected, r.fd, x)
  <2>1. CASE r.kind \in Dups
    BY <1>2, <2>1 DEF Meant, PlainOne
  <2>2. CASE r.kind \notin Dups
    BY <2>2 DEF Meant, PlainOne
  <2> QED
    BY <2>1, <2>2
<1>4. IsTable(intended') /\ \A m \in Fds : intended'[m] = IF m = r.fd THEN x ELSE intended[m]
  BY <1>1, <1>3, PutAt
<1>5. IsTable(Meant(Expected, r)) /\ \A m \in Fds : Meant(Expected, r)[m] = IF m = r.fd THEN x ELSE Expected[m]
  BY <1>1, <1>3, ExpectedIs, PutAt
<1>6. IsTable(Expected') /\ \A m \in Fds : Expected'[m] = IF stray[m] = Closed THEN intended'[m] ELSE stray[m]
  BY DEF Expected, IsTable
<1>7. \A m \in Fds : Expected'[m] = Meant(Expected, r)[m]
  BY <1>1, <1>4, <1>5, <1>6, ExpectedIs
<1> QED
  BY <1>5, <1>6, <1>7 DEF IsTable

\* exec applies one redirection, or meets one that fails.
LEMMA ExecRedirectsKeeps ==
  ASSUME RedirectInv, plain, ExecRedirects
  PROVE  TablesKeep'
<1> DEFINE e == exec
           w == Over(e.was, stray)
           h == Height - 2
           r == e.rs[e.i]
           st == Saved(r, [t |-> table, backups |-> e.backups])
           done == ApplyPersistently(r, st)
<1>1. e # NoExec /\ e.doing = "apply" /\ e.i <= Len(e.rs)
  BY DEF ExecRedirects
<1>2. /\ pipeline = NoPipeline /\ produced \in 1 .. MaxCommands /\ ExecOK(e, w, table, Expected, h)
      /\ IsTable(Expected) /\ StdOpen(Expected) /\ FramesKeep(stack, Expected) /\ ClosedFrom(Expected, Height)
  BY <1>1, ExecFinds
<1>3. h \in Nat /\ h >= 3 /\ h + 3 <= MaxFd
  BY <1>2, Heights
<1>4. /\ IF Fails(r, st.t)
         THEN /\ table' = st.t
              /\ exec' = [e EXCEPT !.backups = st.backups, !.doing = "rollback"]
              /\ intended' = e.was
         ELSE /\ table' = done.t
              /\ exec' = [e EXCEPT !.backups = done.backups, !.i = @ + 1]
              /\ intended' = Meant(intended, r)
      /\ UNCHANGED <<stack, pipeline, produced, stray, plain>>
  BY DEF ExecRedirects
<1> HIDE DEF h, e, w
<1>5. PlainOne(r)
  <2>1. e.i \in 1 .. Len(e.rs)
    BY <1>1, <1>2 DEF ExecOK
  <2> QED
    BY <1>2, <2>1 DEF Plain, PlainOne, ExecOK
<1> HIDE DEF r
<1>6. /\ st = [t |-> st.t, backups |-> st.backups]
      /\ Applying(st.t, st.backups, w, Expected, h) /\ r.fd \in FdsOf(st.backups)
  <2>1. Applying(table, e.backups, w, Expected, h) /\ StdOpen(w)
    BY <1>1, <1>2 DEF ExecOK
  <2> QED
    BY <1>2, <1>3, <1>5, <2>1, SavedKeeps
<1> HIDE DEF st, done
<1>7. /\ e = [rs |-> e.rs, i |-> e.i, backups |-> e.backups, doing |-> e.doing, was |-> e.was]
      /\ Len(e.rs) \in Nat /\ e.i \in Nat \ {0} /\ Plain(e.rs)
      /\ IsTable(e.was) /\ IsTable(w) /\ StdOpen(w) /\ Agree(w, Expected, Std) /\ ClosedFrom(w, h)
  BY <1>2 DEF ExecOK
<1>10. StraysKeep
  BY DEF RedirectInv
<1>8. CASE Fails(r, st.t)
  <2> DEFINE f == exec'
  <2>1. /\ f.rs = e.rs /\ f.i = e.i /\ f.backups = st.backups /\ f.doing = "rollback" /\ f.was = e.was
        /\ f = [rs |-> e.rs, i |-> e.i, backups |-> st.backups, doing |-> "rollback", was |-> e.was]
    BY <1>4, <1>7, <1>8
  <2>2. table' = st.t /\ Expected' = w /\ Over(f.was, stray') = w
    BY <1>4, <1>8, <2>1 DEF Expected, Over, w
  <2>3. /\ IsTable(st.t) /\ BackupsOK(st.t, st.backups, w)
        /\ Agree(st.t, Expected, SavedOf(st.backups)) /\ Agree(w, Expected, FdsOf(st.backups))
    BY <1>6 DEF Applying
  <2>4. Agree(st.t, w, SavedOf(st.backups) \union FdsOf(st.backups)) /\ Agree(Expected, w, Std)
    BY <1>7, <2>3 DEF Agree
  <2>5. Agree(w, w, Std)
    BY DEF Agree
  <2> HIDE DEF f
  <2>6. ExecOK(f, w, st.t, w, h)
    BY <1>7, <2>1, <2>3, <2>4, <2>5 DEF ExecOK
  <2>7. f # NoExec
    BY <2>1 DEF NoExec, None
  <2> QED
    BY <1>2, <1>4, <1>7, <2>2, <2>3, <2>4, <2>6, <2>7, ExecLeaves DEF f, h
<1>9. CASE ~ Fails(r, st.t)
  <2> DEFINE m == Meant(Expected, r)
             C == st.backups
             u == done.t
             f == exec'
  <2>1. /\ done.backups = C /\ Applying(u, C, w, m, h)
        /\ IsTable(m) /\ StdOpen(m) /\ Agree(Expected, m, Std)
    <3> DEFINE a == st.t
    <3>1. done = ApplyPersistently(r, [t |-> a, backups |-> C]) /\ Applying(a, C, w, Expected, h)
          /\ r.fd \in FdsOf(C) /\ ~ Fails(r, a)
      BY <1>6, <1>9 DEF done
    <3> HIDE DEF a, C
    <3> QED
      BY <1>2, <1>3, <1>5, <3>1, AppliedKeeps
  <2>2. /\ table' = u /\ intended' = Meant(intended, r) /\ UNCHANGED stray
        /\ f.rs = e.rs /\ f.i = e.i + 1 /\ f.backups = C /\ f.doing = "apply" /\ f.was = e.was
        /\ f = [rs |-> e.rs, i |-> e.i + 1, backups |-> C, doing |-> "apply", was |-> e.was]
    BY <1>1, <1>4, <1>7, <1>9, <2>1
  <2>7. Expected' = m
    BY <1>5, <1>10, <2>2, MeantOver
  <2>8. Over(f.was, stray') = w
    BY <2>2 DEF w
  <2> HIDE DEF m, C, u, f
  <2>3. Agree(w, m, Std)
    BY <1>7, <2>1 DEF Agree
  <2>4. e.i + 1 \in Nat \ {0} /\ IsTable(u) /\ BackupsOK(u, C, w)
    BY <1>7, <2>1 DEF Applying
  <2>5. ExecOK(f, w, u, m, h)
    BY <1>7, <2>1, <2>2, <2>3, <2>4 DEF ExecOK
  <2>6. f # NoExec
    BY <2>2 DEF NoExec, None
  <2> QED
    BY <1>2, <1>4, <2>1, <2>2, <2>4, <2>5, <2>6, <2>7, <2>8, ExecLeaves DEF f, h
<1> QED
  BY <1>8, <1>9

\* A command can start: nothing is under way and the table is the intended one.
LEMMA RunFinds ==
  ASSUME RedirectInv, plain, Idle
  PROVE  /\ exec = NoExec /\ pipeline = NoPipeline /\ table = Expected /\ produced \in Nat
         /\ IsTable(table) /\ IsTable(Expected) /\ StdOpen(Expected)
         /\ FramesKeep(stack, Expected) /\ ClosedFrom(Expected, Height) /\ Shaped(stack)
BY DEF RedirectInv, TablesKeep, Idle, InputInv

\* Each command raises the bound on open numbers by two.
LEMMA HeightNext ==
  ASSUME produced \in Nat, produced' = produced + 1
  PROVE  /\ Height' = Height + 2 /\ Height' - 2 = Height /\ Height \in Nat /\ Height >= 3
         /\ produced < MaxCommands => produced' \in 1 .. MaxCommands /\ Height + 5 <= MaxFd + 2
<1>1. Height = 3 + 2 * produced /\ Height' = 3 + 2 * (produced + 1)
  BY DEF Height
<1>2. Height \in Nat /\ Height >= 3
  BY <1>1
<1>3. produced < MaxCommands => 2 * produced + 2 <= 2 * MaxCommands
  BY Numbers
<1>4. MaxFd >= 2 * MaxCommands + 4 /\ MaxFd \in Nat /\ MaxCommands \in Nat
  BY Numbers
<1> QED
  BY <1>1, <1>2, <1>3, <1>4

\* exec without a command starts on its redirections.
LEMMA ExecKeeps ==
  ASSUME RedirectInv, NEW rs \in Lists(MaxRedirections), Exec(rs), plain'
  PROVE  TablesKeep'
<1>1. /\ plain /\ Plain(rs) /\ Idle /\ produced < MaxCommands /\ produced' = produced + 1
      /\ exec' = [rs |-> rs, i |-> 1, backups |-> <<>>, doing |-> "apply", was |-> intended]
      /\ UNCHANGED <<table, stack, pipeline, Expected, stray>>
  BY ExpectedSame DEF Exec, CanRun
<1>2. /\ exec = NoExec /\ pipeline = NoPipeline /\ table = Expected /\ produced \in Nat
      /\ IsTable(Expected) /\ StdOpen(Expected)
      /\ FramesKeep(stack, Expected) /\ ClosedFrom(Expected, Height)
  BY <1>1, RunFinds
<1>3. Height' - 2 = Height /\ Height \in Nat /\ Height <= Height' /\ produced' \in 1 .. MaxCommands /\ Height' \in Int
  BY <1>1, <1>2, HeightNext
<1> DEFINE h == Height
           e == exec'
<1>4. /\ e = [rs |-> rs, i |-> 1, backups |-> <<>>, doing |-> "apply", was |-> intended]
      /\ e.rs = rs /\ e.i = 1 /\ e.backups = <<>> /\ e.doing = "apply" /\ e.was = intended
  BY <1>1
<1>5. Len(rs) \in Nat
  BY ListLength, BoundsAssumption
<1>6. ClosedFrom(Expected, Height')
  BY <1>2, <1>3, FreeAbove
<1>14. IsTable(e.was)
  BY <1>1, <1>4 DEF RedirectInv, StraysKeep
<1>13. Over(e.was, stray') = Expected
  BY <1>1, <1>4, ExpectedIs
<1> HIDE DEF h, e
<1>7. BackupsOK(Expected, <<>>, Expected)
  BY DEF BackupsOK
<1>8. Agree(Expected, Expected, SavedOf(<<>>)) /\ Agree(Expected, Expected, FdsOf(<<>>)) /\ Agree(Expected, Expected, Std)
  BY DEF Agree
<1>9. h + Len(<<>>) = h
  BY <1>3 DEF h
<1>10. Applying(Expected, <<>>, Expected, Expected, h)
  BY <1>2, <1>7, <1>8, <1>9 DEF Applying, h
<1>11. ExecOK(e, Expected, Expected, Expected, h)
  BY <1>1, <1>2, <1>4, <1>5, <1>7, <1>8, <1>10, <1>14 DEF ExecOK, h
<1>12. e # NoExec
  BY <1>4 DEF NoExec, None
<1> QED
  BY <1>1, <1>2, <1>3, <1>6, <1>11, <1>12, <1>13 DEF TablesKeep, Idle, e, h

\* exec drops its backups and keeps what it changed.
LEMMA ExecSucceedsKeeps ==
  ASSUME RedirectInv, plain, ExecSucceeds
  PROVE  TablesKeep'
<1> DEFINE e == exec
           w == Over(e.was, stray)
           f == exec'
           h == Height - 2
<1>1. /\ e # NoExec /\ e.doing = "apply" /\ f = [e EXCEPT !.doing = "release"]
      /\ UNCHANGED <<table, stack, pipeline, produced, Expected, stray>>
  BY ExpectedSame DEF ExecSucceeds
<1>2. /\ pipeline = NoPipeline /\ produced \in 1 .. MaxCommands /\ ExecOK(e, w, table, Expected, h)
      /\ IsTable(table) /\ IsTable(Expected) /\ StdOpen(Expected)
      /\ FramesKeep(stack, Expected) /\ ClosedFrom(Expected, Height)
  BY <1>1, ExecFinds
<1> HIDE DEF e, f, h, w
<1>3. /\ e = [rs |-> e.rs, i |-> e.i, backups |-> e.backups, doing |-> e.doing, was |-> e.was]
      /\ Applying(table, e.backups, w, Expected, h)
  BY <1>1, <1>2 DEF ExecOK
<1>4. /\ f = [rs |-> e.rs, i |-> e.i, backups |-> e.backups, doing |-> "release", was |-> e.was]
      /\ f.rs = e.rs /\ f.i = e.i /\ f.backups = e.backups /\ f.doing = "release" /\ f.was = e.was
  BY <1>1, <1>3
<1>9. Over(f.was, stray') = w
  BY <1>1, <1>4 DEF w
<1>5. Agree(table, Expected, SavedOf(e.backups))
  BY <1>3 DEF Applying
<1>6. ExecOK(f, w, table, Expected, h)
  BY <1>2, <1>4, <1>5 DEF ExecOK
<1>7. f # NoExec
  BY <1>4 DEF NoExec, None
<1>8. Agree(Expected, Expected', Std)
  BY <1>1 DEF Agree
<1> QED
  BY <1>1, <1>2, <1>6, <1>7, <1>8, <1>9, ExecLeaves DEF f, h

\* The first backup is dropped, or put back, and the others stay.
LEMMA BackupDropped ==
  ASSUME NEW B \in Seq([fd : Std, saved : Own]), B # <<>>,
         \A i, j \in 1 .. Len(B) : i # j => B[i].fd # B[j].fd /\ B[i].saved # B[j].saved
  PROVE  /\ Len(B) \in Nat \ {0} /\ Head(B) = B[1] /\ B[1].fd \in Std /\ B[1].saved \in Own
         /\ Tail(B) \in Seq([fd : Std, saved : Own]) /\ Len(Tail(B)) = Len(B) - 1
         /\ \A i \in 1 .. Len(B) - 1 : Tail(B)[i] = B[i + 1] /\ i + 1 \in 1 .. Len(B) /\ i + 1 # 1
         /\ FdsOf(B) = FdsOf(Tail(B)) \union {B[1].fd} /\ SavedOf(B) = SavedOf(Tail(B)) \union {B[1].saved}
         /\ B[1].fd \notin FdsOf(Tail(B)) /\ B[1].saved \notin SavedOf(Tail(B))
<1> DEFINE n == Len(B)
           C == Tail(B)
<1>1. n \in Nat \ {0} /\ Head(B) = B[1]
  OBVIOUS
<1>2. C \in Seq([fd : Std, saved : Own]) /\ Len(C) = n - 1 /\ \A i \in 1 .. n - 1 : C[i] = B[i + 1]
  OBVIOUS
<1>3. B[1].fd \in Std /\ B[1].saved \in Own
  <2>1. 1 \in 1 .. Len(B)
    BY <1>1
  <2>2. \A i \in 1 .. Len(B) : B[i].fd \in Std /\ B[i].saved \in Own
    BY BackupTyped
  <2> QED
    BY <2>1, <2>2
<1> HIDE DEF C
<1>4. Len(B) = n
  OBVIOUS
<1> HIDE DEF n
<1>5. \A i \in 1 .. n - 1 : i + 1 \in 1 .. n /\ i + 1 # 1
  BY <1>1
<1>6. \A k \in 1 .. n : k = 1 \/ (k - 1 \in 1 .. n - 1 /\ C[k - 1] = B[k])
  BY <1>1, <1>2
<1>7. FdsOf(B) = FdsOf(C) \union {B[1].fd} /\ SavedOf(B) = SavedOf(C) \union {B[1].saved}
  <2>1. \A x : x \in FdsOf(B) <=> \E k \in 1 .. n : B[k].fd = x
    BY <1>4 DEF FdsOf
  <2>2. \A x : x \in FdsOf(C) <=> \E k \in 1 .. n - 1 : B[k + 1].fd = x
    BY <1>2 DEF FdsOf
  <2>3. \A x : x \in SavedOf(B) <=> \E k \in 1 .. n : B[k].saved = x
    BY <1>4 DEF SavedOf
  <2>4. \A x : x \in SavedOf(C) <=> \E k \in 1 .. n - 1 : B[k + 1].saved = x
    BY <1>2 DEF SavedOf
  <2>5. \A k \in 1 .. n : k = 1 \/ (k - 1 \in 1 .. n - 1 /\ (k - 1) + 1 = k)
    BY <1>1
  <2>6. 1 \in 1 .. n
    BY <1>1
  <2> QED
    BY <1>5, <2>1, <2>2, <2>3, <2>4, <2>5, <2>6
<1>8. B[1].fd \notin FdsOf(C) /\ B[1].saved \notin SavedOf(C)
  <2>1. 1 \in 1 .. n
    BY <1>1
  <2> QED
    BY <1>2, <1>4, <1>5, <2>1 DEF FdsOf, SavedOf
<1> QED
  BY <1>1, <1>2, <1>3, <1>4, <1>5, <1>7, <1>8 DEF C

\* A backup that is put back: its descriptor has what it was, its number is free.
LEMMA RestoredAt ==
  ASSUME NEW t, IsTable(t), NEW b, b.fd \in Std, b.saved \in Own, t[b.saved] # Closed
  PROVE  LET u == Restored(t, b)
         IN  /\ IsTable(u) /\ u[b.fd] = t[b.saved] /\ u[b.saved] = Closed
             /\ \A m \in Fds : m # b.fd /\ m # b.saved => u[m] = t[m]
<1> DEFINE t1 == Dup2(t, b.saved, b.fd)
           u == Close(t1, b.saved)
<1>1. b.fd \in Fds /\ b.saved \in Fds /\ b.fd # b.saved /\ b.saved >= 0 /\ b.saved # -1
  BY Numbers DEF Own
<1>2. Restored(t, b) = u
  BY <1>1 DEF Restored
<1>3. IsTable(t1) /\ t1[b.fd] = t[b.saved] /\ \A m \in Fds : m # b.fd => t1[m] = t[m]
  BY <1>1, Dup2At
<1> HIDE DEF t1
<1>4. IsTable(u) /\ u[b.saved] = Closed /\ \A m \in Fds : m # b.saved => u[m] = t1[m]
  BY <1>1, <1>3, CloseAt
<1> HIDE DEF u
<1> QED
  BY <1>1, <1>2, <1>3, <1>4

\* An exec that failed puts back one backup at a time.
LEMMA ExecUnwindsKeeps ==
  ASSUME RedirectInv, plain, ExecUnwinds
  PROVE  TablesKeep'
<1> DEFINE e == exec
           w == Over(e.was, stray)
           f == exec'
           h == Height - 2
           B == e.backups
           b == Head(B)
<1>1. /\ e # NoExec /\ e.doing # "apply"
      /\ UNCHANGED <<stack, pipeline, produced, Expected, stray>>
      /\ IF B = <<>> THEN f = NoExec /\ table' = table
         ELSE /\ table' = IF e.doing = "rollback" THEN Restored(table, b) ELSE Released(table, b)
              /\ f = [e EXCEPT !.backups = Tail(@)]
  BY ExpectedSame DEF ExecUnwinds
<1>2. /\ pipeline = NoPipeline /\ produced \in 1 .. MaxCommands /\ ExecOK(e, w, table, Expected, h)
      /\ IsTable(table) /\ IsTable(Expected) /\ StdOpen(Expected)
      /\ FramesKeep(stack, Expected) /\ ClosedFrom(Expected, Height)
  BY <1>1, ExecFinds
<1> HIDE DEF e, f, h, w
<1>3. /\ e = [rs |-> e.rs, i |-> e.i, backups |-> B, doing |-> e.doing, was |-> e.was]
      /\ e.doing \in {"release", "rollback"}
      /\ e.doing = "release" => Agree(table, Expected, SavedOf(B))
      /\ e.doing = "rollback" => Expected = w /\ Agree(table, w, SavedOf(B) \union FdsOf(B))
  BY <1>1, <1>2 DEF ExecOK
<1>4. /\ B \in Seq([fd : Std, saved : Own])
      /\ \A i, j \in 1 .. Len(B) : i # j => B[i].fd # B[j].fd /\ B[i].saved # B[j].saved
      /\ \A i \in 1 .. Len(B) : table[B[i].saved] = w[B[i].fd] /\ w[B[i].saved] = Closed
      /\ StdOpen(w) /\ Agree(w, Expected, Std) /\ IsTable(w)
  BY <1>2 DEF ExecOK, BackupsOK
<1>5. Agree(Expected, Expected', Std)
  BY <1>1 DEF Agree
<1>6. CASE B = <<>>
  <2>1. SavedOf(B) = {} /\ FdsOf(B) = {}
    BY <1>6 DEF SavedOf, FdsOf
  <2>2. \A n \in Fds : table[n] = Expected[n]
    BY <1>3, <2>1 DEF Agree
  <2>3. table = Expected
    BY <1>2, <2>2 DEF IsTable
  <2> QED
    BY <1>1, <1>2, <1>5, <1>6, <2>3, ExecLeaves DEF f, h
<1>7. CASE B # <<>>
  <2> DEFINE C == Tail(B)
             u == table'
             n == Len(B)
  <2>1. /\ n \in Nat \ {0} /\ b = B[1] /\ b.fd \in Std /\ b.saved \in Own
        /\ C \in Seq([fd : Std, saved : Own]) /\ Len(C) = n - 1
        /\ \A i \in 1 .. n - 1 : C[i] = B[i + 1] /\ i + 1 \in 1 .. n /\ i + 1 # 1
        /\ FdsOf(B) = FdsOf(C) \union {b.fd} /\ SavedOf(B) = SavedOf(C) \union {b.saved}
        /\ b.fd \notin FdsOf(C) /\ b.saved \notin SavedOf(C)
    BY <1>4, <1>7, BackupDropped
  <2>2. /\ f = [rs |-> e.rs, i |-> e.i, backups |-> C, doing |-> e.doing, was |-> e.was]
        /\ f.rs = e.rs /\ f.i = e.i /\ f.backups = C /\ f.doing = e.doing /\ f.was = e.was
    BY <1>1, <1>3, <1>7
  <2>3. u = IF e.doing = "rollback" THEN Restored(table, b) ELSE Released(table, b)
    BY <1>1, <1>7
  <2> HIDE DEF b, C, u
  <2>4. table[b.saved] = w[b.fd] /\ w[b.saved] = Closed /\ w[b.fd] # Closed
    <3>1. 1 \in 1 .. n
      BY <2>1
    <3> QED
      BY <1>4, <2>1, <3>1 DEF StdOpen
  <2>5. /\ IsTable(u) /\ u[b.saved] = Closed
        /\ e.doing = "rollback" => u[b.fd] = w[b.fd]
        /\ \A m \in Fds : m # b.saved /\ (e.doing = "rollback" => m # b.fd) => u[m] = table[m]
    <3>1. CASE e.doing = "rollback"
      BY <1>2, <2>1, <2>3, <2>4, <3>1, RestoredAt
    <3>2. CASE e.doing # "rollback"
      <4>1. b.saved \in Fds \union {-1} /\ b.saved # -1
        BY <2>1, Numbers DEF Own
      <4>2. u = Close(table, b.saved)
        BY <2>3, <3>2 DEF Released
      <4> QED
        BY <1>2, <3>2, <4>1, <4>2, CloseAt
    <3> QED
      BY <3>1, <3>2
  <2>6. \A i \in 1 .. n - 1 : C[i].saved \in SavedOf(C) /\ C[i].saved \in Own
    BY <2>1, BackupTyped DEF SavedOf
  <2>7. BackupsOK(u, C, w)
    <3>1. \A i, j \in 1 .. Len(C) : i # j => C[i].fd # C[j].fd /\ C[i].saved # C[j].saved
      <4>1. SUFFICES ASSUME NEW i \in 1 .. n - 1, NEW j \in 1 .. n - 1, i # j
                     PROVE  C[i].fd # C[j].fd /\ C[i].saved # C[j].saved
        BY <2>1
      <4>2. C[i] = B[i + 1] /\ C[j] = B[j + 1]
        BY <2>1, <4>1
      <4>3. i + 1 \in 1 .. n /\ j + 1 \in 1 .. n /\ i + 1 # j + 1
        BY <2>1, <4>1
      <4> QED
        BY <1>4, <4>2, <4>3
    <3>2. \A i \in 1 .. Len(C) : u[C[i].saved] = w[C[i].fd] /\ w[C[i].saved] = Closed
      <4>1. SUFFICES ASSUME NEW i \in 1 .. n - 1
                     PROVE  u[C[i].saved] = w[C[i].fd] /\ w[C[i].saved] = Closed
        BY <2>1
      <4>2. i + 1 \in 1 .. n /\ C[i] = B[i + 1]
        BY <2>1
      <4>3. table[C[i].saved] = w[C[i].fd] /\ w[C[i].saved] = Closed
        BY <1>4, <4>2
      <4>4. C[i].saved # b.saved /\ C[i].saved \in Fds /\ C[i].saved # b.fd
        BY <2>1, <2>6 DEF Own
      <4> QED
        BY <2>5, <4>3, <4>4
    <3> QED
      BY <2>1, <3>1, <3>2 DEF BackupsOK
  <2>8. e.doing = "release" => Agree(u, Expected, SavedOf(C))
    <3>1. SUFFICES ASSUME e.doing = "release", NEW m \in Fds, m \notin SavedOf(C) PROVE u[m] = Expected[m]
      BY DEF Agree
    <3>2. CASE m = b.saved
      <4>1. b.saved \notin Std
        BY <2>1 DEF Own
      <4> QED
        BY <1>4, <2>4, <2>5, <3>2, <4>1 DEF Agree
    <3>3. CASE m # b.saved
      BY <1>3, <2>1, <2>5, <3>1, <3>3 DEF Agree
    <3> QED
      BY <3>2, <3>3
  <2>9. e.doing = "rollback" => Expected = w /\ Agree(u, w, SavedOf(C) \union FdsOf(C))
    <3>1. SUFFICES ASSUME e.doing = "rollback", NEW m \in Fds, m \notin SavedOf(C) \union FdsOf(C)
                   PROVE  u[m] = w[m]
      BY <1>3 DEF Agree
    <3>2. CASE m = b.saved
      BY <2>4, <2>5, <3>2
    <3>3. CASE m = b.fd
      BY <2>5, <3>1, <3>3
    <3>4. CASE m # b.saved /\ m # b.fd
      BY <1>3, <2>1, <2>5, <3>1, <3>4 DEF Agree
    <3> QED
      BY <3>2, <3>3, <3>4
  <2>10. ExecOK(f, w, u, Expected, h)
    BY <1>2, <1>3, <2>2, <2>7, <2>8, <2>9 DEF ExecOK
  <2>11. f # NoExec
    BY <1>3, <2>2 DEF NoExec, None
  <2>12. Over(f.was, stray') = w
    BY <1>1, <2>2 DEF w
  <2> QED
    BY <1>1, <1>2, <1>5, <2>5, <2>10, <2>11, <2>12, ExecLeaves DEF f, h, u
<1> QED
  BY <1>6, <1>7

-----------------------------------------------------------------------------
(* Built-ins and groups *)

\* What has to be shown of a step with nothing under way after it
LEMMA IdleLeaves ==
  ASSUME exec' = NoExec, pipeline' = NoPipeline, table' = Expected',
         IsTable(Expected'), StdOpen(Expected'), ClosedFrom(Expected', Height'), FramesKeep(stack', Expected')
  PROVE  TablesKeep'
BY DEF TablesKeep, Idle

\* A frame needs its saved number only, and that number is open.
LEMMA FramesKept ==
  ASSUME NEW st, NEW t, NEW u, FramesKeep(st, t), \A n \in Own : t[n] # Closed => u[n] = t[n]
  PROVE  FramesKeep(st, u)
<1>1. \A k \in 1 .. Len(st) : FrameKeeps(st[k], u)
  BY Numbers DEF FramesKeep, FrameKeeps
<1> QED
  BY <1>1 DEF FramesKeep

\* A new frame keeps what the frames below it saved.
LEMMA FramePushed ==
  ASSUME NEW st, Shaped(st), NEW t, NEW u, FramesKeep(st, t), NEW f, FrameKeeps(f, u),
         \A n \in Own : t[n] # Closed => u[n] = t[n] /\ n \notin {f.saved, f.file}
  PROVE  FramesKeep(Append(st, f), u)
<1> DEFINE v == Append(st, f)
           n == Len(st)
<1>1. n \in Nat /\ Len(v) = n + 1 /\ v[n + 1] = f /\ (\A i \in 1 .. n : v[i] = st[i]) /\ n = Len(st)
  BY AppendAny, SeqFacts DEF Shaped
<1>2. FramesKeep(st, u)
  BY FramesKept
<1> HIDE DEF v, n
<1>3. SUFFICES ASSUME NEW k \in 1 .. n + 1
               PROVE  /\ FrameKeeps(v[k], u)
                      /\ \A j \in 1 .. k - 1 : Distinct(v[j], v[k])
  BY <1>1 DEF FramesKeep, v
<1>4. CASE k = n + 1
  <2>1. SUFFICES ASSUME NEW j \in 1 .. n PROVE Distinct(st[j], f)
    BY <1>1, <1>4
  <2>2. FrameKeeps(st[j], t)
    BY <1>1 DEF FramesKeep
  <2>3. \A m \in {st[j].saved, st[j].file} : m # -1 => m \in Own /\ t[m] # Closed
    BY <2>2 DEF FrameKeeps
  <2> QED
    BY <2>3 DEF Distinct
<1>5. CASE k # n + 1
  <2>1. k \in 1 .. n /\ v[k] = st[k] /\ \A j \in 1 .. k - 1 : v[j] = st[j]
    BY <1>1, <1>5
  <2> QED
    BY <1>1, <1>2, <2>1 DEF FramesKeep
<1> QED
  BY <1>4, <1>5

\* The innermost frame ends: the others keep their numbers.
LEMMA FramePopped ==
  ASSUME NEW st, Shaped(st), st # <<>>, NEW v, SameFrames(Front(st), v), NEW t, NEW u, FramesKeep(st, t),
         \A n \in Own : n \notin {st[Len(st)].saved, st[Len(st)].file} => u[n] = t[n]
  PROVE  FramesKeep(v, u) /\ FrameKeeps(st[Len(st)], t)
<1> DEFINE n == Len(st)
           w == Front(st)
<1>1. /\ n \in Nat \ {0} /\ n = Len(st) /\ Len(w) = n - 1
      /\ \A i \in 1 .. n - 1 : w[i] = st[i]
  <2>1. w = Shorter(st)
    BY DEF Front, Shorter
  <2> QED
    BY <2>1, ShorterAny DEF Shaped
<1> HIDE DEF n, w
<1>2. /\ Len(v) = n - 1
      /\ \A k \in 1 .. n - 1 : v[k].saved = st[k].saved /\ v[k].file = st[k].file /\ v[k].was = st[k].was
  BY <1>1 DEF SameFrames, w
<1>3. FrameKeeps(st[n], t) /\ \A j \in 1 .. n - 1 : Distinct(st[j], st[n])
  <2>1. n \in 1 .. n
    BY <1>1
  <2> QED
    BY <1>1, <2>1 DEF FramesKeep
<1>4. SUFFICES ASSUME NEW k \in 1 .. n - 1
               PROVE  /\ FrameKeeps(v[k], u)
                      /\ \A j \in 1 .. k - 1 : Distinct(v[j], v[k])
  BY <1>1, <1>2, <1>3 DEF FramesKeep
<1>5. k \in 1 .. n /\ \A j \in 1 .. k - 1 : j \in 1 .. n - 1
  BY <1>1
<1>6. FrameKeeps(st[k], t) /\ \A j \in 1 .. k - 1 : Distinct(st[j], st[k])
  BY <1>1, <1>5 DEF FramesKeep
<1>7. FrameKeeps(v[k], u)
  <2>1. \A m \in {st[k].saved, st[k].file} : m \in Own => u[m] = t[m]
    BY <1>1, <1>3, Numbers DEF Distinct
  <2> QED
    BY <1>2, <1>6, <2>1 DEF FrameKeeps
<1> QED
  BY <1>2, <1>5, <1>6, <1>7 DEF Distinct

\* A group changes the input of its commands and no descriptor.
LEMMA GroupKeeps ==
  ASSUME RedirectInv, plain, NEW rs \in Lists(MaxRedirections), Group(rs)
  PROVE  TablesKeep'
<1> DEFINE f == Frame("group", rs, -1, -1, intended)
<1>1. /\ Idle /\ produced' = produced + 1 /\ stack' = Append(stack, f)
      /\ UNCHANGED <<table, exec, pipeline, Expected>>
  BY ExpectedSame DEF Group, CanRun
<1>2. /\ exec = NoExec /\ pipeline = NoPipeline /\ table = Expected /\ produced \in Nat
      /\ IsTable(Expected) /\ StdOpen(Expected)
      /\ FramesKeep(stack, Expected) /\ ClosedFrom(Expected, Height) /\ Shaped(stack)
  BY <1>1, RunFinds
<1>3. f.saved = -1 /\ f.file = -1
  BY NewFrame
<1> HIDE DEF f
<1>4. FrameKeeps(f, Expected) /\ -1 \notin Own
  BY <1>3, Numbers DEF FrameKeeps
<1>5. FramesKeep(stack', Expected)
  BY <1>1, <1>2, <1>3, <1>4, FramePushed
<1>6. ClosedFrom(Expected, Height')
  <2>1. Height' = Height + 2 /\ Height \in Nat
    BY <1>1, <1>2, HeightNext
  <2> QED
    BY <1>2, <2>1, FreeAbove
<1> QED
  BY <1>1, <1>2, <1>5, <1>6, IdleLeaves

\* Popping keeps the shape of the frames.
LEMMA FrontShaped ==
  ASSUME NEW st, Shaped(st), st # <<>>
  PROVE  Shaped(Front(st))
<1> DEFINE w == Front(st)
           n == Len(st)
<1>1. w = Shorter(st)
  BY DEF Front, Shorter
<1>2. IsSeq(w) /\ Len(w) = n - 1 /\ n \in Nat /\ \A i \in 1 .. n - 1 : w[i] = st[i]
  BY <1>1, ShorterAny DEF Shaped
<1>3. \A i \in 1 .. n : IsFrame(st[i])
  BY DEF Shaped
<1> HIDE DEF w, n
<1> QED
  BY <1>2, <1>3 DEF Shaped, w

\* A group ends and gives the input back.
LEMMA GroupEndsKeeps ==
  ASSUME RedirectInv, plain, NEW ok \in BOOLEAN, GroupEnds(ok)
  PROVE  TablesKeep'
<1>1. PICK text : Emit(Front(stack), text)
  BY Zenon DEF GroupEnds
<1>2. /\ Idle /\ stack # <<>> /\ UNCHANGED <<table, exec, pipeline, produced, Expected>>
  BY ExpectedSame DEF GroupEnds
<1>3. /\ exec = NoExec /\ pipeline = NoPipeline /\ table = Expected
      /\ IsTable(Expected) /\ StdOpen(Expected)
      /\ FramesKeep(stack, Expected) /\ ClosedFrom(Expected, Height) /\ Shaped(stack)
  BY <1>2, RunFinds
<1>4. SameFrames(Front(stack), stack')
  BY <1>1, <1>2, <1>3, FrontShaped, EmitSame
<1>5. FramesKeep(stack', Expected)
  BY <1>2, <1>3, <1>4, FramePopped
<1>6. Height' = Height
  BY <1>2 DEF Height
<1> QED
  BY <1>2, <1>3, <1>5, <1>6, IdleLeaves

\* The numbers a built-in takes: one for its saved input, one for the file.
LEMMA Taken ==
  ASSUME NEW t, IsTable(t), StdOpen(t), NEW h \in Nat, h >= 3, h + 1 <= MaxFd, ClosedFrom(t, h), NEW s
  PROVE  LET n == Lowest(t)
             u == Put(t, n, s)
             k == Lowest(u)
         IN  /\ n \in Own /\ n <= h /\ t[n] = Closed
             /\ s # Closed => k \in Own /\ k <= h + 1 /\ k # n /\ t[k] = Closed
<1> DEFINE n == Lowest(t)
           u == Put(t, n, s)
           k == Lowest(u)
<1>1. h \in Fds /\ h + 1 \in Fds /\ t[h] = Closed /\ t[h + 1] = Closed
  BY Numbers DEF ClosedFrom
<1>2. n \in Fds /\ t[n] = Closed /\ n <= h
  BY <1>1, LowestFree
<1> HIDE DEF n
<1>3. n \in Own
  BY <1>2 DEF StdOpen, Own
<1>4. IsTable(u) /\ u[n] = s /\ \A m \in Fds : m # n => u[m] = t[m]
  BY <1>2, PutAt
<1> HIDE DEF u
<1>5. ASSUME s # Closed
      PROVE  k \in Own /\ k <= h + 1 /\ k # n /\ t[k] = Closed
  <2>1. u[h + 1] = Closed
    BY <1>1, <1>2, <1>4, Numbers
  <2>2. k \in Fds /\ u[k] = Closed /\ k <= h + 1
    BY <1>1, <2>1, LowestFree
  <2> HIDE DEF k
  <2>3. k # n /\ t[k] = Closed
    BY <1>4, <1>5, <2>2
  <2> QED
    BY <2>2, <2>3 DEF StdOpen, Own
<1> QED
  BY <1>2, <1>3, <1>5 DEF n, u, k

\* A built-in moves its standard input away for a file.
LEMMA BuiltinKeeps ==
  ASSUME RedirectInv, plain, NEW rs \in Lists(MaxRedirections), Builtin(rs)
  PROVE  TablesKeep'
<1> DEFINE r == StdinOf(rs)
           saved == Lowest(table)
           t1 == Put(table, saved, table[0])
           file == Lowest(t1)
           h == Height
           t == table
<1>1. /\ Idle /\ produced < MaxCommands /\ produced' = produced + 1
      /\ UNCHANGED <<exec, pipeline, stray>>
  BY DEF Builtin, CanRun
<1>2. /\ exec = NoExec /\ pipeline = NoPipeline /\ table = Expected /\ produced \in Nat
      /\ IsTable(Expected) /\ StdOpen(Expected)
      /\ FramesKeep(stack, Expected) /\ ClosedFrom(Expected, Height) /\ Shaped(stack)
  BY <1>1, RunFinds
<1>3. h \in Nat /\ h >= 3 /\ h + 3 <= MaxFd /\ Height' = h + 2
  BY <1>1, <1>2, HeightNext, Numbers
<1>4. 0 \in Std /\ 0 \in Fds /\ table[0] # Closed
  BY <1>2, Numbers DEF StdOpen
<1>5. OpensFile(r) => r # NoInput
  BY DEF OpensFile
<1>6. /\ stack' = Append(stack, Frame("builtin", rs, IF r = NoInput THEN -1 ELSE saved,
                        IF OpensFile(r) THEN Lowest(IF r = NoInput THEN table ELSE t1) ELSE -1, intended))
      /\ intended' = [n \in Fds |->
           CASE r # NoInput /\ n = saved         -> intended[0]
             [] OpensFile(r) /\ n \in {0, Lowest(IF r = NoInput THEN table ELSE t1)} -> Stream(r)
             [] OTHER                          -> intended[n]]
      /\ table' = IF OpensFile(r) THEN LET a == IF r = NoInput THEN table ELSE t1
                                       IN Dup2(Put(a, Lowest(a), Stream(r)), Lowest(a), 0)
                  ELSE IF r = NoInput THEN table ELSE t1
  BY DEF Builtin
<1>7. saved \in Own /\ saved <= h /\ t[saved] = Closed /\ saved \in Fds /\ saved # 0
  BY <1>2, <1>3, Taken, Numbers DEF Own
<1>8. file \in Own /\ file <= h + 1 /\ file # saved /\ t[file] = Closed /\ file \in Fds /\ file # 0
  BY <1>2, <1>3, <1>4, Taken, Numbers DEF Own
<1>9. IsTable(t1) /\ t1[saved] = t[0] /\ \A m \in Fds : m # saved => t1[m] = t[m]
  <2> HIDE DEF saved
  <2> QED
    BY <1>2, <1>7, PutAt
<1>10. IsTable(Expected')
  BY DEF Expected, IsTable
<1>15. \A n \in Fds : Expected'[n] = IF stray[n] = Closed THEN intended'[n] ELSE stray[n]
  BY <1>1 DEF Expected
<1>16. /\ stray[saved] = Closed /\ stray[file] = Closed /\ stray[0] = Closed
       /\ \A n \in {0, saved, file} : Expected[n] = intended[n]
  BY <1>2, <1>4, <1>7, <1>8, ExpectedIs, StreamOpen DEF StraysKeep, RedirectInv
<1>17. \A n \in Fds : Expected'[n] =
         CASE r # NoInput /\ n = saved -> Expected[0]
           [] OpensFile(r) /\ n \in {0, Lowest(IF r = NoInput THEN table ELSE t1)} -> Stream(r)
           [] OTHER -> Expected[n]
  BY <1>5, <1>6, <1>15, <1>16, ExpectedIs DEF file
<1>18. intended[0] = Expected[0] /\ intended[saved] = Expected[saved] /\ intended[file] = Expected[file]
  BY <1>16
<1>11. \A mine, its : LET f == Frame("builtin", rs, mine, its, intended)
                      IN  f.saved = mine /\ f.file = its /\ f.was = intended
  BY NewFrame
<1> HIDE DEF r, saved, t1, file, h
<1>12. CASE r = NoInput
  <2>1. /\ stack' = Append(stack, Frame("builtin", rs, -1, -1, intended)) /\ table' = table
        /\ \A n \in Fds : Expected'[n] = Expected[n]
    BY <1>5, <1>6, <1>12, <1>17
  <2>2. Expected' = Expected
    BY <1>2, <1>10, <2>1 DEF IsTable
  <2> DEFINE f == Frame("builtin", rs, -1, -1, intended)
  <2>3. f.saved = -1 /\ f.file = -1
    BY <1>11
  <2> HIDE DEF f
  <2>4. FrameKeeps(f, Expected) /\ -1 \notin Own /\ stack' = Append(stack, f)
    BY <2>1, <2>3, Numbers DEF FrameKeeps, f
  <2>5. FramesKeep(stack', Expected)
    BY <1>2, <2>3, <2>4, FramePushed
  <2>6. ClosedFrom(Expected, Height')
    BY <1>2, <1>3, FreeAbove DEF h
  <2> QED
    BY <1>1, <1>2, <2>1, <2>2, <2>5, <2>6, IdleLeaves
<1>13. CASE r # NoInput /\ ~ OpensFile(r)
  <2> DEFINE f == Frame("builtin", rs, saved, -1, intended)
             u == Expected'
  <2>1. /\ stack' = Append(stack, f) /\ table' = t1
        /\ u[saved] = Expected[0] /\ \A n \in Fds : n # saved => u[n] = Expected[n]
    BY <1>6, <1>7, <1>13, <1>17
  <2>2. f.saved = saved /\ f.file = -1 /\ f.was = intended
    BY <1>11
  <2> HIDE DEF f, u
  <2>3. \A n \in Fds : u[n] = t1[n]
    BY <1>2, <1>9, <2>1
  <2>4. u = t1
    BY <1>9, <1>10, <2>3 DEF IsTable, u
  <2>5. StdOpen(u)
    BY <1>2, <1>7, <2>1, Numbers DEF StdOpen, Own
  <2>6. ClosedFrom(u, h + 2)
    <3>1. SUFFICES ASSUME NEW n \in Fds, n >= h + 2 PROVE u[n] = Closed
      BY DEF ClosedFrom
    <3>2. n # saved /\ n >= h
      BY <1>3, <1>7, <3>1, Numbers
    <3> QED
      BY <1>2, <2>1, <3>2 DEF ClosedFrom, h
  <2>7. FrameKeeps(f, u)
    BY <1>2, <1>4, <1>7, <1>18, <2>1, <2>2 DEF FrameKeeps
  <2>8. \A n \in Own : Expected[n] # Closed => u[n] = Expected[n] /\ n \notin {f.saved, f.file}
    BY <1>2, <1>7, <2>1, <2>2, Numbers DEF Own
  <2>9. FramesKeep(stack', u)
    BY <1>2, <2>1, <2>7, <2>8, FramePushed
  <2> QED
    BY <1>1, <1>2, <1>3, <1>10, <2>1, <2>4, <2>5, <2>6, <2>9, IdleLeaves DEF u
<1>14. CASE OpensFile(r)
  <2> DEFINE f == Frame("builtin", rs, saved, file, intended)
             u == Expected'
             s == Stream(r)
             t2 == Put(t1, file, s)
             t3 == Dup2(t2, file, 0)
  <2>1. /\ stack' = Append(stack, f) /\ table' = t3
        /\ u[saved] = Expected[0] /\ u[0] = s /\ u[file] = s
        /\ \A n \in Fds : n # saved /\ n # 0 /\ n # file => u[n] = Expected[n]
    BY <1>4, <1>5, <1>6, <1>7, <1>8, <1>14, <1>17 DEF file
  <2>2. f.saved = saved /\ f.file = file /\ f.was = intended
    BY <1>11
  <2>3. s # Closed
    BY StreamOpen
  <2> HIDE DEF f, u, s
  <2>4. IsTable(t2) /\ t2[file] = s /\ \A m \in Fds : m # file => t2[m] = t1[m]
    BY <1>8, <1>9, PutAt
  <2> HIDE DEF t2
  <2>5. IsTable(t3) /\ t3[0] = s /\ \A m \in Fds : m # 0 => t3[m] = t2[m]
    BY <1>4, <2>3, <2>4, Dup2At
  <2> HIDE DEF t3
  <2>6. \A n \in Fds : u[n] = t3[n]
    BY <1>2, <1>4, <1>7, <1>8, <1>9, <2>1, <2>4, <2>5
  <2>7. u = t3
    BY <1>10, <2>5, <2>6 DEF IsTable, u
  <2>8. StdOpen(u)
    BY <1>2, <1>7, <1>8, <2>1, <2>3, Numbers DEF StdOpen, Own
  <2>9. ClosedFrom(u, h + 2)
    <3>1. SUFFICES ASSUME NEW n \in Fds, n >= h + 2 PROVE u[n] = Closed
      BY DEF ClosedFrom
    <3>2. n # saved /\ n # file /\ n # 0 /\ n >= h
      BY <1>3, <1>7, <1>8, <3>1, Numbers
    <3> QED
      BY <1>2, <2>1, <3>2 DEF ClosedFrom, h
  <2>10. FrameKeeps(f, u)
    BY <1>2, <1>4, <1>7, <1>8, <1>18, <2>1, <2>2, <2>3 DEF FrameKeeps
  <2>11. \A n \in Own : Expected[n] # Closed => u[n] = Expected[n] /\ n \notin {f.saved, f.file}
    BY <1>2, <1>4, <1>7, <1>8, <2>1, <2>2 DEF Own
  <2>12. FramesKeep(stack', u)
    BY <1>2, <2>1, <2>10, <2>11, FramePushed
  <2> QED
    BY <1>1, <1>2, <1>3, <1>10, <2>1, <2>7, <2>8, <2>9, <2>12, IdleLeaves DEF u
<1> QED
  BY <1>12, <1>13, <1>14

\* A built-in whose input cannot be replaced leaves the table as it was.
LEMMA BuiltinUnredirectedKeeps ==
  ASSUME RedirectInv, plain, NEW rs \in Lists(MaxRedirections), BuiltinUnredirected(rs)
  PROVE  TablesKeep'
<1> DEFINE t == table
           n == Lowest(t)
           t1 == Put(t, n, t[0])
           t2 == Dup2(t1, n, 0)
           t3 == Close(t2, n)
<1>1. /\ Idle /\ produced < MaxCommands /\ produced' = produced + 1
      /\ UNCHANGED <<stack, exec, pipeline, Expected>> /\ table' \in {t, t3}
  BY ExpectedSame DEF BuiltinUnredirected, CanRun
<1>2. /\ exec = NoExec /\ pipeline = NoPipeline /\ table = Expected /\ produced \in Nat
      /\ IsTable(t) /\ StdOpen(t)
      /\ FramesKeep(stack, Expected) /\ ClosedFrom(t, Height)
  BY <1>1, RunFinds
<1>3. Height \in Nat /\ Height >= 3 /\ Height + 3 <= MaxFd /\ Height' = Height + 2
  BY <1>1, <1>2, HeightNext, Numbers
<1>4. n \in Own /\ t[n] = Closed /\ n \in Fds /\ n # 0 /\ 0 \in Fds /\ t[0] # Closed /\ n # -1
  BY <1>2, <1>3, Taken, Numbers DEF Own, StdOpen
<1> HIDE DEF n
<1>5. IsTable(t1) /\ t1[n] = t[0] /\ \A m \in Fds : m # n => t1[m] = t[m]
  BY <1>2, <1>4, PutAt
<1> HIDE DEF t1
<1>6. IsTable(t2) /\ t2[0] = t1[n] /\ \A m \in Fds : m # 0 => t2[m] = t1[m]
  BY <1>4, <1>5, Dup2At
<1> HIDE DEF t2
<1>7. IsTable(t3) /\ t3[n] = Closed /\ \A m \in Fds : m # n => t3[m] = t2[m]
  BY <1>4, <1>6, CloseAt
<1> HIDE DEF t3
<1>8. \A m \in Fds : t3[m] = t[m]
  BY <1>4, <1>5, <1>6, <1>7
<1>9. table' = Expected'
  BY <1>1, <1>2, <1>7, <1>8 DEF IsTable
<1>10. ClosedFrom(Expected', Height')
  BY <1>1, <1>2, <1>3, FreeAbove
<1> QED
  BY <1>1, <1>2, <1>9, <1>10, IdleLeaves

\* The input of a built-in comes back, and the numbers it used are free again.
LEMMA BuiltinEndsKeeps ==
  ASSUME RedirectInv, plain, NEW ok \in BOOLEAN, BuiltinEnds(ok)
  PROVE  TablesKeep'
<1> DEFINE f == stack[Len(stack)]
           t == table
           u == Expected'
           v == intended'
<1>1. PICK text : Emit(Front(stack), text)
  BY Zenon DEF BuiltinEnds
<1>2. /\ Idle /\ stack # <<>> /\ produced' = produced + 1 /\ UNCHANGED <<exec, pipeline, stray>>
      /\ table' = Restore(f)
      /\ v = IF f.saved < 0 THEN intended
             ELSE [n \in Fds |-> IF n \in {0, f.saved, f.file} THEN f.was[n] ELSE intended[n]]
  BY DEF BuiltinEnds, Last
<1>3. /\ exec = NoExec /\ pipeline = NoPipeline /\ table = Expected /\ produced \in Nat
      /\ IsTable(t) /\ StdOpen(t)
      /\ FramesKeep(stack, Expected) /\ ClosedFrom(t, Height) /\ Shaped(stack)
  BY <1>2, RunFinds
<1>4. Height \in Nat /\ Height >= 3 /\ Height' = Height + 2
  BY <1>2, <1>3, HeightNext
<1>5. SameFrames(Front(stack), stack')
  BY <1>1, <1>2, <1>3, FrontShaped, EmitSame
<1>6. FrameKeeps(f, t)
  BY <1>2, <1>3, <1>5, FramePopped
<1>9. StraysKeep /\ FrameApart(f, stray)
  <2>1. Len(stack) \in 1 .. Len(stack)
    BY <1>2, <1>3, SeqFacts DEF Shaped
  <2> QED
    BY <2>1 DEF RedirectInv, StraysKeep
<1>10. IsTable(u) /\ \A n \in Fds : u[n] = IF stray[n] = Closed THEN v[n] ELSE stray[n]
  BY <1>2 DEF Expected, IsTable
<1> HIDE DEF f, u, v
<1>7. CASE f.saved = -1 /\ f.file = -1
  <2>4. v = intended /\ table' = t
    BY <1>2, <1>7, Numbers DEF Restore, Close
  <2>1. u = Expected /\ table' = t
    BY <1>2, <2>4, ExpectedSame DEF u, v
  <2>2. FramesKeep(stack', u)
    BY <1>2, <1>3, <1>5, <2>1, FramePopped
  <2>3. ClosedFrom(u, Height')
    BY <1>3, <1>4, <2>1, FreeAbove
  <2> QED
    BY <1>2, <1>3, <2>1, <2>2, <2>3, IdleLeaves DEF u
<1>8. CASE ~ (f.saved = -1 /\ f.file = -1)
  <2>1. /\ f.saved \in Own /\ f.file \in Own \union {-1}
        /\ f.was[0] # Closed /\ f.was[f.saved] = Closed /\ t[f.saved] = f.was[0]
        /\ f.file # -1 => f.was[f.file] = Closed
    BY <1>6, <1>8 DEF FrameKeeps
  <2>2. /\ f.saved \in Fds /\ f.saved # 0 /\ f.saved # -1 /\ ~ (f.saved < 0) /\ f.saved >= 0 /\ 0 \in Fds
        /\ f.file \in Fds \union {-1} /\ f.file # 0
    BY <2>1, OwnNumbers
  <2> DEFINE t1 == Dup2(t, f.saved, 0)
             t2 == Close(t1, f.saved)
             t3 == Close(t2, f.file)
  <2>3. table' = t3
    BY <1>2, <2>2 DEF Restore
  <2>4. IsTable(t1) /\ t1[0] = f.was[0] /\ \A m \in Fds : m # 0 => t1[m] = t[m]
    BY <1>3, <2>1, <2>2, Dup2At
  <2> HIDE DEF t1
  <2>5. IsTable(t2) /\ t2[f.saved] = Closed /\ \A m \in Fds : m # f.saved => t2[m] = t1[m]
    BY <2>2, <2>4, CloseAt
  <2> HIDE DEF t2
  <2>6. IsTable(t3) /\ (f.file # -1 => t3[f.file] = Closed) /\ \A m \in Fds : m # f.file => t3[m] = t2[m]
    BY <2>2, <2>5, CloseAt
  <2> HIDE DEF t3
  <2>7. /\ IsTable(u)
        /\ \A n \in Fds : u[n] = IF n \in {0, f.saved, f.file} THEN f.was[n] ELSE Expected[n]
    <3>1. \A n \in Fds : v[n] = IF n \in {0, f.saved, f.file} THEN f.was[n] ELSE intended[n]
      BY <1>2, <2>2
    <3>2. \A n \in Fds : n \in {0, f.saved, f.file} => stray[n] = Closed
      BY <1>9, Numbers DEF FrameApart, StraysKeep
    <3> QED
      BY <1>10, <3>1, <3>2, ExpectedIs
  <2>8. \A n \in Fds : t3[n] = u[n]
    <3>1. SUFFICES ASSUME NEW n \in Fds PROVE t3[n] = u[n]
      OBVIOUS
    <3>2. CASE n = f.file
      BY <2>1, <2>6, <2>7, <3>2, Numbers
    <3>3. CASE n # f.file /\ n = f.saved
      BY <2>1, <2>5, <2>6, <2>7, <3>3
    <3>4. CASE n # f.file /\ n # f.saved
      BY <1>3, <2>2, <2>4, <2>5, <2>6, <2>7, <3>4
    <3> QED
      BY <3>2, <3>3, <3>4
  <2>9. t3 = u
    BY <2>6, <2>7, <2>8 DEF IsTable
  <2>10. StdOpen(u)
    BY <1>3, <2>1, <2>7, Numbers DEF StdOpen, Own
  <2>11. ClosedFrom(u, Height')
    <3>1. SUFFICES ASSUME NEW n \in Fds, n >= Height + 2 PROVE u[n] = Closed
      BY <1>4 DEF ClosedFrom
    <3>2. n # 0 /\ Expected[n] = Closed
      BY <1>3, <1>4, <3>1, Numbers DEF ClosedFrom
    <3> QED
      BY <2>1, <2>7, <3>2, Numbers
  <2>12. \A n \in Own : n \notin {f.saved, f.file} => u[n] = Expected[n]
    BY <2>7, Numbers DEF Own
  <2>13. FramesKeep(stack', u)
    BY <1>2, <1>3, <1>5, <2>12, FramePopped DEF f
  <2> QED
    BY <1>2, <1>3, <2>3, <2>7, <2>9, <2>10, <2>11, <2>13, IdleLeaves DEF u
<1> QED
  BY <1>7, <1>8

-----------------------------------------------------------------------------
(* Pipelines *)

\* A pipeline starts with the shell's table as it is.
LEMMA LaunchKeeps ==
  ASSUME RedirectInv, plain, NEW specs, NEW capture, CanRun, Launch(specs, capture)
  PROVE  TablesKeep'
<1> DEFINE p == pipeline'
           h == Height
<1>1. /\ Idle /\ produced < MaxCommands /\ produced' = produced + 1
      /\ p = [specs |-> specs, i |-> 1, prev |-> -1, capture |-> capture, read |-> -1]
      /\ UNCHANGED <<table, stack, exec, Expected>>
  BY ExpectedSame DEF CanRun, Launch
<1>2. /\ exec = NoExec /\ pipeline = NoPipeline /\ table = Expected /\ produced \in Nat
      /\ IsTable(Expected) /\ StdOpen(Expected)
      /\ FramesKeep(stack, Expected) /\ ClosedFrom(Expected, h)
  BY <1>1, RunFinds
<1>3. Height' - 2 = h /\ h \in Nat /\ h <= Height' /\ produced' \in 1 .. MaxCommands /\ Height' \in Int
  BY <1>1, <1>2, HeightNext
<1> HIDE DEF p, h
<1>4. p.specs = specs /\ p.i = 1 /\ p.prev = -1 /\ p.capture = capture /\ p.read = -1
  BY <1>1
<1>5. Agree(Expected, Expected, {p.prev, p.read})
  BY DEF Agree
<1>6. p = [specs |-> p.specs, i |-> p.i, prev |-> p.prev, capture |-> p.capture, read |-> p.read]
  BY <1>1, <1>4
<1>7. PipelineOK(p, Expected, Expected, h)
  BY <1>2, <1>4, <1>5, <1>6 DEF PipelineOK, EndKept
<1>8. p # NoPipeline
  BY <1>1 DEF NoPipeline
<1>9. ClosedFrom(Expected, Height')
  BY <1>2, <1>3, FreeAbove
<1> QED
  BY <1>1, <1>2, <1>3, <1>7, <1>8, <1>9 DEF TablesKeep, Idle, p

\* A pipe takes two free numbers; the read end is not above the first free one
\* beyond the end that is still held.
EndsOpened(t, u, e, h) ==
  /\ e.r \in Own /\ e.r < h + 2 /\ t[e.r] = Closed
  /\ e.w \in Own /\ t[e.w] = Closed /\ e.w # e.r
  /\ e # NoEnds /\ IsTable(u) /\ \A m \in Fds : m # e.r /\ m # e.w => u[m] = t[m]

\* pipe takes two of the shell's own numbers below the bound.
LEMMA PipeTaken ==
  ASSUME NEW t, IsTable(t), StdOpen(t), NEW h \in Nat, h >= 3, h + 2 <= MaxFd,
         NEW p, \A n \in Fds : n >= h /\ n # p => t[n] = Closed, NEW s
  PROVE  EndsOpened(t, OpenEnds(t, PipeEnds(t), s), PipeEnds(t), h)
<1> DEFINE n == Lowest(t)
           o == <<"pipe">>
           t1 == Put(t, n, o)
           k == Lowest(t1)
           e == PipeEnds(t)
           u == OpenEnds(t, e, s)
<1>1. e = [r |-> n, w |-> k] /\ e.r = n /\ e.w = k
  BY DEF PipeEnds
<1>2. h \in Fds /\ h + 1 \in Fds /\ h + 2 \in Fds /\ h # h + 1 /\ h + 1 # h + 2 /\ h # h + 2
  BY Numbers
<1>3. o # Closed
  BY DEF Closed
<1> HIDE DEF o, e
<1>4. PICK a \in {h, h + 1} : t[a] = Closed
  <2>1. p # h \/ p # h + 1
    BY <1>2
  <2> QED
    BY <1>2, <2>1
<1>5. n \in Fds /\ t[n] = Closed /\ n <= a
  BY <1>2, <1>4, LowestFree
<1> HIDE DEF n
<1>6. n \in Own /\ n < h + 2 /\ n \in Int
  BY <1>4, <1>5, Numbers DEF StdOpen, Own
<1>7. IsTable(t1) /\ t1[n] = o /\ \A m \in Fds : m # n => t1[m] = t[m]
  BY <1>5, PutAt
<1> HIDE DEF t1
<1>8. PICK b \in {h, h + 1, h + 2} : t1[b] = Closed
  <2>1. \E b \in {h, h + 1, h + 2} : b # p /\ b # n
    BY <1>2
  <2>2. PICK b \in {h, h + 1, h + 2} : b # p /\ b # n
    BY <2>1
  <2>3. b \in Fds /\ b >= h
    BY <1>2
  <2> QED
    BY <1>7, <2>2, <2>3
<1>9. k \in Fds /\ t1[k] = Closed
  BY <1>2, <1>8, LowestFree
<1> HIDE DEF k
<1>10. k # n /\ t[k] = Closed /\ k \in Own
  BY <1>3, <1>7, <1>9 DEF StdOpen, Own
<1>11. e # NoEnds
  BY <1>1, <1>6, OwnNumbers DEF NoEnds
<1> DEFINE x == <<"pipe", s, "read">>
           y == <<"pipe", s, "write">>
           u1 == Put(t, n, x)
           u2 == Put(u1, k, y)
<1>12. u = u2
  BY <1>1, <1>11 DEF OpenEnds
<1> HIDE DEF x, y
<1>13. IsTable(u1) /\ \A m \in Fds : m # n => u1[m] = t[m]
  BY <1>5, PutAt
<1> HIDE DEF u1
<1>14. IsTable(u2) /\ \A m \in Fds : m # k => u2[m] = u1[m]
  BY <1>9, <1>13, PutAt
<1> HIDE DEF u2
<1>15. IsTable(u) /\ \A m \in Fds : m # n /\ m # k => u[m] = t[m]
  BY <1>12, <1>13, <1>14
<1> HIDE DEF u
<1>16. EndsOpened(t, u, e, h)
  BY <1>1, <1>5, <1>6, <1>10, <1>11, <1>15 DEF EndsOpened
<1> QED
  BY <1>16 DEF u, e

\* What a pipeline finds when it takes a step
LEMMA PipelineFinds ==
  ASSUME RedirectInv, plain, pipeline # NoPipeline
  PROVE  /\ exec = NoExec /\ produced \in 1 .. MaxCommands /\ PipelineOK(pipeline, table, Expected, Height - 2)
         /\ IsTable(table) /\ IsTable(Expected) /\ StdOpen(Expected)
         /\ FramesKeep(stack, Expected) /\ ClosedFrom(Expected, Height)
BY DEF RedirectInv, TablesKeep, Idle

\* A process was started: the shell holds the ends of at most one new pipe, and
\* closes all others.
ForkedWith(p, t, u, h, r, w, q) ==
  /\ IsTable(u) /\ EndKept(r, t, h) /\ (w = -1 \/ (w \in Own /\ t[w] = Closed))
  /\ \A m \in Fds : m # r /\ m # w => u[m] = t[m]
  /\ {q.prev, q.read} = {r, -1} /\ (q.read # -1 => p.i = Len(p.specs))
  /\ q = [specs |-> p.specs, i |-> p.i + 1, prev |-> q.prev, capture |-> p.capture, read |-> q.read]

\* After a fork the parent holds the read end of the next pipe and nothing else
\* new.
LEMMA Forked ==
  ASSUME NEW p, NEW t, NEW int, NEW h \in Nat, PipelineOK(p, t, int, h), IsTable(t), p.i <= Len(p.specs),
         NEW u, NEW r, NEW w, NEW q, ForkedWith(p, t, u, h, r, w, q)
  PROVE  PipelineOK(q, CloseAll(u, {p.prev, w, -1}), int, h) /\ IsTable(CloseAll(u, {p.prev, w, -1}))
<1>0. /\ IsTable(u) /\ EndKept(r, t, h) /\ (w = -1 \/ (w \in Own /\ t[w] = Closed))
      /\ \A m \in Fds : m # r /\ m # w => u[m] = t[m]
      /\ {q.prev, q.read} = {r, -1} /\ (q.read # -1 => p.i = Len(p.specs))
      /\ q = [specs |-> p.specs, i |-> p.i + 1, prev |-> q.prev, capture |-> p.capture, read |-> q.read]
  BY DEF ForkedWith
<1> DEFINE c == {p.prev, w, -1}
           v == CloseAll(u, c)
<1>1. /\ p.i \in Nat \ {0} /\ EndKept(p.prev, int, h) /\ p.read = -1
      /\ Agree(t, int, {p.prev, p.read}) /\ ClosedFrom(int, h)
  BY DEF PipelineOK
<1>2. IsTable(v) /\ \A m \in Fds : v[m] = IF m \in c THEN Closed ELSE u[m]
  BY CloseAllAt
<1> HIDE DEF v
<1>3. \A m \in Fds : t[m] = Closed => int[m] = Closed
  BY <1>1, Numbers DEF Agree, EndKept
<1>4. EndKept(r, int, h) /\ EndKept(-1, int, h)
  BY <1>0, <1>3 DEF EndKept, Own
<1>5. \A m \in Fds : m # r => v[m] = int[m]
  <2>1. SUFFICES ASSUME NEW m \in Fds, m # r PROVE v[m] = int[m]
    OBVIOUS
  <2>2. m # -1
    BY Numbers
  <2>3. CASE m = p.prev
    BY <1>1, <1>2, <2>2, <2>3 DEF EndKept
  <2>4. CASE m # p.prev /\ m = w
    BY <1>0, <1>2, <1>3, <2>2, <2>4
  <2>5. CASE m # p.prev /\ m # w
    BY <1>0, <1>1, <1>2, <2>1, <2>2, <2>5 DEF Agree
  <2> QED
    BY <2>3, <2>4, <2>5
<1>6. EndKept(q.prev, int, h) /\ EndKept(q.read, int, h) /\ Agree(v, int, {q.prev, q.read})
  BY <1>0, <1>4, <1>5 DEF Agree
<1>7. q.specs = p.specs /\ q.i = p.i + 1 /\ q.capture = p.capture
  BY <1>0
<1>8. q.i \in Nat \ {0} /\ (q.read # -1 => ~ (q.i <= Len(q.specs)))
  BY <1>0, <1>1, <1>7
<1>9. q = [specs |-> q.specs, i |-> q.i, prev |-> q.prev, capture |-> q.capture, read |-> q.read]
  BY <1>0, <1>7
<1>10. PipelineOK(q, v, int, h)
  BY <1>1, <1>6, <1>8, <1>9 DEF PipelineOK
<1> QED
  BY <1>2, <1>10 DEF v, c

\* A stage is forked.
LEMMA ForkKeeps ==
  ASSUME RedirectInv, plain, Fork
  PROVE  TablesKeep'
<1> DEFINE p == pipeline
           q == pipeline'
           t == table
           h == Height - 2
           n == Len(p.specs)
           next == IF p.i < n THEN PipeEnds(t) ELSE NoEnds
           t1 == OpenEnds(t, next, p.i)
           cap == IF p.i = n /\ p.capture THEN PipeEnds(t1) ELSE NoEnds
           t2 == OpenEnds(t1, cap, 0)
           c == {p.prev, next.w, cap.w}
           v == CloseAll(t2, c)
<1>1. /\ p # NoPipeline /\ p.i <= n /\ table' = v
      /\ q = [p EXCEPT !.i = p.i + 1, !.prev = next.r, !.read = cap.r]
      /\ UNCHANGED <<stack, exec, produced, Expected>>
  BY ExpectedSame, Zenon DEF Fork
<1>2. /\ exec = NoExec /\ produced \in 1 .. MaxCommands /\ PipelineOK(p, t, Expected, h)
      /\ IsTable(t) /\ IsTable(Expected) /\ StdOpen(Expected)
      /\ FramesKeep(stack, Expected) /\ ClosedFrom(Expected, Height)
  BY <1>1, PipelineFinds
<1>3. h \in Nat /\ h >= 3 /\ h + 2 <= MaxFd
  BY <1>2, Heights, Numbers
<1> HIDE DEF p, q, h
<1>4. /\ p = [specs |-> p.specs, i |-> p.i, prev |-> p.prev, capture |-> p.capture, read |-> p.read]
      /\ p.i \in Nat \ {0} /\ EndKept(p.prev, Expected, h) /\ p.read = -1
      /\ Agree(t, Expected, {p.prev, p.read}) /\ ClosedFrom(Expected, h)
  BY <1>1, <1>2 DEF PipelineOK
<1>5. q = [specs |-> p.specs, i |-> p.i + 1, prev |-> next.r, capture |-> p.capture, read |-> cap.r]
  <2> DEFINE a == next.r
             b == cap.r
  <2> HIDE DEF next, cap
  <2> QED
    BY <1>1, <1>4
<1>6. StdOpen(t) /\ \A m \in Fds : m >= h /\ m # p.prev => t[m] = Closed
  <2>1. \A m \in Fds : m # p.prev => t[m] = Expected[m]
    BY <1>4, Numbers DEF Agree
  <2>2. \A m \in Std : m # p.prev /\ m \in Fds
    BY <1>4, Numbers DEF EndKept, Own
  <2> QED
    BY <1>2, <1>4, <2>1, <2>2 DEF StdOpen, ClosedFrom
<1>7. NoEnds.r = -1 /\ NoEnds.w = -1 /\ \A a, s : OpenEnds(a, NoEnds, s) = a
  BY DEF NoEnds, OpenEnds
<1>8. PipelineOK(q, v, Expected, h) /\ IsTable(v)
  <2>1. CASE p.i < n
    <3> DEFINE e == PipeEnds(t)
               u == OpenEnds(t, e, p.i)
    <3>1. next = e /\ cap = NoEnds
      BY <1>4, <2>1
    <3>2. t2 = u /\ c = {p.prev, e.w, -1}
      BY <1>7, <3>1
    <3>3. EndsOpened(t, u, e, h)
      BY <1>2, <1>3, <1>6, PipeTaken
    <3>4. q = [specs |-> p.specs, i |-> p.i + 1, prev |-> e.r, capture |-> p.capture, read |-> -1]
      BY <1>5, <1>7, <3>1
    <3> HIDE DEF e, u, next, cap, t2, c
    <3>5. q.prev = e.r /\ q.read = -1
      BY <3>4
    <3>6. /\ EndKept(e.r, t, h) /\ e.w \in Own /\ t[e.w] = Closed /\ IsTable(u)
          /\ \A m \in Fds : m # e.r /\ m # e.w => u[m] = t[m]
      BY <3>3 DEF EndsOpened, EndKept
    <3>7. q = [specs |-> p.specs, i |-> p.i + 1, prev |-> q.prev, capture |-> p.capture, read |-> q.read]
      BY <3>4, <3>5
    <3>8. PipelineOK(q, CloseAll(u, c), Expected, h) /\ IsTable(CloseAll(u, c))
      <4>1. ForkedWith(p, t, u, h, e.r, e.w, q)
        BY <1>2, <1>3, <3>2, <3>5, <3>6, <3>7 DEF ForkedWith
      <4>2. c = {p.prev, e.w, -1}
        BY <3>2
      <4> QED
        BY <1>1, <1>2, <1>3, <4>1, <4>2, Forked
    <3> QED
      BY <3>2, <3>8
  <2>2. CASE ~ (p.i < n) /\ p.i = n /\ p.capture
    <3> DEFINE e == PipeEnds(t)
               u == OpenEnds(t, e, 0)
    <3>1. next = NoEnds /\ t1 = t
      BY <1>7, <2>2
    <3>2. cap = e
      <4> HIDE DEF t1
      <4> QED
        BY <2>2, <3>1
    <3>3. t2 = u /\ c = {p.prev, e.w, -1}
      <4> HIDE DEF t1, cap, next
      <4> QED
        BY <1>7, <3>1, <3>2
    <3>4. EndsOpened(t, u, e, h)
      BY <1>2, <1>3, <1>6, PipeTaken
    <3>5. q = [specs |-> p.specs, i |-> p.i + 1, prev |-> -1, capture |-> p.capture, read |-> e.r]
      <4> HIDE DEF t1, cap, next
      <4> QED
        BY <1>5, <1>7, <3>1, <3>2
    <3> HIDE DEF e, u, next, cap, t2, c
    <3>6. q.prev = -1 /\ q.read = e.r
      BY <3>5
    <3>7. /\ EndKept(e.r, t, h) /\ e.w \in Own /\ t[e.w] = Closed /\ IsTable(u)
          /\ \A m \in Fds : m # e.r /\ m # e.w => u[m] = t[m]
      BY <3>4 DEF EndsOpened, EndKept
    <3>8. q = [specs |-> p.specs, i |-> p.i + 1, prev |-> q.prev, capture |-> p.capture, read |-> q.read]
      BY <3>5, <3>6
    <3>9. PipelineOK(q, CloseAll(u, c), Expected, h) /\ IsTable(CloseAll(u, c))
      <4>1. ForkedWith(p, t, u, h, e.r, e.w, q)
        BY <1>2, <1>3, <2>2, <3>3, <3>6, <3>7, <3>8 DEF ForkedWith
      <4>2. c = {p.prev, e.w, -1}
        BY <3>3
      <4> QED
        BY <1>1, <1>2, <1>3, <4>1, <4>2, Forked
    <3> QED
      BY <3>3, <3>9
  <2>3. CASE ~ (p.i < n) /\ ~ (p.i = n /\ p.capture)
    <3>1. next = NoEnds /\ t1 = t
      BY <1>7, <2>3
    <3>2. cap = NoEnds
      BY <2>3
    <3>3. t2 = t /\ c = {p.prev, -1, -1}
      <4> HIDE DEF t1, cap, next
      <4> QED
        BY <1>7, <3>1, <3>2
    <3>4. q = [specs |-> p.specs, i |-> p.i + 1, prev |-> -1, capture |-> p.capture, read |-> -1]
      <4> HIDE DEF t1, cap, next
      <4> QED
        BY <1>5, <1>7, <3>1, <3>2
    <3> HIDE DEF next, cap, t2, c
    <3>5. q.prev = -1 /\ q.read = -1
      BY <3>4
    <3>6. EndKept(-1, t, h)
      BY DEF EndKept
    <3>7. q = [specs |-> p.specs, i |-> p.i + 1, prev |-> q.prev, capture |-> p.capture, read |-> q.read]
      BY <3>4, <3>5
    <3>8. PipelineOK(q, CloseAll(t, c), Expected, h) /\ IsTable(CloseAll(t, c))
      <4>1. ForkedWith(p, t, t, h, -1, -1, q)
        BY <1>2, <1>3, <3>3, <3>5, <3>6, <3>7 DEF ForkedWith
      <4>2. c = {p.prev, -1, -1}
        BY <3>3
      <4> QED
        BY <1>1, <1>2, <1>3, <4>1, <4>2, Forked
    <3> QED
      BY <3>3, <3>8
  <2> QED
    BY <2>1, <2>2, <2>3
<1> HIDE DEF v, c, t2
<1>9. q # NoPipeline
  <2>1. q.i = p.i + 1
    BY <1>5
  <2> QED
    BY <1>4, <2>1 DEF NoPipeline
<1>10. Height' = Height
  BY <1>1 DEF Height
<1> QED
  BY <1>1, <1>2, <1>8, <1>9, <1>10 DEF TablesKeep, Idle, q, h

\* pipe or fork failed: the end that stays open is one more the shell holds.
LEMMA ForkFailsKeeps ==
  ASSUME RedirectInv, plain, ForkFails
  PROVE  TablesKeep'
<1> DEFINE p == pipeline
           t == table
           u == Expected'
           h == Height - 2
<1>1. /\ p # NoPipeline /\ p.i <= Len(p.specs) /\ pipeline' = NoPipeline
      /\ stray' = IF p.prev >= 0 THEN [stray EXCEPT ![p.prev] = t[p.prev]] ELSE stray
      /\ UNCHANGED <<table, stack, exec, produced, intended>>
  BY DEF ForkFails
<1>2. /\ exec = NoExec /\ produced \in 1 .. MaxCommands /\ PipelineOK(p, t, Expected, h)
      /\ IsTable(t) /\ IsTable(Expected) /\ StdOpen(Expected)
      /\ FramesKeep(stack, Expected) /\ ClosedFrom(Expected, Height)
  BY <1>1, PipelineFinds
<1>3. h \in Nat /\ Height \in Nat /\ h + 2 = Height
  BY <1>2, Heights
<1>4. Height' = Height
  BY <1>1 DEF Height
<1> HIDE DEF p, u, h
<1>5. EndKept(p.prev, Expected, h) /\ p.read = -1 /\ Agree(t, Expected, {p.prev, p.read})
  BY <1>1, <1>2 DEF PipelineOK
<1>6. CASE p.prev = -1
  <2>1. u = Expected
    BY <1>1, <1>6, ExpectedSame DEF u
  <2>2. \A m \in Fds : t[m] = Expected[m]
    BY <1>5, <1>6, Numbers DEF Agree
  <2>3. t = Expected
    BY <1>2, <2>2 DEF IsTable
  <2> QED
    BY <1>1, <1>2, <1>4, <2>1, <2>3, IdleLeaves DEF u
<1>7. CASE p.prev # -1
  <2>1. p.prev \in Own /\ p.prev \in Fds /\ p.prev \in Int /\ p.prev >= 0 /\ p.prev < h + 2 /\ Expected[p.prev] = Closed
    BY <1>5, <1>7, OwnNumbers DEF EndKept
  <2>2. stray' = Put(stray, p.prev, t[p.prev]) /\ IsTable(stray)
    BY <1>1, <2>1 DEF Put, RedirectInv, StraysKeep
  <2>9. stray'[p.prev] = t[p.prev] /\ \A m \in Fds : m # p.prev => stray'[m] = stray[m]
    BY <2>1, <2>2, PutAt
  <2>10. IsTable(u) /\ \A m \in Fds : u[m] = IF stray'[m] = Closed THEN intended[m] ELSE stray'[m]
    BY <1>1 DEF Expected, IsTable, u
  <2>11. intended[p.prev] = Closed
    BY <2>1, ExpectedIs
  <2>3. IsTable(u) /\ u[p.prev] = t[p.prev] /\ \A m \in Fds : m # p.prev => u[m] = Expected[m]
    BY <2>1, <2>9, <2>10, <2>11, ExpectedIs
  <2>4. \A m \in Fds : u[m] = t[m]
    BY <1>5, <2>3, Numbers DEF Agree
  <2>5. u = t
    BY <1>2, <2>3, <2>4 DEF IsTable
  <2>6. StdOpen(u)
    BY <1>2, <2>1, <2>3, Numbers DEF StdOpen, Own
  <2>7. ClosedFrom(u, Height)
    <3>1. SUFFICES ASSUME NEW m \in Fds, m >= Height PROVE u[m] = Closed
      BY DEF ClosedFrom
    <3>2. m # p.prev
      BY <1>3, <2>1, <3>1, Numbers
    <3> QED
      BY <1>2, <2>3, <3>1, <3>2 DEF ClosedFrom
  <2>8. FramesKeep(stack, u)
    <3>1. \A m \in Own : Expected[m] # Closed => u[m] = Expected[m]
      BY <2>1, <2>3 DEF Own
    <3> QED
      BY <1>2, <3>1, FramesKept
  <2> QED
    BY <1>1, <1>2, <1>4, <2>3, <2>5, <2>6, <2>7, <2>8, IdleLeaves DEF u
<1> QED
  BY <1>6, <1>7

\* A pipeline ends with no end of a pipe left open in the shell.
LEMMA PipelineEndsKeeps ==
  ASSUME RedirectInv, plain, PipelineEnds
  PROVE  TablesKeep'
<1> DEFINE p == pipeline
           t == table
           u == table'
           c == {p.prev, p.read}
<1>1. /\ p # NoPipeline /\ pipeline' = NoPipeline /\ u = CloseAll(t, c)
      /\ UNCHANGED <<stack, exec, produced, Expected>>
  BY ExpectedSame DEF PipelineEnds
<1>2. /\ exec = NoExec /\ PipelineOK(p, t, Expected, Height - 2)
      /\ IsTable(Expected) /\ StdOpen(Expected)
      /\ FramesKeep(stack, Expected) /\ ClosedFrom(Expected, Height)
  BY <1>1, PipelineFinds
<1>3. Height' = Height
  BY <1>1 DEF Height
<1> HIDE DEF p, u
<1>4. /\ EndKept(p.prev, Expected, Height - 2) /\ EndKept(p.read, Expected, Height - 2)
      /\ Agree(t, Expected, {p.prev, p.read})
  BY <1>2 DEF PipelineOK
<1>5. IsTable(u) /\ \A m \in Fds : u[m] = IF m \in c THEN Closed ELSE t[m]
  BY <1>1, CloseAllAt
<1>6. \A m \in Fds : u[m] = Expected[m]
  BY <1>4, <1>5, Numbers DEF Agree, EndKept
<1>7. u = Expected
  BY <1>2, <1>5, <1>6 DEF IsTable
<1> QED
  BY <1>1, <1>2, <1>3, <1>7, IdleLeaves DEF u

-----------------------------------------------------------------------------
(* The ends that stay open *)

\* A new frame takes numbers that are free.
LEMMA ApartPushed ==
  ASSUME NEW st, Shaped(st), NEW s, \A k \in 1 .. Len(st) : FrameApart(st[k], s), NEW f, FrameApart(f, s)
  PROVE  \A k \in 1 .. Len(Append(st, f)) : FrameApart(Append(st, f)[k], s)
<1> DEFINE v == Append(st, f)
           n == Len(st)
<1>1. n \in Nat /\ Len(v) = n + 1 /\ v[n + 1] = f /\ (\A i \in 1 .. n : v[i] = st[i]) /\ n = Len(st)
  BY AppendAny, SeqFacts DEF Shaped
<1> HIDE DEF v, n
<1>2. \A k \in 1 .. n + 1 : FrameApart(v[k], s)
  <2>1. SUFFICES ASSUME NEW k \in 1 .. n + 1 PROVE FrameApart(v[k], s)
    OBVIOUS
  <2>2. k = n + 1 \/ k \in 1 .. n
    BY <1>1
  <2> QED
    BY <1>1, <2>2
<1> QED
  BY <1>1, <1>2 DEF v

\* The frames below the innermost stay as they are.
LEMMA ApartPopped ==
  ASSUME NEW st, Shaped(st), st # <<>>, NEW v, SameFrames(Front(st), v), NEW s,
         \A k \in 1 .. Len(st) : FrameApart(st[k], s)
  PROVE  \A k \in 1 .. Len(v) : FrameApart(v[k], s)
<1> DEFINE n == Len(st)
           w == Front(st)
<1>1. n \in Nat \ {0} /\ n = Len(st) /\ Len(w) = n - 1 /\ \A i \in 1 .. n - 1 : w[i] = st[i]
  <2>1. w = Shorter(st)
    BY DEF Front, Shorter
  <2> QED
    BY <2>1, ShorterAny DEF Shaped
<1> HIDE DEF n, w
<1>2. Len(v) = n - 1 /\ \A k \in 1 .. n - 1 : v[k].saved = st[k].saved /\ v[k].file = st[k].file
  BY <1>1 DEF SameFrames, w
<1>3. SUFFICES ASSUME NEW k \in 1 .. n - 1 PROVE FrameApart(v[k], s)
  BY <1>2
<1>4. k \in 1 .. n /\ FrameApart(st[k], s)
  BY <1>1
<1> QED
  BY <1>2, <1>4 DEF FrameApart

\* A built-in takes numbers that are closed in the shell.
LEMMA BuiltinApart ==
  ASSUME RedirectInv, plain, NEW rs \in Lists(MaxRedirections), Builtin(rs)
  PROVE  StraysKeep'
<1> DEFINE r == StdinOf(rs)
           saved == Lowest(table)
           t1 == Put(table, saved, table[0])
           file == Lowest(IF r = NoInput THEN table ELSE t1)
           mine == IF r = NoInput THEN -1 ELSE saved
           its == IF OpensFile(r) THEN file ELSE -1
           f == Frame("builtin", rs, mine, its, intended)
<1>1. /\ Idle /\ produced < MaxCommands /\ produced' = produced + 1 /\ UNCHANGED stray
      /\ stack' = Append(stack, f)
  BY DEF Builtin, CanRun
<1>2. IsTable(intended')
  BY DEF Builtin, IsTable
<1>3. table = Expected /\ IsTable(table) /\ StdOpen(table) /\ ClosedFrom(table, Height) /\ Shaped(stack) /\ produced \in Nat
  BY <1>1, RunFinds
<1>4. Height \in Nat /\ Height >= 3 /\ Height + 3 <= MaxFd
  BY <1>1, <1>3, HeightNext, Numbers
<1>5. table[0] # Closed
  BY <1>3, Numbers DEF StdOpen
<1>6. OpensFile(r) => r # NoInput
  BY DEF OpensFile
<1>7. saved \in Fds /\ table[saved] = Closed
  BY <1>3, <1>4, Taken, Numbers DEF Own
<1>8. OpensFile(r) => file \in Fds /\ table[file] = Closed
  BY <1>3, <1>4, <1>5, <1>6, Taken, Numbers DEF Own
<1>9. f.saved = mine /\ f.file = its
  BY NewFrame
<1> HIDE DEF f, saved, file, t1, r
<1>10. \A n \in Fds : table[n] = Closed => stray[n] = Closed
  BY <1>3, ExpectedIs
<1>11. FrameApart(f, stray)
  BY <1>7, <1>8, <1>9, <1>10, Numbers DEF FrameApart
<1>12. StraysKeep
  BY DEF RedirectInv
<1>13. \A k \in 1 .. Len(stack') : FrameApart(stack'[k], stray)
  BY <1>1, <1>3, <1>11, <1>12, ApartPushed DEF StraysKeep
<1> QED
  BY <1>1, <1>2, <1>12, <1>13 DEF StraysKeep

\* The end a failed pipeline leaves open was free when the pipeline started.
LEMMA ForkFailsApart ==
  ASSUME RedirectInv, plain, ForkFails
  PROVE  StraysKeep'
<1> DEFINE p == pipeline
<1>1. /\ p # NoPipeline /\ p.i <= Len(p.specs) /\ UNCHANGED <<stack, intended>>
      /\ stray' = IF p.prev >= 0 THEN [stray EXCEPT ![p.prev] = table[p.prev]] ELSE stray
  BY DEF ForkFails
<1>2. PipelineOK(p, table, Expected, Height - 2) /\ FramesKeep(stack, Expected)
  BY <1>1, PipelineFinds
<1>3. StraysKeep
  BY DEF RedirectInv
<1> HIDE DEF p
<1>4. CASE p.prev = -1
  BY <1>1, <1>3, <1>4 DEF StraysKeep
<1>5. CASE p.prev # -1
  <2>1. p.prev \in Own /\ p.prev \in Fds /\ p.prev >= 0 /\ Expected[p.prev] = Closed
    BY <1>2, <1>5, OwnNumbers DEF PipelineOK, EndKept
  <2>2. stray' = Put(stray, p.prev, table[p.prev]) /\ IsTable(stray)
    BY <1>1, <1>3, <2>1 DEF Put, StraysKeep
  <2>3. IsTable(stray') /\ \A m \in Fds : m # p.prev => stray'[m] = stray[m]
    BY <2>1, <2>2, PutAt
  <2>4. \A n \in Std : stray'[n] = Closed
    BY <1>3, <2>1, <2>3, Numbers DEF StraysKeep, Own
  <2>5. ASSUME NEW k \in 1 .. Len(stack) PROVE FrameApart(stack[k], stray')
    <3>1. FrameKeeps(stack[k], Expected) /\ FrameApart(stack[k], stray)
      BY <1>2, <1>3 DEF FramesKeep, StraysKeep
    <3>2. p.prev \notin {stack[k].saved, stack[k].file}
      BY <2>1, <3>1, Numbers DEF FrameKeeps
    <3> QED
      BY <2>3, <3>1, <3>2 DEF FrameApart
  <2> QED
    BY <1>1, <1>3, <2>3, <2>4, <2>5 DEF StraysKeep
<1> QED
  BY <1>4, <1>5

\* Only a failed pipeline adds an end, and only built-ins take numbers between commands.
LEMMA StraysStep ==
  ASSUME RedirectInv, Next, plain'
  PROVE  StraysKeep'
<1>0. StraysKeep /\ Shaped(stack)
  <2>1. plain
    BY Zenon DEF Next, Exec, ExecRedirects, ExecSucceeds, ExecUnwinds, Builtin, BuiltinUnredirected, BuiltinEnds, Group,
       GroupEnds, Pipeline, PipelineFromBuiltin, ExecCommand, Launch, Fork, ForkFails, PipelineEnds
  <2> QED
    BY <2>1 DEF RedirectInv, InputInv
<1>1. CASE UNCHANGED <<stack, stray, intended>>
  BY <1>0, <1>1 DEF StraysKeep
<1>2. CASE ExecRedirects
  <2>1. UNCHANGED <<stack, stray>> /\ plain /\ exec # NoExec
    BY <1>2 DEF ExecRedirects
  <2>2. IsTable(exec.was)
    BY <2>1, ExecFinds DEF ExecOK
  <2>3. IsTable(intended')
    <3>1. intended' = exec.was \/ \E r : intended' = Meant(intended, r)
      BY <1>2 DEF ExecRedirects
    <3>2. ASSUME NEW r, intended' = Meant(intended, r) PROVE IsTable(intended')
      <4>1. IsTable(intended)
        BY <1>0 DEF StraysKeep
      <4>2. PICK x : intended' = [intended EXCEPT ![r.fd] = x]
        <5>1. CASE r.kind = "close"
          <6>1. Meant(intended, r) = Put(intended, r.fd, Closed)
            BY <5>1 DEF Meant, Dups
          <6> QED
            BY <3>2, <6>1 DEF Put
        <5>2. CASE r.kind # "close" /\ r.kind \in Dups
          BY <3>2, <5>2 DEF Meant, Put
        <5>3. CASE r.kind # "close" /\ r.kind \notin Dups
          BY <3>2, <5>3 DEF Meant, Put
        <5> QED
          BY <5>1, <5>2, <5>3
      <4> QED
        BY <4>1, <4>2 DEF IsTable
    <3> QED
      BY <2>2, <3>1, <3>2
  <2> QED
    BY <1>0, <2>1, <2>3 DEF StraysKeep
<1>3. CASE \E rs \in Lists(MaxRedirections) : Builtin(rs)
  BY <1>3, BuiltinApart DEF Builtin
<1>4. CASE \E ok \in BOOLEAN : BuiltinEnds(ok)
  <2>1. PICK ok \in BOOLEAN : BuiltinEnds(ok)
    BY <1>4
  <2>2. PICK text : Emit(Front(stack), text)
    BY <2>1, Zenon DEF BuiltinEnds
  <2>3. stack # <<>> /\ UNCHANGED stray
    BY <2>1 DEF BuiltinEnds
  <2>4. IsTable(intended')
    BY <1>0, <2>1 DEF BuiltinEnds, StraysKeep, IsTable
  <2>5. SameFrames(Front(stack), stack')
    BY <1>0, <2>2, <2>3, FrontShaped, EmitSame
  <2>6. \A k \in 1 .. Len(stack') : FrameApart(stack'[k], stray)
    BY <1>0, <2>3, <2>5, ApartPopped DEF StraysKeep
  <2> QED
    BY <1>0, <2>3, <2>4, <2>6 DEF StraysKeep
<1>5. CASE \E rs \in GroupTails(MaxRedirections) : Group(rs)
  <2>1. PICK rs \in Lists(MaxRedirections) : stack' = Append(stack, Frame("group", rs, -1, -1, intended)) /\ UNCHANGED <<stray, intended>>
    BY <1>5 DEF Group, GroupTails
  <2> DEFINE f == Frame("group", rs, -1, -1, intended)
  <2>2. f.saved = -1 /\ f.file = -1
    BY NewFrame
  <2> HIDE DEF f
  <2>3. FrameApart(f, stray)
    BY <2>2, Numbers DEF FrameApart
  <2>4. \A k \in 1 .. Len(stack') : FrameApart(stack'[k], stray)
    BY <1>0, <2>1, <2>3, ApartPushed DEF StraysKeep, f
  <2> QED
    BY <1>0, <2>1, <2>4 DEF StraysKeep
<1>6. CASE \E ok \in BOOLEAN : GroupEnds(ok)
  <2>1. PICK ok \in BOOLEAN : GroupEnds(ok)
    BY <1>6
  <2>2. PICK text : Emit(Front(stack), text)
    BY <2>1, Zenon DEF GroupEnds
  <2>3. stack # <<>> /\ UNCHANGED <<stray, intended>>
    BY <2>1 DEF GroupEnds
  <2>4. SameFrames(Front(stack), stack')
    BY <1>0, <2>2, <2>3, FrontShaped, EmitSame
  <2>5. \A k \in 1 .. Len(stack') : FrameApart(stack'[k], stray)
    BY <1>0, <2>3, <2>4, ApartPopped DEF StraysKeep
  <2> QED
    BY <1>0, <2>3, <2>5 DEF StraysKeep
<1>7. CASE ForkFails
  BY <1>7, ForkFailsApart DEF ForkFails
<1>8. \/ UNCHANGED <<stack, stray, intended>> \/ ExecRedirects \/ ForkFails
      \/ \E rs \in Lists(MaxRedirections) : Builtin(rs)
      \/ \E rs \in GroupTails(MaxRedirections) : Group(rs)
      \/ \E ok \in BOOLEAN : BuiltinEnds(ok)
      \/ \E ok \in BOOLEAN : GroupEnds(ok)
  BY Zenon DEF Next, Exec, ExecSucceeds, ExecUnwinds, BuiltinUnredirected,
     Pipeline, PipelineFromBuiltin, ExecCommand, Launch, Fork, PipelineEnds
<1> QED
  BY <1>1, <1>2, <1>3, <1>4, <1>5, <1>6, <1>7, <1>8

-----------------------------------------------------------------------------
(* Every step *)

\* One case for each action.
LEMMA TablesStep ==
  ASSUME RedirectInv, Next, plain'
  PROVE  TablesKeep'
<1>1. CASE \E rs \in Lists(MaxRedirections) : Exec(rs)
  BY <1>1, ExecKeeps
<1>2. CASE ExecRedirects
  BY <1>2, ExecRedirectsKeeps DEF ExecRedirects
<1>3. CASE ExecSucceeds
  BY <1>3, ExecSucceedsKeeps DEF ExecSucceeds
<1>4. CASE ExecUnwinds
  BY <1>4, ExecUnwindsKeeps DEF ExecUnwinds
<1>5. CASE \E rs \in Lists(MaxRedirections) : Builtin(rs)
  BY <1>5, BuiltinKeeps DEF Builtin
<1>6. CASE \E rs \in Lists(MaxRedirections) : BuiltinUnredirected(rs)
  BY <1>6, BuiltinUnredirectedKeeps DEF BuiltinUnredirected
<1>7. CASE \E ok \in BOOLEAN : BuiltinEnds(ok)
  <2>1. plain
    BY <1>7, Zenon DEF BuiltinEnds
  <2> QED
    BY <1>7, <2>1, BuiltinEndsKeeps
<1>8. CASE \E rs \in GroupTails(MaxRedirections) : Group(rs)
  BY <1>8, GroupKeeps DEF Group, GroupTails
<1>9. CASE \E ok \in BOOLEAN : GroupEnds(ok)
  <2>1. plain
    BY <1>9, Zenon DEF GroupEnds
  <2> QED
    BY <1>9, <2>1, GroupEndsKeeps
<1>10. CASE \E specs \in Single(MaxRedirections) \union Double, capture \in BOOLEAN : Pipeline(specs, capture)
  <2>1. PICK specs, capture : CanRun /\ Launch(specs, capture)
    BY <1>10, Zenon DEF Pipeline
  <2> QED
    BY <2>1, LaunchKeeps DEF Launch
<1>11. CASE \E specs \in Single(1) \union Double, capture \in BOOLEAN, text \in {"out", Empty} : PipelineFromBuiltin(specs, capture, text)
  <2>1. PICK specs, capture : CanRun /\ Launch(specs, capture)
    BY <1>11, Zenon DEF PipelineFromBuiltin
  <2> QED
    BY <2>1, LaunchKeeps DEF Launch
<1>12. CASE \E rs \in Lists(1), capture \in BOOLEAN : ExecCommand(rs, capture)
  <2>1. PICK specs, capture : CanRun /\ Launch(specs, capture)
    BY <1>12, Zenon DEF ExecCommand
  <2> QED
    BY <2>1, LaunchKeeps DEF Launch
<1>13. CASE Fork
  BY <1>13, ForkKeeps DEF Fork
<1>14. CASE ForkFails
  BY <1>14, ForkFailsKeeps DEF ForkFails
<1>15. CASE PipelineEnds
  BY <1>15, PipelineEndsKeeps DEF PipelineEnds
<1> QED
  BY <1>1, <1>2, <1>3, <1>4, <1>5, <1>6, <1>7, <1>8, <1>9, <1>10, <1>11, <1>12, <1>13, <1>14, <1>15 DEF Next

\* Commands are only counted up.
LEMMA CountStep ==
  ASSUME produced \in Nat, Next
  PROVE  produced' \in Nat
<1>1. produced' = produced \/ produced' = produced + 1
  BY Zenon DEF Next, Exec, ExecRedirects, ExecSucceeds, ExecUnwinds, Builtin, BuiltinUnredirected, BuiltinEnds, Group,
     GroupEnds, Pipeline, PipelineFromBuiltin, ExecCommand, Launch, Fork, ForkFails, PipelineEnds
<1> QED
  BY <1>1

\* The inductive invariant holds: the input every group saved, and what the backups
\* of exec, the pipe ends and the frames of built-ins keep, whatever is under way.
THEOREM TablesKept == Spec => []RedirectInv
<1>1. Init => RedirectInv
  <2>1. SUFFICES ASSUME Init PROVE RedirectInv
    OBVIOUS
  <2>2. /\ table = Start /\ intended = Start /\ exec = NoExec /\ pipeline = NoPipeline
        /\ stack = <<>> /\ inherited = NoInput /\ produced = 0
    BY <2>1 DEF Init
  <2>3. InputInv
    BY <2>2, InputInit
  <2>4. IsTable(Start) /\ StdOpen(Start) /\ ClosedFrom(Start, 3)
    <3>1. IsTable(Start) /\ \A n \in Fds : Start[n] = IF n \in Std THEN <<"std", n>> ELSE Closed
      BY DEF Start, IsTable
    <3>2. \A n : <<"std", n>> # Closed
      <4>1. \A n : Len(<<"std", n>>) = 2 /\ Len(Closed) = 1
        BY DEF Closed
      <4> QED
        BY <4>1
    <3>3. \A n \in Std : n \in Fds /\ ~ (n >= 3)
      BY Numbers
    <3>4. StdOpen(Start)
      BY <3>1, <3>2, <3>3 DEF StdOpen
    <3>5. ClosedFrom(Start, 3)
      BY <3>1, <3>3 DEF ClosedFrom
    <3> QED
      BY <3>1, <3>4, <3>5
  <2>5. Height = 3
    BY <2>2 DEF Height
  <2>6. FramesKeep(<<>>, Start)
    BY DEF FramesKeep
  <2>7. stray = [n \in Fds |-> Closed]
    BY <2>1 DEF Init
  <2>8. Expected = Start
    BY <2>2, <2>4, <2>7 DEF Expected, IsTable
  <2>9. StraysKeep
    BY <2>2, <2>4, <2>7, Numbers DEF StraysKeep, IsTable
  <2> QED
    BY <2>2, <2>3, <2>4, <2>5, <2>6, <2>8, <2>9 DEF RedirectInv, TablesKeep, Idle
<1>2. RedirectInv /\ [Next]_vars => RedirectInv'
  <2>1. SUFFICES ASSUME RedirectInv, [Next]_vars PROVE RedirectInv'
    OBVIOUS
  <2>2. InputInv'
    BY <2>1, InputStep DEF RedirectInv
  <2>3. CASE Next
    <3>1. produced' \in Nat
      BY <2>1, <2>3, CountStep DEF RedirectInv
    <3>2. plain' => TablesKeep' /\ StraysKeep'
      BY <2>1, <2>3, TablesStep, StraysStep
    <3> QED
      BY <2>2, <3>1, <3>2 DEF RedirectInv
  <2>4. CASE UNCHANGED vars
    BY <2>1, <2>2, <2>4
    DEF vars, RedirectInv, TablesKeep, StraysKeep, Expected, Idle, Height
  <2> QED
    BY <2>1, <2>3, <2>4
<1> QED
  BY <1>1, <1>2, PTL DEF Spec

\* Between commands the shell's descriptors are the ones it had, changed only by an
\* exec that succeeded and by the read ends that failed pipelines left open: after
\* every sequence of commands whose execs redirect descriptors 0 to 2 (Plain),
\* every nesting of built-ins and groups and every length of pipeline.
THEOREM TableRestored == Spec => []ShellKeeps
<1>1. RedirectInv => ShellKeeps
  BY DEF RedirectInv, TablesKeep, ShellKeeps
<1> QED
  BY <1>1, TablesKept, PTL

-----------------------------------------------------------------------------
(* Lists of redirections are applied by folds.  Apply stands for the four   *)
(* operators they are folded with, so that what a fold computes is shown    *)
(* once.                                                                    *)

Apply(what, st, r) ==
  CASE what = "meant"   -> Meant(st, r)
    [] what = "child"   -> ChildRedirects(st, r)
    [] what = "builtin" -> BuiltinWrites(st, r)
    [] what = "group"   -> GroupWrites(st, r)

\* The recursive function of FoldLeft, up to position k
Folds(what, g, base, rs, k) ==
  \A s \in SUBSET (1 .. k) : g[s] = IF s = {} THEN base ELSE Apply(what, g[s \ {Max(s)}], rs[Max(s)])

\* The results after each position of the list
Results(what, f, base, rs, n) == f[0] = base /\ \A k \in 1 .. n : f[k] = Apply(what, f[k - 1], rs[k])

\* A set of positions either has the last one or is a set of earlier ones.
LEMMA LastPosition ==
  ASSUME NEW k \in Nat, NEW s \in SUBSET (1 .. k + 1)
  PROVE  /\ k + 1 \in s => s # {} /\ Max(s) = k + 1 /\ s \ {k + 1} \in SUBSET (1 .. k)
         /\ k + 1 \notin s => /\ s \in SUBSET (1 .. k)
                              /\ s # {} => Max(s) \in 1 .. k /\ s \ {Max(s)} \in SUBSET (1 .. k) /\ k + 1 \notin s \ {Max(s)}
<1>1. CASE k + 1 \in s
  <2>1. s \subseteq 1 .. k + 1 /\ k + 1 \in Nat /\ \A y \in s : y <= k + 1
    OBVIOUS
  <2>2. Max(s) = k + 1
    BY <1>1, <2>1, GreatestIs
  <2> QED
    BY <1>1, <2>2
<1>2. CASE k + 1 \notin s
  <2>1. s \subseteq 1 .. k
    BY <1>2
  <2>2. s # {} => Max(s) \in s
    BY <2>1, Greatest
  <2> QED
    BY <1>2, <2>1, <2>2
<1> QED
  BY <1>1, <1>2

\* The recursion has a solution.
LEMMA FoldExists ==
  ASSUME NEW what, NEW base, NEW rs, NEW n \in Nat
  PROVE  \E g : Folds(what, g, base, rs, n)
<1> DEFINE T == {k \in 0 .. n : \E g : Folds(what, g, base, rs, k)}
<1>1. 0 \in T
  <2> DEFINE g == [s \in SUBSET (1 .. 0) |-> base]
  <2>1. Folds(what, g, base, rs, 0)
    <3>1. \A s \in SUBSET (1 .. 0) : s = {} /\ g[s] = base
      OBVIOUS
    <3> HIDE DEF g
    <3> QED
      BY <3>1 DEF Folds
  <2> QED
    BY <2>1
<1>2. ASSUME NEW k \in 0 .. n - 1, k \in T PROVE k + 1 \in T
  <2>1. PICK g : Folds(what, g, base, rs, k)
    BY <1>2
  <2>k. k \in Nat
    OBVIOUS
  <2> DEFINE h == [s \in SUBSET (1 .. k + 1) |->
                     IF k + 1 \in s THEN Apply(what, g[s \ {k + 1}], rs[k + 1]) ELSE g[s]]
  <2>2. \A s \in SUBSET (1 .. k + 1) : k + 1 \in s => h[s] = Apply(what, g[s \ {k + 1}], rs[k + 1])
    OBVIOUS
  <2>3. \A s \in SUBSET (1 .. k + 1) : k + 1 \notin s => h[s] = g[s]
    OBVIOUS
  <2> HIDE DEF h
  <2>4. ASSUME NEW s \in SUBSET (1 .. k + 1)
        PROVE  h[s] = IF s = {} THEN base ELSE Apply(what, h[s \ {Max(s)}], rs[Max(s)])
    <3>1. CASE k + 1 \in s
      <4>1. s # {} /\ Max(s) = k + 1 /\ s \ {k + 1} \in SUBSET (1 .. k)
        BY <2>k, <3>1, LastPosition
      <4>2. h[s \ {k + 1}] = g[s \ {k + 1}]
        <5>1. s \ {k + 1} \in SUBSET (1 .. k + 1) /\ k + 1 \notin s \ {k + 1}
          OBVIOUS
        <5> QED
          BY <2>3, <5>1
      <4>3. h[s] = Apply(what, g[s \ {k + 1}], rs[k + 1])
        BY <2>2, <3>1
      <4> QED
        BY <4>1, <4>2, <4>3
    <3>2. CASE k + 1 \notin s
      <4>1. s \in SUBSET (1 .. k) /\ h[s] = g[s]
        BY <2>k, <2>3, <3>2, LastPosition
      <4>2. CASE s = {}
        BY <2>1, <4>1, <4>2 DEF Folds
      <4>3. CASE s # {}
        <5> DEFINE m == Max(s)
        <5>1. m \in 1 .. k /\ s \ {m} \in SUBSET (1 .. k + 1) /\ k + 1 \notin s \ {m}
          BY <2>k, <3>2, <4>3, LastPosition
        <5>2. g[s] = Apply(what, g[s \ {m}], rs[m])
          BY <2>1, <4>1, <4>3 DEF Folds
        <5> HIDE DEF m
        <5>3. h[s \ {m}] = g[s \ {m}]
          BY <2>3, <5>1
        <5>4. h[s] = Apply(what, h[s \ {m}], rs[m])
          BY <4>1, <5>2, <5>3
        <5> QED
          BY <4>3, <5>4 DEF m
      <4> QED
        BY <4>2, <4>3
    <3> QED
      BY <3>1, <3>2
  <2>5. Folds(what, h, base, rs, k + 1)
    BY <2>4 DEF Folds
  <2>6. k + 1 \in 0 .. n
    OBVIOUS
  <2> QED
    BY <2>5, <2>6
<1>3. n \in T
  <2> HIDE DEF T
  <2>1. 0 .. n \subseteq T
    BY <1>1, <1>2, Induction
  <2> QED
    BY <2>1
<1> QED
  BY <1>3

\* Along the list
LEMMA FoldRuns ==
  ASSUME NEW what, NEW base, NEW rs, NEW n \in Nat, NEW g, Folds(what, g, base, rs, n)
  PROVE  \E f : Results(what, f, base, rs, n) /\ f[n] = g[1 .. n]
<1> DEFINE f == [k \in 0 .. n |-> g[1 .. k]]
<1>1. \A k \in 0 .. n : f[k] = g[1 .. k] /\ 1 .. k \in SUBSET (1 .. n)
  OBVIOUS
<1>2. f[0] = base
  <2>1. 1 .. 0 = {} /\ 0 \in 0 .. n
    OBVIOUS
  <2>2. g[1 .. 0] = base
    BY <1>1, <2>1 DEF Folds
  <2> QED
    BY <1>1, <2>1, <2>2
<1> HIDE DEF f
<1>3. ASSUME NEW k \in 1 .. n PROVE f[k] = Apply(what, f[k - 1], rs[k])
  <2> DEFINE s == 1 .. k
  <2>1. s # {} /\ s \subseteq 1 .. k /\ k \in s /\ k \in Nat /\ \A y \in s : y <= k
    OBVIOUS
  <2>2. Max(s) = k
    <3> HIDE DEF s
    <3> QED
      BY <2>1, GreatestIs
  <2>3. s \ {k} = 1 .. k - 1 /\ k - 1 \in 0 .. n /\ k \in 0 .. n
    OBVIOUS
  <2>4. f[k] = g[s] /\ s \in SUBSET (1 .. n) /\ f[k - 1] = g[s \ {k}]
    BY <1>1, <2>3
  <2>5. g[s] = Apply(what, g[s \ {Max(s)}], rs[Max(s)])
    <3> HIDE DEF s
    <3> QED
      BY <2>1, <2>4 DEF Folds
  <2> QED
    BY <2>2, <2>4, <2>5
<1>4. f[n] = g[1 .. n]
  BY <1>1
<1> QED
  BY <1>2, <1>3, <1>4 DEF Results

\* The function FoldLeft chooses
Solution(what, g, base, rs) ==
  g = [s \in SUBSET DOMAIN rs |-> IF s = {} THEN base ELSE Apply(what, g[s \ {Max(s)}], rs[Max(s)])]

\* There is one, and each gives the results along the list.
LEMMA FoldSolved ==
  ASSUME NEW what, NEW base, NEW rs, NEW n \in Nat, DOMAIN rs = 1 .. n
  PROVE  /\ \E g : Solution(what, g, base, rs)
         /\ \A g : Solution(what, g, base, rs) => \E f : Results(what, f, base, rs, n) /\ f[n] = g[DOMAIN rs]
<1>1. \E g : Solution(what, g, base, rs)
  <2>1. PICK h : Folds(what, h, base, rs, n)
    BY FoldExists
  <2> DEFINE g == [s \in SUBSET DOMAIN rs |-> h[s]]
  <2>2. \A s \in SUBSET DOMAIN rs : g[s] = IF s = {} THEN base ELSE Apply(what, g[s \ {Max(s)}], rs[Max(s)])
    <3>1. SUFFICES ASSUME NEW s \in SUBSET DOMAIN rs
                   PROVE  g[s] = IF s = {} THEN base ELSE Apply(what, g[s \ {Max(s)}], rs[Max(s)])
      OBVIOUS
    <3>2. g[s] = h[s] /\ s \ {Max(s)} \in SUBSET DOMAIN rs
      OBVIOUS
    <3>3. g[s \ {Max(s)}] = h[s \ {Max(s)}]
      BY <3>2
    <3>4. h[s] = IF s = {} THEN base ELSE Apply(what, h[s \ {Max(s)}], rs[Max(s)])
      BY <2>1 DEF Folds
    <3> HIDE DEF g
    <3> QED
      BY <3>2, <3>3, <3>4
  <2>3. g = [s \in SUBSET DOMAIN rs |-> g[s]]
    OBVIOUS
  <2> HIDE DEF g
  <2>4. Solution(what, g, base, rs)
    BY <2>2, <2>3 DEF Solution
  <2> QED
    BY <2>4
<1>2. ASSUME NEW g, Solution(what, g, base, rs)
      PROVE  \E f : Results(what, f, base, rs, n) /\ f[n] = g[DOMAIN rs]
  <2>1. \A s \in SUBSET (1 .. n) : g[s] = IF s = {} THEN base ELSE Apply(what, g[s \ {Max(s)}], rs[Max(s)])
    BY <1>2, Zenon DEF Solution
  <2>2. Folds(what, g, base, rs, n)
    BY <2>1 DEF Folds
  <2> QED
    BY <2>2, FoldRuns
<1> QED
  BY <1>1, <1>2

\* The descriptors a list means, one redirection at a time
LEMMA MeantFold ==
  ASSUME NEW base, NEW rs, NEW n \in Nat, DOMAIN rs = 1 .. n
  PROVE  \E f : Results("meant", f, base, rs, n) /\ f[n] = AllMeant(base, rs)
<1> DEFINE Solves(g) ==
             g = [s \in SUBSET DOMAIN rs |-> IF s = {} THEN base ELSE Meant(g[s \ {Max(s)}], rs[Max(s)])]
<1>1. AllMeant(base, rs) = (CHOOSE g : Solves(g))[DOMAIN rs]
  BY DEF AllMeant, FoldLeft, MapThenFoldSet
<1>2. \A st, r : Apply("meant", st, r) = Meant(st, r)
  BY DEF Apply
<1>3. \A g : Solves(g) <=> Solution("meant", g, base, rs)
  BY <1>2 DEF Solution
<1> HIDE DEF Solves
<1>4. \E g : Solves(g)
  BY <1>3, FoldSolved
<1> DEFINE c == CHOOSE g : Solves(g)
<1>5. Solves(c)
  BY <1>4
<1> HIDE DEF c
<1>6. Solution("meant", c, base, rs)
  BY <1>3, <1>5
<1>7. \E f : Results("meant", f, base, rs, n) /\ f[n] = c[DOMAIN rs]
  BY <1>6, FoldSolved
<1> QED
  BY <1>1, <1>7 DEF c

\* The redirections of a child, one at a time
LEMMA ChildFold ==
  ASSUME NEW base, NEW rs, NEW n \in Nat, DOMAIN rs = 1 .. n
  PROVE  \E f : Results("child", f, base, rs, n) /\ f[n] = FoldLeft(ChildRedirects, base, rs)
<1> DEFINE Solves(g) ==
             g = [s \in SUBSET DOMAIN rs |-> IF s = {} THEN base ELSE ChildRedirects(g[s \ {Max(s)}], rs[Max(s)])]
<1>1. FoldLeft(ChildRedirects, base, rs) = (CHOOSE g : Solves(g))[DOMAIN rs]
  BY DEF FoldLeft, MapThenFoldSet
<1>2. \A st, r : Apply("child", st, r) = ChildRedirects(st, r)
  BY DEF Apply
<1>3. \A g : Solves(g) <=> Solution("child", g, base, rs)
  BY <1>2 DEF Solution
<1> HIDE DEF Solves
<1>4. \E g : Solves(g)
  BY <1>3, FoldSolved
<1> DEFINE c == CHOOSE g : Solves(g)
<1>5. Solves(c)
  BY <1>4
<1> HIDE DEF c
<1>6. Solution("child", c, base, rs)
  BY <1>3, <1>5
<1>7. \E f : Results("child", f, base, rs, n) /\ f[n] = c[DOMAIN rs]
  BY <1>6, FoldSolved
<1> QED
  BY <1>1, <1>7 DEF c

\* The output of a built-in, one redirection at a time
LEMMA BuiltinFold ==
  ASSUME NEW base, NEW rs, NEW n \in Nat, DOMAIN rs = 1 .. n
  PROVE  \E f : Results("builtin", f, base, rs, n) /\ f[n] = FoldLeft(BuiltinWrites, base, rs)
<1> DEFINE Solves(g) ==
             g = [s \in SUBSET DOMAIN rs |-> IF s = {} THEN base ELSE BuiltinWrites(g[s \ {Max(s)}], rs[Max(s)])]
<1>1. FoldLeft(BuiltinWrites, base, rs) = (CHOOSE g : Solves(g))[DOMAIN rs]
  BY DEF FoldLeft, MapThenFoldSet
<1>2. \A st, r : Apply("builtin", st, r) = BuiltinWrites(st, r)
  BY DEF Apply
<1>3. \A g : Solves(g) <=> Solution("builtin", g, base, rs)
  BY <1>2 DEF Solution
<1> HIDE DEF Solves
<1>4. \E g : Solves(g)
  BY <1>3, FoldSolved
<1> DEFINE c == CHOOSE g : Solves(g)
<1>5. Solves(c)
  BY <1>4
<1> HIDE DEF c
<1>6. Solution("builtin", c, base, rs)
  BY <1>3, <1>5
<1>7. \E f : Results("builtin", f, base, rs, n) /\ f[n] = c[DOMAIN rs]
  BY <1>6, FoldSolved
<1> QED
  BY <1>1, <1>7 DEF c

\* The output of a group, one redirection at a time
LEMMA GroupFold ==
  ASSUME NEW base, NEW rs, NEW n \in Nat, DOMAIN rs = 1 .. n
  PROVE  \E f : Results("group", f, base, rs, n) /\ f[n] = FoldLeft(GroupWrites, base, rs)
<1> DEFINE Solves(g) ==
             g = [s \in SUBSET DOMAIN rs |-> IF s = {} THEN base ELSE GroupWrites(g[s \ {Max(s)}], rs[Max(s)])]
<1>1. FoldLeft(GroupWrites, base, rs) = (CHOOSE g : Solves(g))[DOMAIN rs]
  BY DEF FoldLeft, MapThenFoldSet
<1>2. \A st, r : Apply("group", st, r) = GroupWrites(st, r)
  BY DEF Apply
<1>3. \A g : Solves(g) <=> Solution("group", g, base, rs)
  BY <1>2 DEF Solution
<1> HIDE DEF Solves
<1>4. \E g : Solves(g)
  BY <1>3, FoldSolved
<1> DEFINE c == CHOOSE g : Solves(g)
<1>5. Solves(c)
  BY <1>4
<1> HIDE DEF c
<1>6. Solution("group", c, base, rs)
  BY <1>3, <1>5
<1>7. \E f : Results("group", f, base, rs, n) /\ f[n] = c[DOMAIN rs]
  BY <1>6, FoldSolved
<1> QED
  BY <1>1, <1>7 DEF c

-----------------------------------------------------------------------------
(* A child, between fork and execvp *)

Kinds == Inputs \union Outputs \union Dups \union {"here", "close"}
PlainNode(r) == PlainOne(r) /\ r.path # Empty /\ r.kind \in Kinds
Unopened(r) == r.kind \in Inputs \union Outputs /\ ~ CanOpen(r)

\* The child st has, for the redirections so far, the descriptors m, but for the
\* numbers of D and those it opened, which it will close.
ChildHas(st, m, D, b) ==
  /\ st = [t |-> st.t, opened |-> st.opened, dead |-> FALSE]
  /\ IsTable(st.t) /\ IsTable(m) /\ StdOpen(m)
  /\ st.opened \subseteq Own /\ \A n \in D \union st.opened : m[n] = Closed
  /\ Agree(st.t, m, D \union st.opened)
  /\ ClosedFrom(st.t, b)

\* The child opens a file in a free number of its own and moves it where it is
\* wanted.
LEMMA OpenedHas ==
  ASSUME NEW st, NEW m, NEW D, D \subseteq Own, NEW b \in Nat, b <= MaxFd, ChildHas(st, m, D, b),
         NEW r, r.fd \in Std
  PROVE  ChildHas(Opened(st, r), Put(m, r.fd, Stream(r)), D, b + 1)
<1> DEFINE t == st.t
           n == Lowest(t)
           s == Stream(r)
           t1 == Put(t, n, s)
           t2 == Dup2(t1, n, r.fd)
           u == Put(m, r.fd, s)
           v == Opened(st, r)
           O == st.opened \union {n}
<1>1. /\ st = [t |-> t, opened |-> st.opened, dead |-> FALSE]
      /\ IsTable(t) /\ IsTable(m) /\ StdOpen(m)
      /\ st.opened \subseteq Own /\ \A i \in D \union st.opened : m[i] = Closed
      /\ Agree(t, m, D \union st.opened) /\ ClosedFrom(t, b)
  BY DEF ChildHas
<1>2. b \in Fds /\ t[b] = Closed
  BY <1>1, Numbers DEF ClosedFrom
<1>3. n \in Fds /\ t[n] = Closed /\ n <= b /\ n \in Int
  BY <1>2, LowestFree, Numbers
<1>4. v = [t |-> t2, opened |-> O, dead |-> FALSE]
  <2>1. v = [st EXCEPT !.t = t2, !.opened = O]
    BY DEF Opened
  <2> DEFINE o == st.opened
  <2>2. st = [t |-> t, opened |-> o, dead |-> FALSE]
    BY <1>1
  <2> HIDE DEF t2, O, v, t, o
  <2> QED
    BY <2>1, <2>2
<1> HIDE DEF n, v
<1>5. s # Closed /\ r.fd \in Fds /\ r.fd \in Int
  BY StreamOpen, Numbers
<1> HIDE DEF s
<1>6. \A i \in Std : i \in Fds /\ i \notin D \union st.opened /\ t[i] = m[i] /\ t[i] # Closed
  BY <1>1, Numbers DEF Own, Agree, StdOpen
<1>7. n \in Own /\ n # r.fd
  BY <1>3, <1>6 DEF Own
<1>8. IsTable(t1) /\ t1[n] = s /\ \A i \in Fds : i # n => t1[i] = t[i]
  BY <1>1, <1>3, PutAt
<1> HIDE DEF t1
<1>9. IsTable(t2) /\ t2[r.fd] = s /\ \A i \in Fds : i # r.fd => t2[i] = t1[i]
  BY <1>5, <1>8, Dup2At
<1> HIDE DEF t2
<1>10. IsTable(u) /\ u[r.fd] = s /\ \A i \in Fds : i # r.fd => u[i] = m[i]
  BY <1>1, <1>5, PutAt
<1> HIDE DEF u
<1>11. StdOpen(u)
  BY <1>1, <1>5, <1>10, Numbers DEF StdOpen
<1>12. m[n] = Closed
  BY <1>1, <1>3 DEF Agree
<1>13. O \subseteq Own /\ \A i \in D \union O : i \in Fds /\ i # r.fd /\ u[i] = Closed
  BY <1>1, <1>7, <1>10, <1>12 DEF Own
<1>14. Agree(t2, u, D \union O)
  BY <1>1, <1>8, <1>9, <1>10 DEF Agree
<1>15. ClosedFrom(t2, b + 1)
  <2>1. SUFFICES ASSUME NEW i \in Fds, i >= b + 1 PROVE t2[i] = Closed
    BY DEF ClosedFrom
  <2>2. i \in Int /\ b \in Int /\ r.fd <= 2 /\ i # n
    BY <1>3, <2>1, Numbers
  <2>3. i # r.fd
    BY <1>2, <1>6, <2>1, <2>2, Numbers, <1>1 DEF ClosedFrom
  <2>4. t[i] = Closed
    BY <1>1, <2>1, <2>2 DEF ClosedFrom
  <2> QED
    BY <1>8, <1>9, <2>2, <2>3, <2>4
<1>16. v.t = t2 /\ v.opened = O /\ v.dead = FALSE
  BY <1>4
<1> HIDE DEF O
<1>17. ChildHas(v, u, D, b + 1)
  BY <1>4, <1>9, <1>10, <1>11, <1>13, <1>14, <1>15, <1>16 DEF ChildHas
<1> QED
  BY <1>17 DEF v, u, s

\* One redirection of the child
LEMMA ChildStep ==
  ASSUME NEW st, NEW m, NEW D, D \subseteq Own, NEW b \in Nat, b <= MaxFd, ChildHas(st, m, D, b),
         NEW r, PlainNode(r)
  PROVE  /\ Unopened(r) => ChildRedirects(st, r).dead = TRUE
         /\ ~ Unopened(r) => ChildHas(ChildRedirects(st, r), Meant(m, r), D, b + 1)
<1> DEFINE v == ChildRedirects(st, r)
           u == Meant(m, r)
<1>1. /\ st = [t |-> st.t, opened |-> st.opened, dead |-> FALSE] /\ st.dead = FALSE
      /\ IsTable(st.t) /\ IsTable(m) /\ StdOpen(m)
      /\ st.opened \subseteq Own /\ \A i \in D \union st.opened : m[i] = Closed
      /\ Agree(st.t, m, D \union st.opened) /\ ClosedFrom(st.t, b)
  BY DEF ChildHas
<1>2. r.fd \in Std /\ r.kind # "close" /\ r.path # Empty /\ (r.kind \in Dups => r.target \in {1, 2})
  BY DEF PlainNode, PlainOne
<1>3. r.kind \in Inputs \union Outputs \/ r.kind \in Dups \/ r.kind = "here"
  BY <1>2 DEF PlainNode, Kinds
<1>4. /\ r.kind \in Inputs \union Outputs => r.kind \notin Dups /\ r.kind # "here"
      /\ r.kind \in Dups => r.kind # "here" /\ r.kind \notin Inputs \union Outputs
  BY DEF Inputs, Outputs, Dups
<1>5. CASE r.kind \in Inputs \union Outputs /\ ~ CanOpen(r)
  <2>1. v = [st EXCEPT !.dead = TRUE]
    BY <1>1, <1>2, <1>4, <1>5 DEF ChildRedirects
  <2>2. v.dead = TRUE
    BY <1>1, <2>1
  <2> QED
    BY <1>5, <2>2 DEF Unopened
<1>6. CASE r.kind = "here" \/ (r.kind \in Inputs \union Outputs /\ CanOpen(r))
  <2>1. v = Opened(st, r)
    BY <1>1, <1>2, <1>4, <1>6 DEF ChildRedirects
  <2>2. u = Put(m, r.fd, Stream(r))
    BY <1>2, <1>4, <1>6 DEF Meant
  <2>3. ~ Unopened(r)
    BY <1>4, <1>6 DEF Unopened
  <2> HIDE DEF v, u
  <2>4. ChildHas(v, u, D, b + 1)
    BY <1>2, <2>1, <2>2, OpenedHas
  <2> QED
    BY <2>3, <2>4 DEF v, u
<1>7. CASE r.kind \in Dups
  <2> DEFINE t == st.t
             t2 == Dup2(t, r.target, r.fd)
             s == m[r.target]
             O == st.opened
             x == ChildRedirects(st, r)
  <2>1. r.target \in Std /\ r.target \in Int /\ r.target >= 0 /\ r.fd \in Fds
    BY <1>2, <1>7, Numbers
  <2>2. \A i \in Std : i \in Fds /\ i \notin D \union O /\ t[i] = m[i] /\ t[i] # Closed
    BY <1>1, Numbers DEF Own, Agree, StdOpen
  <2>3. t[r.target] = s /\ s # Closed
    BY <2>1, <2>2
  <2>4. x = [st EXCEPT !.t = t2]
    BY <1>1, <1>2, <1>4, <1>7, <2>1, <2>3 DEF ChildRedirects
  <2>5. x = [t |-> t2, opened |-> O, dead |-> FALSE]
    <3> HIDE DEF t2, x
    <3> QED
      BY <1>1, <2>4
  <2>6. u = Put(m, r.fd, s)
    BY <1>2, <1>7 DEF Meant
  <2>7. ~ Unopened(r)
    BY <1>4, <1>7 DEF Unopened
  <2> HIDE DEF v, u, x
  <2>8. IsTable(t2) /\ t2[r.fd] = s /\ \A i \in Fds : i # r.fd => t2[i] = t[i]
    BY <1>1, <2>1, <2>3, Dup2At
  <2> HIDE DEF t2
  <2>9. IsTable(u) /\ u[r.fd] = s /\ \A i \in Fds : i # r.fd => u[i] = m[i]
    BY <1>1, <2>1, <2>6, PutAt
  <2>10. StdOpen(u)
    BY <1>1, <2>3, <2>9, Numbers DEF StdOpen
  <2>11. \A i \in D \union O : i \in Fds /\ i # r.fd /\ u[i] = Closed
    BY <1>1, <1>2, <2>9 DEF Own
  <2>12. Agree(t2, u, D \union O)
    BY <1>1, <2>8, <2>9 DEF Agree
  <2>13. ClosedFrom(t2, b + 1)
    <3>1. SUFFICES ASSUME NEW i \in Fds, i >= b + 1 PROVE t2[i] = Closed
      BY DEF ClosedFrom
    <3>2. i \in Int /\ i >= b
      BY <3>1, Numbers
    <3>3. t[i] = Closed
      BY <1>1, <3>2 DEF ClosedFrom
    <3>4. i # r.fd
      BY <1>2, <2>2, <3>3
    <3> QED
      BY <2>8, <3>3, <3>4
  <2>14. x.t = t2 /\ x.opened = O /\ x.dead = FALSE
    BY <2>5
  <2>15. ChildHas(x, u, D, b + 1)
    BY <1>1, <2>5, <2>8, <2>9, <2>10, <2>11, <2>12, <2>13, <2>14 DEF ChildHas
  <2> QED
    BY <2>7, <2>15 DEF x, u
<1> QED
  BY <1>3, <1>5, <1>6, <1>7

\* A child whose numbers of its own are closed has the descriptors it is meant to
\* have.
LEMMA ChildClosed ==
  ASSUME NEW st, NEW m, NEW D, NEW b, ChildHas(st, m, D, b), NEW S, \A n \in Fds : n \in S <=> n \in D
  PROVE  st.dead = FALSE /\ CloseAll(st.t, S \union st.opened) = m
<1> DEFINE v == CloseAll(st.t, S \union st.opened)
<1>1. st = [t |-> st.t, opened |-> st.opened, dead |-> FALSE] /\ IsTable(m) /\ Agree(st.t, m, D \union st.opened)
      /\ \A n \in D \union st.opened : m[n] = Closed
  BY DEF ChildHas
<1>2. IsTable(v) /\ \A i \in Fds : v[i] = IF i \in S \union st.opened THEN Closed ELSE st.t[i]
  BY CloseAllAt
<1> HIDE DEF v
<1>3. \A i \in Fds : v[i] = m[i]
  BY <1>1, <1>2 DEF Agree
<1>4. v = m
  BY <1>1, <1>2, <1>3 DEF IsTable
<1> QED
  BY <1>1, <1>4 DEF v

\* An end of a pipe, if there is one, becomes a standard descriptor.
LEMMA Piped ==
  ASSUME NEW t, IsTable(t), NEW p, p = -1 \/ (p \in Own /\ t[p] # Closed), NEW to \in Fds
  PROVE  LET a == IF p >= 0 THEN Dup2(t, p, to) ELSE t
         IN  IsTable(a) /\ a[to] = (IF p = -1 THEN t[to] ELSE t[p]) /\ \A i \in Fds : i # to => a[i] = t[i]
<1> DEFINE a == IF p >= 0 THEN Dup2(t, p, to) ELSE t
<1>1. CASE p = -1
  <2>1. a = t
    BY <1>1
  <2> HIDE DEF a
  <2>2. IsTable(a) /\ a[to] = (IF p = -1 THEN t[to] ELSE t[p]) /\ \A i \in Fds : i # to => a[i] = t[i]
    BY <1>1, <2>1
  <2> QED
    BY <2>2 DEF a
<1>2. CASE p # -1
  <2>1. p >= 0 /\ t[p] # Closed
    BY <1>2, OwnNumbers
  <2>2. a = Dup2(t, p, to)
    BY <2>1
  <2> HIDE DEF a
  <2>3. IsTable(a) /\ a[to] = t[p] /\ \A i \in Fds : i # to => a[i] = t[i]
    BY <2>1, <2>2, Dup2At
  <2>4. IsTable(a) /\ a[to] = (IF p = -1 THEN t[to] ELSE t[p]) /\ \A i \in Fds : i # to => a[i] = t[i]
    BY <1>2, <2>3
  <2> QED
    BY <2>4 DEF a
<1> QED
  BY <1>1, <1>2

\* A whole list: the child dies at the first file it cannot open, and has otherwise
\* what the list means.
LEMMA ChildRuns ==
  ASSUME NEW st, NEW m, NEW D, D \subseteq Own, NEW b \in Nat, NEW n \in Nat, b + n <= MaxFd + 1,
         NEW rs, DOMAIN rs = 1 .. n, \A i \in 1 .. n : PlainNode(rs[i]), ChildHas(st, m, D, b)
  PROVE  LET c == FoldLeft(ChildRedirects, st, rs)
         IN  IF \E i \in 1 .. n : Unopened(rs[i]) THEN c.dead = TRUE ELSE ChildHas(c, AllMeant(m, rs), D, b + n)
<1>1. PICK f : Results("child", f, st, rs, n) /\ f[n] = FoldLeft(ChildRedirects, st, rs)
  BY ChildFold
<1>2. PICK e : Results("meant", e, m, rs, n) /\ e[n] = AllMeant(m, rs)
  BY MeantFold
<1>3. /\ f[0] = st /\ e[0] = m
      /\ \A k \in 1 .. n : f[k] = ChildRedirects(f[k - 1], rs[k]) /\ e[k] = Meant(e[k - 1], rs[k])
  <2>1. \A s, r : Apply("child", s, r) = ChildRedirects(s, r) /\ Apply("meant", s, r) = Meant(s, r)
    BY DEF Apply
  <2> QED
    BY <1>1, <1>2, <2>1 DEF Results
<1> DEFINE P(k) == IF \E i \in 1 .. k : Unopened(rs[i]) THEN f[k].dead = TRUE ELSE ChildHas(f[k], e[k], D, b + k)
           T == {k \in 0 .. n : P(k)}
<1>4. 0 \in T
  <2>1. b + 0 = b /\ 0 \in 0 .. n /\ ~ \E i \in 1 .. 0 : Unopened(rs[i])
    OBVIOUS
  <2> QED
    BY <1>3, <2>1
<1>5. ASSUME NEW k \in 0 .. n - 1, k \in T PROVE k + 1 \in T
  <2>1. k + 1 \in 1 .. n /\ k + 1 \in 0 .. n /\ k + 1 - 1 = k /\ b + k \in Nat /\ b + k <= MaxFd /\ b + k + 1 = b + (k + 1)
    BY Numbers
  <2>2. f[k + 1] = ChildRedirects(f[k], rs[k + 1]) /\ e[k + 1] = Meant(e[k], rs[k + 1])
    BY <1>3, <2>1
  <2>3. (\E i \in 1 .. k + 1 : Unopened(rs[i])) <=> (\E i \in 1 .. k : Unopened(rs[i])) \/ Unopened(rs[k + 1])
    OBVIOUS
  <2>4. P(k)
    BY <1>5
  <2>5. CASE \E i \in 1 .. k : Unopened(rs[i])
    <3>1. f[k].dead = TRUE
      BY <2>4, <2>5
    <3>2. f[k + 1] = f[k]
      BY <2>2, <3>1 DEF ChildRedirects
    <3> QED
      BY <2>1, <2>3, <2>5, <3>1, <3>2
  <2>6. CASE ~ \E i \in 1 .. k : Unopened(rs[i])
    <3>1. ChildHas(f[k], e[k], D, b + k)
      BY <2>4, <2>6
    <3>2. PlainNode(rs[k + 1])
      BY <2>1
    <3>3. /\ Unopened(rs[k + 1]) => f[k + 1].dead = TRUE
          /\ ~ Unopened(rs[k + 1]) => ChildHas(f[k + 1], e[k + 1], D, b + (k + 1))
      <4> DEFINE x == f[k]
                 y == e[k]
                 r == rs[k + 1]
                 d == b + k
      <4>1. ChildHas(x, y, D, d) /\ PlainNode(r) /\ d \in Nat /\ d <= MaxFd
        BY <2>1, <3>1, <3>2
      <4>2. f[k + 1] = ChildRedirects(x, r) /\ e[k + 1] = Meant(y, r) /\ d + 1 = b + (k + 1)
        BY <2>1, <2>2
      <4> HIDE DEF x, y, r, d
      <4>3. /\ Unopened(r) => ChildRedirects(x, r).dead = TRUE
            /\ ~ Unopened(r) => ChildHas(ChildRedirects(x, r), Meant(y, r), D, d + 1)
        BY <4>1, ChildStep
      <4> QED
        BY <4>2, <4>3 DEF r
    <3> QED
      BY <2>1, <2>3, <2>6, <3>3
  <2> QED
    BY <2>5, <2>6
<1>6. n \in T
  <2> HIDE DEF T
  <2>1. 0 .. n \subseteq T
    BY <1>4, <1>5, Induction
  <2> QED
    BY <2>1
<1> QED
  BY <1>1, <1>2, <1>6

\* The ends of a pipe hold it, in numbers below the bound.
LEMMA PipeHolds ==
  ASSUME NEW t, IsTable(t), StdOpen(t), NEW h \in Nat, h >= 3, h + 2 <= MaxFd,
         NEW p, \A n \in Fds : n >= h /\ n # p => t[n] = Closed, NEW s
  PROVE  LET e == PipeEnds(t)
             u == OpenEnds(t, e, s)
         IN  e.w < h + 3 /\ u[e.r] = <<"pipe", s, "read">> /\ u[e.w] = <<"pipe", s, "write">>
<1> DEFINE e == PipeEnds(t)
           u == OpenEnds(t, e, s)
           o == <<"pipe">>
           x == <<"pipe", s, "read">>
           y == <<"pipe", s, "write">>
           t1 == Put(t, e.r, o)
           u1 == Put(t, e.r, x)
           u2 == Put(u1, e.w, y)
<1>1. EndsOpened(t, u, e, h)
  BY PipeTaken
<1>2. e.r \in Own /\ e.w \in Own /\ e.w # e.r /\ e # NoEnds
  BY <1>1 DEF EndsOpened
<1>3. e.w = Lowest(t1)
  BY DEF PipeEnds
<1>4. u = u2
  BY <1>2 DEF OpenEnds
<1> HIDE DEF e, u, x, y, o
<1>5. e.r \in Fds /\ e.w \in Fds /\ e.w \in Int
  BY <1>2, OwnNumbers
<1>6. IsTable(t1) /\ \A m \in Fds : m # e.r => t1[m] = t[m]
  BY <1>5, PutAt
<1> HIDE DEF t1
<1>7. h \in Fds /\ h + 1 \in Fds /\ h + 2 \in Fds /\ h # h + 1 /\ h + 1 # h + 2 /\ h # h + 2
  BY Numbers
<1>8. PICK b \in {h, h + 1, h + 2} : b # p /\ b # e.r
  <2>1. \E b \in {h, h + 1, h + 2} : b # p /\ b # e.r
    BY <1>7
  <2> QED
    BY <2>1
<1>9. b \in Fds /\ b >= h /\ b < h + 3
  BY <1>7
<1>10. t1[b] = Closed
  BY <1>6, <1>8, <1>9
<1>11. e.w <= b
  BY <1>3, <1>9, <1>10, LowestFree
<1>12. IsTable(u1) /\ u1[e.r] = x
  BY <1>5, PutAt
<1> HIDE DEF u1
<1>13. u2[e.w] = y /\ u2[e.r] = x
  BY <1>2, <1>5, <1>12, PutAt
<1> HIDE DEF u2
<1>14. e.w < h + 3
  <2>1. b \in Int /\ h \in Int
    BY <1>9, Numbers
  <2> QED
    BY <1>5, <1>9, <1>11, <2>1
<1> QED
  BY <1>4, <1>13, <1>14 DEF e, u, x, y

\* The redirections a child may be given
ChildList(rs) ==
  /\ Len(rs) \in 0 .. MaxRedirections + 1 /\ DOMAIN rs = 1 .. Len(rs)
  /\ \A i \in 1 .. Len(rs) : rs[i].kind \in Kinds

\* The end a child's output goes to
OutEnd(next, cap) == IF next # NoEnds THEN next.w ELSE cap.w

\* The shell with the ends D open, among them q and the ends of next and cap, when
\* it starts a child whose output is y.
Holding(int, h, t, q, u, D, next, cap, y) ==
  /\ D \subseteq Own /\ \A n \in D : int[n] = Closed /\ n < h + 3
  /\ IsTable(u) /\ Agree(u, int, D)
  /\ q \in D \union {-1} /\ (q # -1 => u[q] = t[q])
  /\ \A n \in Fds : n \in {q, next.r, next.w, cap.r, cap.w} <=> n \in D
  /\ OutEnd(next, cap) \in D \union {-1}
  /\ y # Closed /\ y = IF OutEnd(next, cap) = -1 THEN int[1] ELSE u[OutEnd(next, cap)]

\* A child k was started as the list rs over the table m says.
Fits(k, m, rs) ==
  IF \E i \in 1 .. Len(rs) : Unopened(rs[i]) THEN k.dead = TRUE ELSE k.dead = FALSE /\ k.sees = AllMeant(m, rs)

\* A child that was forked with the table u, in which the ends S of pipes are open
\* besides what the shell means to have, and two of them may be its input and output.
LEMMA ChildSees ==
  ASSUME NEW int, IsTable(int), StdOpen(int), NEW h \in Nat, h >= 3, h + MaxRedirections + 3 <= MaxFd, ClosedFrom(int, h),
         NEW t, NEW p, NEW u, NEW D, NEW next, NEW cap, NEW y, Holding(int, h, t, p, u, D, next, cap, y),
         NEW x, x # Closed, p = -1 => x = int[0], p # -1 => x = t[p], NEW rs, ChildList(rs), Plain(rs)
  PROVE  Fits(Child(u, p, next, cap, rs), [int EXCEPT ![0] = x, ![1] = y], rs)
<1> DEFINE o == OutEnd(next, cap)
<1>1. /\ D \subseteq Own /\ \A i \in D : int[i] = Closed /\ i < h + 3
      /\ IsTable(u) /\ Agree(u, int, D) /\ p \in D \union {-1} /\ (p # -1 => u[p] = t[p])
  BY DEF Holding
<1>2. \A i \in Fds : i \in {p, next.r, next.w, cap.r, cap.w} <=> i \in D
  BY DEF Holding
<1>3. o \in D \union {-1} /\ y # Closed
  BY DEF Holding
<1>4. y = IF o = -1 THEN int[1] ELSE u[o]
  BY DEF Holding
<1>5. o = IF next # NoEnds THEN next.w ELSE cap.w
  BY DEF OutEnd
<1>6. x = IF p = -1 THEN int[0] ELSE u[p]
  BY <1>1
<1> HIDE DEF o
<1> DEFINE S == {p, next.r, next.w, cap.r, cap.w}
           a == IF p >= 0 THEN Dup2(u, p, 0) ELSE u
           b == IF o >= 0 THEN Dup2(a, o, 1) ELSE a
           st == [t |-> b, opened |-> {}, dead |-> FALSE]
           c == FoldLeft(ChildRedirects, st, rs)
           m == [int EXCEPT ![0] = x, ![1] = y]
           n == Len(rs)
           k == Child(u, p, next, cap, rs)
           v == CloseAll(c.t, S \union c.opened)
<1>7. k = [dead |-> c.dead, sees |-> v] /\ \A i \in Fds : i \in S <=> i \in D
  <2>1. k = [dead |-> c.dead, sees |-> v]
    BY <1>5 DEF Child, ChildCloses
  <2>2. \A i \in Fds : i \in S <=> i \in D
    BY <1>2
  <2> QED
    BY <2>1, <2>2
<1> HIDE DEF S, k
<1>8. 0 \in Fds /\ 1 \in Fds /\ 0 \notin D /\ 1 \notin D /\ \A i \in D : i \in Fds /\ i >= 0 /\ i # 0 /\ i # 1 /\ i \in Int
  BY <1>1, Numbers, OwnNumbers DEF Own
<1>9. IsTable(a) /\ a[0] = x /\ \A i \in Fds : i # 0 => a[i] = u[i]
  <2>1. p = -1 \/ (p \in Own /\ u[p] # Closed)
    BY <1>1, <1>6
  <2>2. IsTable(a) /\ a[0] = (IF p = -1 THEN u[0] ELSE u[p]) /\ \A i \in Fds : i # 0 => a[i] = u[i]
    <3>1. 0 \in Fds
      BY <1>8
    <3> QED
      BY <1>1, <2>1, <3>1, Piped
  <2>3. u[0] = int[0]
    BY <1>1, <1>8 DEF Agree
  <2> HIDE DEF a
  <2> QED
    BY <1>6, <2>2, <2>3
<1> HIDE DEF a
<1>10. IsTable(b) /\ b[0] = x /\ b[1] = y /\ \A i \in Fds : i # 0 /\ i # 1 => b[i] = u[i]
  <2>1. o = -1 \/ (o \in Own /\ a[o] = u[o] /\ a[o] # Closed)
    <3>1. CASE o = -1
      BY <3>1
    <3>2. CASE o # -1
      <4>1. o \in D /\ o \in Own /\ u[o] # Closed
        BY <1>1, <1>4, <1>3, <3>2
      <4> QED
        BY <1>8, <1>9, <4>1
    <3> QED
      BY <3>1, <3>2
  <2>2. IsTable(b) /\ b[1] = (IF o = -1 THEN a[1] ELSE a[o]) /\ \A i \in Fds : i # 1 => b[i] = a[i]
    <3>1. IsTable(a) /\ 1 \in Fds /\ (o = -1 \/ (o \in Own /\ a[o] # Closed))
      BY <1>8, <1>9, <2>1
    <3> QED
      BY <3>1, Piped
  <2>3. a[1] = int[1]
    BY <1>1, <1>8, <1>9 DEF Agree
  <2> HIDE DEF b
  <2> QED
    BY <1>8, <1>9, <1>4, <2>1, <2>2, <2>3
<1> HIDE DEF b
<1>11. IsTable(m) /\ m[0] = x /\ m[1] = y /\ \A i \in Fds : i # 0 /\ i # 1 => m[i] = int[i]
  <2> DEFINE m1 == Put(int, 0, x)
             m2 == Put(m1, 1, y)
  <2>1. m = m2
    BY DEF Put
  <2>2. IsTable(m1) /\ m1[0] = x /\ \A i \in Fds : i # 0 => m1[i] = int[i]
    BY <1>8, PutAt
  <2> HIDE DEF m, m1
  <2>3. IsTable(m2) /\ m2[1] = y /\ \A i \in Fds : i # 1 => m2[i] = m1[i]
    BY <1>8, <2>2, PutAt
  <2> HIDE DEF m2
  <2> QED
    BY <1>8, <2>1, <2>2, <2>3
<1> HIDE DEF m
<1>12. st.t = b /\ st.opened = {} /\ st.dead = FALSE /\ st = [t |-> st.t, opened |-> st.opened, dead |-> FALSE]
  OBVIOUS
<1> HIDE DEF st
<1>13. ChildHas(st, m, D, h + 3)
  <2>1. StdOpen(m)
    BY <1>11, <1>3, Numbers DEF StdOpen
  <2>2. \A i \in D \union {} : m[i] = Closed
    BY <1>1, <1>8, <1>11
  <2>3. Agree(b, m, D \union {})
    BY <1>1, <1>10, <1>11 DEF Agree
  <2>4. ClosedFrom(b, h + 3)
    <3>1. SUFFICES ASSUME NEW i \in Fds, i >= h + 3 PROVE b[i] = Closed
      BY DEF ClosedFrom
    <3>2. i \in Int /\ i # 0 /\ i # 1 /\ i >= h /\ i \notin D
      BY <1>1, <1>8, <3>1, Numbers
    <3> QED
      BY <1>1, <1>10, <3>2 DEF Agree, ClosedFrom
  <2> QED
    BY <1>10, <1>11, <1>12, <2>1, <2>2, <2>3, <2>4 DEF ChildHas
<1>14. n \in Nat /\ h + 3 \in Nat /\ h + 3 + n <= MaxFd + 1 /\ DOMAIN rs = 1 .. n
  BY Numbers, BoundsAssumption DEF ChildList
<1>15. \A i \in 1 .. n : PlainNode(rs[i])
  BY DEF ChildList, Plain, PlainNode, PlainOne
<1> HIDE DEF n
<1>16. IF \E i \in 1 .. n : Unopened(rs[i]) THEN c.dead = TRUE ELSE ChildHas(c, AllMeant(m, rs), D, h + 3 + n)
  BY <1>1, <1>13, <1>14, <1>15, ChildRuns
<1> HIDE DEF c
<1>17. ASSUME ChildHas(c, AllMeant(m, rs), D, h + 3 + n)
       PROVE  c.dead = FALSE /\ v = AllMeant(m, rs)
  <2> DEFINE e == AllMeant(m, rs)
             l == h + 3 + n
  <2>1. ChildHas(c, e, D, l)
    BY <1>17
  <2> HIDE DEF e, l, v
  <2>2. D \subseteq Own
    BY <1>1
  <2>3. \A i \in Fds : i \in S <=> i \in D
    BY <1>7
  <2>4. c.dead = FALSE /\ CloseAll(c.t, S \union c.opened) = e
    BY <2>1, <2>2, <2>3, ChildClosed, Zenon
  <2> QED
    BY <2>4 DEF e, v
<1>18. IF \E i \in 1 .. n : Unopened(rs[i]) THEN c.dead = TRUE ELSE c.dead = FALSE /\ v = AllMeant(m, rs)
  BY <1>16, <1>17
<1> HIDE DEF v
<1>19. IF \E i \in 1 .. n : Unopened(rs[i]) THEN k.dead = TRUE ELSE k.dead = FALSE /\ k.sees = AllMeant(m, rs)
  BY <1>7, <1>18
<1> QED
  BY <1>19 DEF Fits, m, n, k

\* The ends p and those of e, of which p may be none
EndsOf(p, e) == {p, e.r, e.w} \ {-1}

\* The new ends are the shell's own, hold the pipe s, and nothing else changed.
Adds(t, int, h, p, s, e, u) ==
  /\ EndsOf(p, e) \subseteq Own /\ \A m \in EndsOf(p, e) : int[m] = Closed /\ m < h + 3
  /\ IsTable(u) /\ Agree(u, int, EndsOf(p, e))
  /\ e # NoEnds /\ e.r \in Own /\ e.w \in Own /\ e.r # p /\ e.r # e.w
  /\ u[e.r] = <<"pipe", s, "read">> /\ u[e.w] = <<"pipe", s, "write">>
  /\ p # -1 => u[p] = t[p]

\* The ends the shell holds while it starts a stage that writes into a pipe
LEMMA EndsAdded ==
  ASSUME NEW t, IsTable(t), StdOpen(t), NEW int, NEW h \in Nat, h >= 3, h + 2 <= MaxFd, ClosedFrom(int, h),
         NEW p, EndKept(p, int, h), p # -1 => t[p] # Closed, Agree(t, int, {p}), NEW s,
         NEW e, e = PipeEnds(t), NEW u, u = OpenEnds(t, e, s)
  PROVE  Adds(t, int, h, p, s, e, u)
<1> DEFINE D == EndsOf(p, e)
<1> USE DEF EndsOf
<1>1. \A m \in Fds : m # p => t[m] = int[m]
  BY DEF Agree
<1>2. \A m \in Fds : m >= h /\ m # p => t[m] = Closed
  BY <1>1 DEF ClosedFrom
<1>3. EndsOpened(t, u, e, h)
  BY <1>2, PipeTaken
<1>4. e.w < h + 3 /\ u[e.r] = <<"pipe", s, "read">> /\ u[e.w] = <<"pipe", s, "write">>
  BY <1>2, PipeHolds
<1>5. /\ e.r \in Own /\ e.r < h + 2 /\ t[e.r] = Closed
      /\ e.w \in Own /\ t[e.w] = Closed /\ e.w # e.r
      /\ e # NoEnds /\ IsTable(u) /\ \A m \in Fds : m # e.r /\ m # e.w => u[m] = t[m]
  BY <1>3 DEF EndsOpened
<1>6. p = -1 \/ (p \in Own /\ p < h + 2 /\ int[p] = Closed /\ t[p] # Closed)
  BY DEF EndKept
<1>7. e.r # p /\ e.w # p
  BY <1>5, <1>6, OwnNumbers
<1>8. int[e.r] = Closed /\ int[e.w] = Closed
  BY <1>1, <1>5, <1>7, OwnNumbers
<1>9. D \subseteq Own /\ \A m \in D : int[m] = Closed /\ m < h + 3
  <2>1. SUFFICES ASSUME NEW m \in D PROVE m \in Own /\ int[m] = Closed /\ m < h + 3
    OBVIOUS
  <2>2. m = p \/ m = e.r \/ m = e.w
    OBVIOUS
  <2>3. m # -1
    OBVIOUS
  <2> HIDE DEF D
  <2>4. m \in Own /\ int[m] = Closed
    BY <1>5, <1>6, <1>8, <2>2, <2>3
  <2>5. m < h + 2 \/ m < h + 3
    BY <1>4, <1>5, <1>6, <2>2, <2>3
  <2>6. m \in Int
    BY <2>4, OwnNumbers
  <2> QED
    BY <2>4, <2>5, <2>6
<1>10. Agree(u, int, D)
  <2>1. SUFFICES ASSUME NEW m \in Fds, m \notin D PROVE u[m] = int[m]
    BY DEF Agree
  <2>2. m # -1
    BY Numbers
  <2>3. m # p /\ m # e.r /\ m # e.w
    BY <2>1, <2>2
  <2> QED
    BY <1>1, <1>5, <2>3
<1>11. p # -1 => u[p] = t[p]
  BY <1>5, <1>6, <1>7, OwnNumbers
<1> HIDE DEF D
<1> QED
  BY <1>4, <1>5, <1>7, <1>9, <1>10, <1>11 DEF Adds, D

\* Every stage is a list of redirections for a child, and one after the first holds
\* the read end of the pipe before it.
Stages(specs) == Len(specs) \in Nat /\ \A i \in 1 .. Len(specs) : ChildList(specs[i])
PrevHolds(p, t) ==
  p.i <= Len(p.specs) => IF p.i = 1 THEN p.prev = -1
                         ELSE p.prev \in Own /\ t[p.prev] = <<"pipe", p.i - 1, "read">>

\* A program that was started as its stage says
Seen(c) == Plain(c.rs) =>
             IF \E r \in ToSet(c.rs) : Unopened(r) THEN c.dead = TRUE ELSE c.dead = FALSE /\ c.sees = c.wants

\* The input of stage i
InputOf(int, i) == IF i = 1 THEN int[0] ELSE <<"pipe", i - 1, "read">>

\* The child of stage i is given the pipe before it and the output y.
LEMMA StageStarts ==
  ASSUME NEW int, IsTable(int), StdOpen(int), NEW h \in Nat, h >= 3, h + MaxRedirections + 3 <= MaxFd, ClosedFrom(int, h),
         NEW p, NEW t, p.i <= Len(p.specs), PrevHolds(p, t), NEW u, NEW D, NEW next, NEW cap, NEW y,
         Holding(int, h, t, p.prev, u, D, next, cap, y),
         NEW x, x = InputOf(int, p.i), NEW rs, ChildList(rs), Plain(rs)
  PROVE  Fits(Child(u, p.prev, next, cap, rs), [int EXCEPT ![0] = x, ![1] = y], rs)
<1>1. x # Closed /\ (p.prev = -1 => x = int[0]) /\ (p.prev # -1 => x = t[p.prev])
  <2>1. CASE p.i = 1
    <3>1. p.prev = -1 /\ x = int[0]
      BY <2>1 DEF PrevHolds, InputOf
    <3> QED
      BY <3>1, Numbers DEF StdOpen
  <2>2. CASE p.i # 1
    <3> DEFINE s == p.i - 1
    <3>1. p.prev \in Own /\ p.prev # -1 /\ x = <<"pipe", s, "read">> /\ t[p.prev] = x
      BY <2>2, OwnNumbers DEF PrevHolds, InputOf
    <3> HIDE DEF s
    <3>2. Len(x) = 3 /\ Len(Closed) = 1
      BY <3>1 DEF Closed
    <3>3. x # Closed
      BY <3>2
    <3> QED
      BY <3>1, <3>3
  <2> QED
    BY <2>1, <2>2
<1> QED
  BY <1>1, ChildSees

\* A child that writes into a pipe made for it, to the next stage or for the output
\* to be captured
LEMMA HoldsNew ==
  ASSUME NEW t, IsTable(t), StdOpen(t), NEW int, NEW h \in Nat, h >= 3, h + 2 <= MaxFd, ClosedFrom(int, h),
         NEW p, EndKept(p, int, h), p # -1 => t[p] # Closed, Agree(t, int, {p}), NEW s,
         NEW e, e = PipeEnds(t), NEW u, u = OpenEnds(t, e, s), NEW y, y = <<"pipe", s, "write">>
  PROVE  \E D : Holding(int, h, t, p, u, D, e, NoEnds, y) /\ Holding(int, h, t, p, u, D, NoEnds, e, y)
<1> DEFINE D == EndsOf(p, e)
<1>1. /\ D \subseteq Own /\ \A m \in D : int[m] = Closed /\ m < h + 3
      /\ IsTable(u) /\ Agree(u, int, D)
      /\ e # NoEnds /\ e.r \in Own /\ e.w \in Own /\ e.r # p /\ e.r # e.w
      /\ u[e.r] = <<"pipe", s, "read">> /\ u[e.w] = y
      /\ p # -1 => u[p] = t[p]
  <2>1. Adds(t, int, h, p, s, e, u)
    BY EndsAdded
  <2> QED
    BY <2>1 DEF Adds
<1>2. y # Closed
  <2>1. Len(y) = 3 /\ Len(Closed) = 1
    BY DEF Closed
  <2> QED
    BY <2>1
<1> USE DEF EndsOf
<1>3. OutEnd(e, NoEnds) = e.w /\ OutEnd(NoEnds, e) = e.w /\ e.w # -1 /\ e.w \in D /\ p \in D \union {-1}
  BY <1>1, OwnNumbers DEF OutEnd
<1>4. NoEnds.r = -1 /\ NoEnds.w = -1 /\ \A n \in Fds : n # -1
  BY Numbers DEF NoEnds
<1>5. /\ \A n \in Fds : n \in {p, e.r, e.w, NoEnds.r, NoEnds.w} <=> n \in D
      /\ \A n \in Fds : n \in {p, NoEnds.r, NoEnds.w, e.r, e.w} <=> n \in D
  BY <1>4
<1> HIDE DEF D
<1>6. Holding(int, h, t, p, u, D, e, NoEnds, y)
  BY <1>1, <1>2, <1>3, <1>5 DEF Holding
<1>7. Holding(int, h, t, p, u, D, NoEnds, e, y)
  BY <1>1, <1>2, <1>3, <1>5 DEF Holding
<1> QED
  BY <1>1, <1>6, <1>7

\* A child that writes where the shell does
LEMMA HoldsOld ==
  ASSUME NEW t, IsTable(t), NEW int, StdOpen(int), NEW h \in Nat, NEW p, EndKept(p, int, h), Agree(t, int, {p})
  PROVE  \E D : Holding(int, h, t, p, t, D, NoEnds, NoEnds, int[1])
<1> DEFINE D == {p} \ {-1}
<1>1. p = -1 \/ (p \in Own /\ p < h + 2 /\ int[p] = Closed)
  BY DEF EndKept
<1>2. D \subseteq Own /\ \A m \in D : int[m] = Closed /\ m < h + 3
  BY <1>1, OwnNumbers
<1>3. Agree(t, int, D)
  BY Numbers DEF Agree
<1>4. NoEnds.r = -1 /\ NoEnds.w = -1 /\ OutEnd(NoEnds, NoEnds) = -1
  BY DEF NoEnds, OutEnd
<1>5. \A n \in Fds : n \in {p, NoEnds.r, NoEnds.w, NoEnds.r, NoEnds.w} <=> n \in D
  BY <1>4, Numbers
<1>6. int[1] # Closed /\ p \in D \union {-1}
  BY Numbers DEF StdOpen
<1> HIDE DEF D
<1>7. Holding(int, h, t, p, t, D, NoEnds, NoEnds, int[1])
  BY <1>2, <1>3, <1>4, <1>5, <1>6 DEF Holding
<1> QED
  BY <1>7

\* Every process is started as its stage says, and the shell keeps the end that the
\* next one reads.
LEMMA ForkSees ==
  ASSUME RedirectInv, plain, Fork, Stages(pipeline.specs), PrevHolds(pipeline, table)
  PROVE  PrevHolds(pipeline', table') /\ \E c : programs' = Append(programs, c) /\ Seen(c)
<1> DEFINE p == pipeline
           q == pipeline'
           t == table
           h == Height - 2
           n == Len(p.specs)
           rs == p.specs[p.i]
           next == IF p.i < n THEN PipeEnds(t) ELSE NoEnds
           t1 == OpenEnds(t, next, p.i)
           cap == IF p.i = n /\ p.capture THEN PipeEnds(t1) ELSE NoEnds
           t2 == OpenEnds(t1, cap, 0)
           x == InputOf(Expected, p.i)
           y == IF p.i < n THEN <<"pipe", p.i, "write">>
                ELSE IF p.capture THEN <<"pipe", 0, "write">> ELSE Expected[1]
           k == Child(t2, p.prev, next, cap, rs)
           m == [Expected EXCEPT ![0] = x, ![1] = y]
           c == [dead |-> k.dead, sees |-> k.sees, wants |-> AllMeant(m, rs), rs |-> rs]
           v == CloseAll(t2, {p.prev, next.w, cap.w})
<1>1. Entitled(p.i, n) = AllMeant(m, rs)
  BY DEF Entitled, InputOf
<1>2. /\ p # NoPipeline /\ p.i <= n /\ table' = v
      /\ q = [p EXCEPT !.i = p.i + 1, !.prev = next.r, !.read = cap.r]
      /\ programs' = Append(programs, [dead |-> k.dead, sees |-> k.sees, wants |-> Entitled(p.i, n), rs |-> rs])
  BY Zenon DEF Fork
<1>3. programs' = Append(programs, c)
  BY <1>1, <1>2
<1>4. /\ produced \in 1 .. MaxCommands /\ PipelineOK(p, t, Expected, h)
      /\ IsTable(t) /\ IsTable(Expected) /\ StdOpen(Expected)
  BY <1>2, PipelineFinds
<1>5. h \in Nat /\ h >= 3 /\ h + 2 <= MaxFd /\ h + MaxRedirections + 3 <= MaxFd
  BY <1>4, Heights, Numbers, BoundsAssumption DEF Height
<1>6. PrevHolds(p, t) /\ Stages(p.specs)
  OBVIOUS
<1> HIDE DEF p, q, h, x
<1>7. /\ p = [specs |-> p.specs, i |-> p.i, prev |-> p.prev, capture |-> p.capture, read |-> p.read]
      /\ p.i \in Nat \ {0} /\ EndKept(p.prev, Expected, h) /\ p.read = -1
      /\ Agree(t, Expected, {p.prev}) /\ ClosedFrom(Expected, h)
  <2>1. /\ p = [specs |-> p.specs, i |-> p.i, prev |-> p.prev, capture |-> p.capture, read |-> p.read]
        /\ p.i \in Nat \ {0} /\ EndKept(p.prev, Expected, h) /\ p.read = -1
        /\ Agree(t, Expected, {p.prev, p.read}) /\ ClosedFrom(Expected, h)
    BY <1>2, <1>4 DEF PipelineOK
  <2> QED
    BY <2>1, Numbers DEF Agree
<1>8. StdOpen(t)
  <2>1. \A i \in Std : i # p.prev /\ i \in Fds
    BY <1>7, Numbers DEF EndKept, Own
  <2> QED
    BY <1>4, <1>7, <2>1 DEF StdOpen, Agree
<1>9. p.prev # -1 => t[p.prev] # Closed
  <2>1. SUFFICES ASSUME p.prev # -1 PROVE t[p.prev] # Closed
    OBVIOUS
  <2>2. \E s : t[p.prev] = <<"pipe", s, "read">>
    BY <1>2, <1>6, <2>1 DEF PrevHolds
  <2>3. PICK s : t[p.prev] = <<"pipe", s, "read">>
    BY <2>2
  <2>4. Len(t[p.prev]) = 3 /\ Len(Closed) = 1
    BY <2>3 DEF Closed
  <2> QED
    BY <2>4
<1>10. n \in Nat /\ p.i \in 1 .. n /\ ChildList(rs)
  BY <1>2, <1>6, <1>7 DEF Stages
<1>11. q.specs = p.specs /\ q.i = p.i + 1 /\ q.prev = next.r
  <2> DEFINE a == next.r
             b == cap.r
  <2> HIDE DEF next, cap
  <2> QED
    BY <1>2, <1>7
<1> HIDE DEF rs
<1>12. (\E D : Holding(Expected, h, t, p.prev, t2, D, next, cap, y)) /\ PrevHolds(q, v)
  <2>1. CASE p.i < n
    <3> DEFINE e == PipeEnds(t)
               u == OpenEnds(t, e, p.i)
               z == <<"pipe", p.i, "write">>
    <3>1. next = e /\ cap = NoEnds /\ y = z
      BY <1>7, <2>1
    <3>2. t2 = u
      BY <3>1 DEF OpenEnds
    <3>3. /\ \E D : Holding(Expected, h, t, p.prev, u, D, e, NoEnds, z)
          /\ e.r \in Own /\ e.r # p.prev /\ e.r # e.w /\ u[e.r] = <<"pipe", p.i, "read">>
      <4> DEFINE s == p.i
      <4>1. e = PipeEnds(t) /\ u = OpenEnds(t, e, s) /\ z = <<"pipe", s, "write">>
        OBVIOUS
      <4> HIDE DEF s, e, u, z, next, cap, t1, t2, y, v
      <4>2. \E D : Holding(Expected, h, t, p.prev, u, D, e, NoEnds, z) /\ Holding(Expected, h, t, p.prev, u, D, NoEnds, e, z)
        BY <1>4, <1>5, <1>7, <1>8, <1>9, <4>1, HoldsNew
      <4>3. e # NoEnds /\ e.r \in Own /\ e.r # p.prev /\ e.r # e.w /\ u[e.r] = <<"pipe", s, "read">>
        <5>1. Adds(t, Expected, h, p.prev, s, e, u)
          BY <1>4, <1>5, <1>7, <1>8, <1>9, <4>1, EndsAdded
        <5> QED
          BY <5>1 DEF Adds
      <4> QED
        BY <4>2, <4>3 DEF s
    <3> HIDE DEF e, u, z, next, cap, t2, y
    <3>4. NoEnds.w = -1 /\ e.r # -1 /\ e.r \in Fds
      BY <3>3, OwnNumbers DEF NoEnds
    <3>5. v[e.r] = <<"pipe", p.i, "read">>
      <4>1. v[e.r] = IF e.r \in {p.prev, next.w, cap.w} THEN Closed ELSE u[e.r]
        BY <3>2, <3>4, CloseAllAt
      <4> QED
        BY <3>1, <3>3, <3>4, <4>1
    <3> HIDE DEF v
    <3>6. q.i # 1 /\ q.i - 1 = p.i
      BY <1>7, <1>11
    <3>7. PrevHolds(q, v)
      BY <1>11, <3>1, <3>3, <3>5, <3>6 DEF PrevHolds
    <3> QED
      BY <3>1, <3>2, <3>3, <3>7
  <2>2. CASE ~ (p.i < n)
    <3>1. p.i = n /\ next = NoEnds /\ t1 = t /\ ~ (p.i + 1 <= n)
      BY <1>7, <1>10, <2>2 DEF OpenEnds
    <3>2. PrevHolds(q, v)
      <4> HIDE DEF v, next
      <4> QED
        BY <1>11, <3>1 DEF PrevHolds
    <3>3. CASE p.capture
      <4> DEFINE e == PipeEnds(t)
                 u == OpenEnds(t, e, 0)
                 z == <<"pipe", 0, "write">>
      <4>1. cap = e /\ y = z
        <5> HIDE DEF t1
        <5> QED
          BY <2>2, <3>1, <3>3
      <4>2. t2 = u
        <5> HIDE DEF t1, cap
        <5> QED
          BY <3>1, <4>1
      <4>3. \E D : Holding(Expected, h, t, p.prev, u, D, NoEnds, e, z)
        <5>1. e = PipeEnds(t) /\ u = OpenEnds(t, e, 0) /\ z = <<"pipe", 0, "write">>
          OBVIOUS
        <5> HIDE DEF e, u, z, next, cap, t1, t2, y, v
        <5>2. \E D : Holding(Expected, h, t, p.prev, u, D, e, NoEnds, z) /\ Holding(Expected, h, t, p.prev, u, D, NoEnds, e, z)
          BY <1>4, <1>5, <1>7, <1>8, <1>9, <5>1, HoldsNew
        <5> QED
          BY <5>2
      <4> HIDE DEF e, u, z, next, cap, t2, y, t1, v
      <4> QED
        BY <3>1, <3>2, <4>1, <4>2, <4>3
    <3>4. CASE ~ p.capture
      <4>1. cap = NoEnds /\ y = Expected[1]
        BY <2>2, <3>4
      <4>2. t2 = t
        <5> HIDE DEF t1, cap
        <5> QED
          BY <3>1, <4>1 DEF OpenEnds
      <4>3. \E D : Holding(Expected, h, t, p.prev, t, D, NoEnds, NoEnds, Expected[1])
        BY <1>4, <1>5, <1>7, HoldsOld
      <4> HIDE DEF next, cap, t2, y, t1, v
      <4> QED
        BY <3>1, <3>2, <4>1, <4>2, <4>3
    <3> QED
      BY <3>3, <3>4
  <2> QED
    BY <2>1, <2>2
<1>13. Seen(c)
  <2>1. SUFFICES ASSUME Plain(rs) PROVE Fits(k, m, rs)
    <3>1. (\E r \in ToSet(rs) : Unopened(r)) <=> \E i \in 1 .. Len(rs) : Unopened(rs[i])
      BY <1>10 DEF ChildList, ToSet
    <3> HIDE DEF k, m
    <3> QED
      BY <3>1 DEF Seen, Fits
  <2>2. x = InputOf(Expected, p.i)
    BY DEF x
  <2> HIDE DEF next, cap, t2, y
  <2> QED
    BY <1>2, <1>4, <1>5, <1>6, <1>7, <1>10, <1>12, <2>1, <2>2, StageStarts
<1> HIDE DEF c, v
<1> QED
  BY <1>2, <1>3, <1>12, <1>13 DEF p, q, t

-----------------------------------------------------------------------------
(* What the stages of a pipeline are given *)

\* A written redirection is one of the kinds a child knows.
LEMMA WrittenKinds == \A r \in Redirections : r.kind \in Kinds
<1>1. SUFFICES ASSUME NEW w \in Written PROVE Parsed(w).kind \in Kinds
  BY DEF Redirections
<1>2. w.op \in {"<", ">", ">>", "2>", "2>>", "2>&1", "<<", "n<", "n>", "n>>", "n>&m", "n<&m", "n>&-"}
  BY WrittenAssumption
<1> QED
  BY <1>2 DEF Parsed, Duplication, Node, Kinds, Inputs, Outputs, Dups

\* The redirections of a command, with one more or without
LEMMA ListFits ==
  ASSUME NEW k \in 0 .. MaxRedirections, NEW rs \in Lists(k)
  PROVE  ChildList(rs) /\ \A r : r.kind \in Kinds => ChildList(Append(rs, r))
<1>1. PICK n \in 0 .. k : rs \in [1 .. n -> Redirections]
  BY DEF Lists
<1>2. n \in Nat /\ n \in 0 .. MaxRedirections /\ n + 1 \in 0 .. MaxRedirections + 1 /\ n \in 0 .. MaxRedirections + 1
  BY BoundsAssumption
<1>3. rs \in Seq(Redirections) /\ Len(rs) = n /\ DOMAIN rs = 1 .. n /\ \A i \in 1 .. n : rs[i].kind \in Kinds
  BY <1>1, <1>2, WrittenKinds
<1>4. ASSUME NEW r, r.kind \in Kinds PROVE ChildList(Append(rs, r))
  <2> DEFINE a == Append(rs, r)
  <2>1. Len(a) = n + 1 /\ DOMAIN a = 1 .. n + 1 /\ a[n + 1] = r /\ \A i \in 1 .. n : a[i] = rs[i]
    BY <1>2, <1>3
  <2> HIDE DEF a
  <2>2. \A i \in 1 .. n + 1 : a[i].kind \in Kinds
    BY <1>2, <1>3, <1>4, <2>1
  <2>3. ChildList(a)
    BY <1>2, <2>1, <2>2 DEF ChildList
  <2> QED
    BY <2>3 DEF a
<1> QED
  BY <1>2, <1>3, <1>4 DEF ChildList

\* The input of a group is a written redirection.
LEMMA InheritedKind ==
  ASSUME InputInv
  PROVE  inherited = NoInput \/ inherited.kind \in Kinds
<1> DEFINE n == Len(stack)
           G == Redirecting(stack, n)
<1>1. Shaped(stack) /\ inherited = InputAt(stack, n) /\ n \in Nat
  BY DEF InputInv, Inherits, Shaped, IsSeq
<1>2. CASE G = {}
  BY <1>1, <1>2 DEF InputAt
<1>3. CASE G # {}
  <2> DEFINE f == stack[Max(G)]
  <2>1. Max(G) \in G /\ G \subseteq 1 .. n
    <3>1. G \subseteq 1 .. n
      BY DEF Redirecting
    <3> QED
      BY <1>1, <1>3, <3>1, Greatest
  <2>2. IsFrame(f) /\ Affecting(f.rs) # {}
    BY <1>1, <2>1 DEF Redirecting, Shaped
  <2>3. inherited = LastInput(f.rs)
    BY <1>1, <1>3 DEF InputAt
  <2> HIDE DEF f
  <2>4. f.rs \in Lists(MaxRedirections)
    BY <2>2 DEF IsFrame
  <2>5. PICK k \in 0 .. MaxRedirections : f.rs \in [1 .. k -> Redirections]
    BY <2>4 DEF Lists
  <2>6. k \in Nat /\ Len(f.rs) = k
    BY <2>5
  <2>7. Max(Affecting(f.rs)) \in 1 .. k
    <3>1. Affecting(f.rs) \subseteq 1 .. k
      BY <2>6 DEF Affecting
    <3> QED
      BY <2>2, <2>6, <3>1, Greatest
  <2>8. LastInput(f.rs) \in Redirections
    BY <2>5, <2>7 DEF LastInput
  <2> QED
    BY <2>3, <2>8, WrittenKinds
<1> QED
  BY <1>2, <1>3

\* Pipelines of one stage or two, the first with what is added to it
LEMMA StagesOf ==
  ASSUME NEW k \in 1 .. MaxRedirections, NEW specs \in Single(k) \union Double
  PROVE  /\ specs[1] \in Lists(k)
         /\ \A rs : ChildList(rs) => Stages([specs EXCEPT ![1] = rs])
<1>0. k \in 0 .. MaxRedirections /\ 1 \in 0 .. MaxRedirections /\ <<>> \in Lists(k) /\ <<>> \in Lists(1)
      /\ \A rs \in Lists(1) : rs \in Lists(k)
  <2>1. MaxRedirections \in Nat \ {0} /\ k \in Nat /\ 0 \in 0 .. k /\ 0 \in 0 .. 1 /\ 0 .. 1 \subseteq 0 .. k
    BY BoundsAssumption
  <2>2. <<>> \in [1 .. 0 -> Redirections]
    OBVIOUS
  <2>3. <<>> \in Lists(k)
    BY <2>1, <2>2 DEF Lists
  <2>4. <<>> \in Lists(1)
    BY <2>1, <2>2 DEF Lists
  <2>5. \A rs \in Lists(1) : rs \in Lists(k)
    BY <2>1 DEF Lists
  <2>6. 1 \in 0 .. MaxRedirections /\ k \in 0 .. MaxRedirections
    BY <2>1
  <2> QED
    BY <2>3, <2>4, <2>5, <2>6
<1>1. ASSUME NEW a, NEW b, NEW rs, ChildList(rs), ChildList(b)
      PROVE  Stages([<<a>> EXCEPT ![1] = rs]) /\ Stages([<<a, b>> EXCEPT ![1] = rs])
  <2>1. [<<a>> EXCEPT ![1] = rs] = <<rs>> /\ [<<a, b>> EXCEPT ![1] = rs] = <<rs, b>>
    OBVIOUS
  <2>2. Stages(<<rs>>)
    BY <1>1 DEF Stages
  <2>3. Stages(<<rs, b>>)
    <3>1. Len(<<rs, b>>) = 2 /\ <<rs, b>>[1] = rs /\ <<rs, b>>[2] = b
      OBVIOUS
    <3>2. \A i \in 1 .. 2 : i = 1 \/ i = 2
      OBVIOUS
    <3> QED
      BY <1>1, <3>1, <3>2 DEF Stages
  <2> QED
    BY <2>1, <2>2, <2>3
<1>2. CASE \E a \in Lists(k) : specs = <<a>>
  <2>1. PICK a \in Lists(k) : specs = <<a>>
    BY <1>2
  <2> QED
    BY <1>0, <1>1, <2>1, ListFits
<1>3. CASE \E a \in Lists(1), b \in Lists(1) : specs = <<a, b>>
  <2>1. PICK a \in Lists(1), b \in Lists(1) : specs = <<a, b>>
    BY <1>3
  <2>2. ChildList(b)
    BY <1>0, ListFits
  <2>3. specs[1] \in Lists(k)
    BY <1>0, <2>1
  <2> QED
    BY <1>1, <2>1, <2>2, <2>3
<1> QED
  BY <1>0, <1>2, <1>3 DEF Single, Double

-----------------------------------------------------------------------------
(* The programs of a pipeline *)

\* Every program was started as its stage says, and the next one will be.
Started == plain => \A i \in 1 .. Len(programs) : Seen(programs[i])
Following == pipeline # NoPipeline => Stages(pipeline.specs) /\ (plain => PrevHolds(pipeline, table))
ProgramsInv == IsSeq(programs) /\ Started /\ Following

\* A pipeline starts with no program.
LEMMA LaunchStarts ==
  ASSUME NEW specs, NEW capture, Stages(specs), Launch(specs, capture)
  PROVE  ProgramsInv'
<1> DEFINE p == pipeline'
<1>1. p = [specs |-> specs, i |-> 1, prev |-> -1, capture |-> capture, read |-> -1] /\ programs' = <<>>
  BY DEF Launch
<1> HIDE DEF p
<1>2. p.specs = specs /\ p.i = 1 /\ p.prev = -1
  BY <1>1
<1>3. Stages(p.specs) /\ PrevHolds(p, table')
  BY <1>2 DEF PrevHolds
<1>4. IsSeq(<<>>) /\ Len(<<>>) = 0
  BY DEF IsSeq
<1> QED
  BY <1>1, <1>3, <1>4 DEF ProgramsInv, Started, Following, p

\* One case for each kind of step.
LEMMA ProgramsStep ==
  ASSUME RedirectInv, ProgramsInv, Next
  PROVE  ProgramsInv'
<1>1. CASE UNCHANGED <<pipeline, programs, table, plain>>
  BY <1>1 DEF ProgramsInv, Started, Following
<1>2. CASE pipeline = NoPipeline /\ UNCHANGED <<pipeline, programs>> /\ (plain' => plain)
  BY <1>2 DEF ProgramsInv, Started, Following
<1>3. CASE pipeline' = NoPipeline /\ UNCHANGED <<programs, plain>>
  BY <1>3 DEF ProgramsInv, Started, Following
<1>4. CASE exec # NoExec /\ UNCHANGED <<pipeline, programs, plain>>
  <2>1. plain => pipeline = NoPipeline
    BY <1>4 DEF RedirectInv, TablesKeep, Idle
  <2> QED
    BY <1>4, <2>1 DEF ProgramsInv, Started, Following
<1>5. CASE \E rs \in Lists(MaxRedirections) : Exec(rs)
  BY <1>2, <1>5 DEF Exec, CanRun, Idle
<1>6. CASE ExecRedirects \/ ExecSucceeds \/ ExecUnwinds
  BY <1>4, <1>6, Zenon DEF ExecRedirects, ExecSucceeds, ExecUnwinds
<1>7. CASE \E rs \in Lists(MaxRedirections) : Builtin(rs) \/ BuiltinUnredirected(rs)
  BY <1>2, <1>7 DEF Builtin, BuiltinUnredirected, CanRun, Idle
<1>8. CASE \E ok \in BOOLEAN : BuiltinEnds(ok) \/ GroupEnds(ok)
  <2>1. PICK ok \in BOOLEAN : BuiltinEnds(ok) \/ GroupEnds(ok)
    BY <1>8
  <2>2. CASE BuiltinEnds(ok)
    BY <1>2, <2>2, Zenon DEF BuiltinEnds, Idle
  <2>3. CASE GroupEnds(ok)
    BY <1>2, <2>3, Zenon DEF GroupEnds, Idle
  <2> QED
    BY <2>1, <2>2, <2>3
<1>9. CASE \E rs \in GroupTails(MaxRedirections) : Group(rs)
  BY <1>2, <1>9 DEF Group, CanRun, Idle
<1>10. CASE \E specs \in Single(MaxRedirections) \union Double, capture \in BOOLEAN : Pipeline(specs, capture)
  <2>1. PICK specs \in Single(MaxRedirections) \union Double, capture \in BOOLEAN : Pipeline(specs, capture)
    BY <1>10
  <2> DEFINE rs == WithInherited(specs[1])
  <2>2. Launch([specs EXCEPT ![1] = rs], capture)
    BY <2>1 DEF Pipeline
  <2>3. MaxRedirections \in 1 .. MaxRedirections /\ MaxRedirections \in 0 .. MaxRedirections
    BY BoundsAssumption
  <2>4. specs[1] \in Lists(MaxRedirections)
    BY <2>3, StagesOf
  <2>5. rs = specs[1] \/ (inherited # NoInput /\ rs = Append(specs[1], inherited))
    BY DEF WithInherited
  <2>6. InputInv
    BY DEF RedirectInv
  <2> HIDE DEF rs
  <2>7. ChildList(rs)
    BY <2>3, <2>4, <2>5, <2>6, ListFits, InheritedKind
  <2>8. Stages([specs EXCEPT ![1] = rs])
    BY <2>3, <2>7, StagesOf
  <2> QED
    BY <2>2, <2>8, LaunchStarts
<1>11. CASE \E specs \in Single(1) \union Double, capture \in BOOLEAN, text \in {"out", Empty} : PipelineFromBuiltin(specs, capture, text)
  <2>1. PICK specs \in Single(1) \union Double, capture \in BOOLEAN, text \in {"out", Empty} : PipelineFromBuiltin(specs, capture, text)
    BY <1>11
  <2> DEFINE r == [kind |-> "here", fd |-> 0, target |-> 0, path |-> text]
             rs == Append(specs[1], r)
  <2>2. Launch([specs EXCEPT ![1] = rs], capture)
    BY <2>1 DEF PipelineFromBuiltin
  <2>3. 1 \in 1 .. MaxRedirections /\ 1 \in 0 .. MaxRedirections
    BY BoundsAssumption
  <2>4. specs[1] \in Lists(1)
    BY <2>3, StagesOf
  <2>5. r.kind \in Kinds
    BY DEF Kinds
  <2> HIDE DEF r
  <2>6. ChildList(rs)
    BY <2>3, <2>4, <2>5, ListFits
  <2> HIDE DEF rs
  <2>7. Stages([specs EXCEPT ![1] = rs])
    BY <2>3, <2>6, StagesOf
  <2> QED
    BY <2>2, <2>7, LaunchStarts
<1>12. CASE \E rs \in Lists(1), capture \in BOOLEAN : ExecCommand(rs, capture)
  <2>1. PICK rs \in Lists(1), capture \in BOOLEAN : Launch(<<rs>>, capture)
    BY <1>12 DEF ExecCommand
  <2>2. 1 \in 0 .. MaxRedirections
    BY BoundsAssumption
  <2>3. ChildList(rs)
    BY <2>2, ListFits
  <2>4. Stages(<<rs>>)
    BY <2>3 DEF Stages
  <2> QED
    BY <2>1, <2>4, LaunchStarts
<1>13. CASE Fork
  <2>1. \E c : programs' = Append(programs, c) /\ (plain => Seen(c) /\ PrevHolds(pipeline', table'))
    <3>1. CASE plain
      <4>1. Stages(pipeline.specs) /\ PrevHolds(pipeline, table)
        BY <1>13, <3>1, Zenon DEF Fork, ProgramsInv, Following
      <4> QED
        BY <1>13, <3>1, <4>1, ForkSees
    <3>2. CASE ~ plain
      BY <1>13, <3>2, Zenon DEF Fork
    <3> QED
      BY <3>1, <3>2
  <2>2. PICK c : programs' = Append(programs, c) /\ (plain => Seen(c) /\ PrevHolds(pipeline', table'))
    BY <2>1
  <2>3. pipeline # NoPipeline /\ plain' = plain
    BY <1>13, Zenon DEF Fork
  <2>4. pipeline'.specs = pipeline.specs
    <3>1. \E r, s : pipeline' = [pipeline EXCEPT !.i = pipeline.i + 1, !.prev = r, !.read = s]
      BY <1>13, Zenon DEF Fork
    <3> QED
      BY <3>1
  <2>5. IsSeq(programs') /\ Len(programs') = Len(programs) + 1 /\ Len(programs) \in Nat
        /\ programs'[Len(programs) + 1] = c /\ \A i \in 1 .. Len(programs) : programs'[i] = programs[i]
    BY <2>2, AppendAny DEF ProgramsInv
  <2>6. Started'
    <3>1. SUFFICES ASSUME plain, NEW i \in 1 .. Len(programs) + 1 PROVE Seen(programs'[i])
      BY <2>3, <2>5 DEF Started
    <3>2. i \in 1 .. Len(programs) \/ i = Len(programs) + 1
      BY <2>5
    <3> QED
      BY <2>2, <2>5, <3>1, <3>2 DEF ProgramsInv, Started
  <2> QED
    BY <2>2, <2>3, <2>4, <2>5, <2>6 DEF ProgramsInv, Following
<1>14. CASE ForkFails \/ PipelineEnds
  BY <1>3, <1>14 DEF ForkFails, PipelineEnds
<1> QED
  BY <1>5, <1>6, <1>7, <1>8, <1>9, <1>10, <1>11, <1>12, <1>13, <1>14 DEF Next

\* A program starts with exactly the descriptors its redirections name, over the ends
\* of its own pipes and with no end of another stage's, and fails to start only when one
\* of its files cannot be opened.  This is about redirections of the descriptors 0 to 2
\* to a file, a text that is not empty or descriptor 1 or 2 (Plain), in the program's
\* own list and in every exec before it (plain): for every bound on their number, every
\* length of pipeline and every nesting of groups and built-ins, and over what the shell
\* has left open by failed pipelines.  Other numbers and closing are not spoken about.
THEOREM ProgramsStartRight == Spec => []ProgramSees
<1>1. Init => ProgramsInv
  <2>1. IsSeq(<<>>) /\ Len(<<>>) = 0
    BY DEF IsSeq
  <2> QED
    BY <2>1 DEF Init, ProgramsInv, Started, Following
<1>2. RedirectInv /\ ProgramsInv /\ [Next]_vars => ProgramsInv'
  <2>1. SUFFICES ASSUME RedirectInv, ProgramsInv, [Next]_vars PROVE ProgramsInv'
    OBVIOUS
  <2>2. CASE UNCHANGED vars
    BY <2>1, <2>2 DEF vars, ProgramsInv, Started, Following
  <2> QED
    BY <2>1, <2>2, ProgramsStep
<1>3. ProgramsInv => ProgramSees
  <2>1. SUFFICES ASSUME ProgramsInv, plain, NEW c \in ToSet(programs), Plain(c.rs)
                 PROVE  IF \E r \in ToSet(c.rs) : Unopened(r) THEN c.dead = TRUE ELSE c.dead = FALSE /\ c.sees = c.wants
    BY Zenon DEF ProgramSees, Unopened
  <2>2. \E i \in 1 .. Len(programs) : c = programs[i]
    BY <2>1 DEF ProgramsInv, IsSeq, ToSet
  <2> QED
    BY <2>1, <2>2 DEF ProgramsInv, Started, Seen
<1> QED
  BY <1>1, <1>2, <1>3, TablesKept, PTL DEF Spec

-----------------------------------------------------------------------------
(* Output: where each command's is *)

\* Two sequences one after the other
LEMMA Joined ==
  ASSUME NEW a, IsSeq(a), NEW c, IsSeq(c)
  PROVE  /\ IsSeq(a \o c) /\ Len(a \o c) = Len(a) + Len(c) /\ Len(a) \in Nat /\ Len(c) \in Nat
         /\ \A i \in 1 .. Len(a) : (a \o c)[i] = a[i]
         /\ \A i \in 1 .. Len(c) : (a \o c)[Len(a) + i] = c[i]
         /\ a \o <<>> = a /\ <<>> \o a = a /\ \A v : a \o <<v>> = Append(a, v)
<1>1. PICK S : a \in Seq(S)
  BY DEF IsSeq
<1>2. PICK R : c \in Seq(R)
  BY DEF IsSeq
<1> DEFINE T == S \union R
<1>3. a \in Seq(T) /\ c \in Seq(T)
  BY <1>1, <1>2
<1> HIDE DEF T
<1>4. a \o c \in Seq(T) /\ Len(a \o c) = Len(a) + Len(c)
      /\ \A i \in 1 .. Len(a) + Len(c) : (a \o c)[i] = IF i <= Len(a) THEN a[i] ELSE c[i - Len(a)]
  BY <1>3, ConcatProperties
<1>5. Len(a) \in Nat /\ Len(c) \in Nat
  BY <1>3
<1>6. \A i \in 1 .. Len(c) : (a \o c)[Len(a) + i] = c[i]
  <2>1. SUFFICES ASSUME NEW i \in 1 .. Len(c) PROVE (a \o c)[Len(a) + i] = c[i]
    OBVIOUS
  <2>2. Len(a) + i \in 1 .. Len(a) + Len(c) /\ ~ (Len(a) + i <= Len(a)) /\ (Len(a) + i) - Len(a) = i
    BY <1>5
  <2> QED
    BY <1>4, <2>2
<1>7. \A i \in 1 .. Len(a) : (a \o c)[i] = a[i]
  BY <1>4, <1>5
<1>8. a \o <<>> = a /\ <<>> \o a = a
  BY <1>3, ConcatEmptySeq
<1>9. \A v : a \o <<v>> = Append(a, v)
  <2>1. SUFFICES ASSUME NEW v PROVE a \o <<v>> = Append(a, v)
    OBVIOUS
  <2> QED
    BY <1>1, AppendIsConcat
<1> QED
  BY <1>4, <1>5, <1>6, <1>7, <1>8, <1>9 DEF IsSeq

\* The texts T at the places P hold numbers less than b, each of them once.
Held(T, P, b) ==
  /\ \A x \in P : IsSeq(T[x]) /\ \A i \in 1 .. Len(T[x]) : T[x][i] \in Nat /\ T[x][i] < b
  /\ \A x, y \in P : \A i \in 1 .. Len(T[x]), j \in 1 .. Len(T[y]) : T[x][i] = T[y][j] => x = y /\ i = j

\* Places are forgotten, emptied, or new and empty.
LEMMA HeldStill ==
  ASSUME NEW b \in Nat, NEW d \in Nat, b <= d, NEW T, NEW P, Held(T, P, b),
         NEW U, NEW Q, \A x \in Q : U[x] = <<>> \/ (x \in P /\ U[x] = T[x])
  PROVE  Held(U, Q, d)
<1>1. IsSeq(<<>>) /\ Len(<<>>) = 0 /\ 1 .. 0 = {}
  BY DEF IsSeq
<1>2. \A x \in Q : IsSeq(U[x]) /\ \A i \in 1 .. Len(U[x]) : x \in P /\ U[x] = T[x] /\ U[x][i] \in Nat /\ U[x][i] < d
  BY <1>1 DEF Held
<1>3. ASSUME NEW x \in Q, NEW y \in Q, NEW i \in 1 .. Len(U[x]), NEW j \in 1 .. Len(U[y]), U[x][i] = U[y][j]
      PROVE  x = y /\ i = j
  <2>1. x \in P /\ U[x] = T[x] /\ y \in P /\ U[y] = T[y]
    BY <1>2
  <2> QED
    BY <1>3, <2>1 DEF Held
<1> QED
  BY <1>2, <1>3 DEF Held

\* A command ends: its number is at the end of one text.
LEMMA HeldGrown ==
  ASSUME NEW b \in Nat, NEW T, NEW P, Held(T, P, b), NEW a \in P,
         NEW U, U[a] = Append(T[a], b), \A x \in P : x # a => U[x] = T[x]
  PROVE  Held(U, P, b + 1)
<1>1. /\ IsSeq(U[a]) /\ Len(U[a]) = Len(T[a]) + 1 /\ Len(T[a]) \in Nat
      /\ U[a][Len(T[a]) + 1] = b /\ \A i \in 1 .. Len(T[a]) : U[a][i] = T[a][i]
  BY AppendAny, SeqFacts DEF Held
<1>2. \A x \in P : \A i \in 1 .. Len(U[x]) : (i \in 1 .. Len(T[x]) /\ U[x][i] = T[x][i]) \/ (x = a /\ i = Len(T[a]) + 1 /\ U[x][i] = b)
  BY <1>1
<1>3. \A x \in P : \A i \in 1 .. Len(T[x]) : T[x][i] \in Nat /\ T[x][i] < b /\ T[x][i] # b
  BY DEF Held
<1>4. \A x \in P : IsSeq(U[x]) /\ \A i \in 1 .. Len(U[x]) : U[x][i] \in Nat /\ U[x][i] < b + 1
  <2>1. SUFFICES ASSUME NEW x \in P PROVE IsSeq(U[x]) /\ \A i \in 1 .. Len(U[x]) : U[x][i] \in Nat /\ U[x][i] < b + 1
    OBVIOUS
  <2>2. IsSeq(U[x])
    BY <1>1 DEF Held
  <2>3. ASSUME NEW i \in 1 .. Len(U[x]) PROVE U[x][i] \in Nat /\ U[x][i] < b + 1
    <3>1. U[x][i] = b \/ (U[x][i] \in Nat /\ U[x][i] < b)
      <4>1. CASE i \in 1 .. Len(T[x]) /\ U[x][i] = T[x][i]
        BY <1>3, <4>1
      <4> QED
        BY <1>2, <4>1
    <3> DEFINE v == U[x][i]
    <3> HIDE DEF v
    <3>2. v = b \/ (v \in Nat /\ v < b)
      BY <3>1 DEF v
    <3>3. v \in Nat /\ v < b + 1
      BY <3>2
    <3> QED
      BY <3>3 DEF v
  <2> QED
    BY <2>2, <2>3
<1>5. ASSUME NEW x \in P, NEW y \in P, NEW i \in 1 .. Len(U[x]), NEW j \in 1 .. Len(U[y]), U[x][i] = U[y][j]
      PROVE  x = y /\ i = j
  <2>1. (i \in 1 .. Len(T[x]) /\ U[x][i] = T[x][i]) \/ (x = a /\ i = Len(T[a]) + 1 /\ U[x][i] = b)
    BY <1>2
  <2>2. (j \in 1 .. Len(T[y]) /\ U[y][j] = T[y][j]) \/ (y = a /\ j = Len(T[a]) + 1 /\ U[y][j] = b)
    BY <1>2
  <2>3. CASE i \in 1 .. Len(T[x]) /\ j \in 1 .. Len(T[y]) /\ T[x][i] = T[y][j]
    BY <2>3 DEF Held
  <2> QED
    BY <1>3, <1>5, <2>1, <2>2, <2>3
<1> QED
  BY <1>4, <1>5 DEF Held

\* The text at a goes to c, after what is there or instead of it; the other places
\* keep theirs, are emptied or forgotten, or are new and empty.
Moved(T, P, U, Q, a, c) ==
  /\ a \in P /\ c # a /\ (U[c] = T[a] \/ (c \in P /\ U[c] = T[c] \o T[a]))
  /\ \A x \in Q : x # c => U[x] = <<>> \/ (x # a /\ x \in P /\ U[x] = T[x])

LEMMA HeldMoved ==
  ASSUME NEW b \in Nat, NEW T, NEW P, NEW U, NEW Q, NEW a, NEW c, Held(T, P, b), Moved(T, P, U, Q, a, c)
  PROVE  Held(U, Q, b)
<1>0. a \in P /\ c # a /\ (U[c] = T[a] \/ (c \in P /\ U[c] = T[c] \o T[a]))
  BY DEF Moved
<1>1. IsSeq(<<>>) /\ Len(<<>>) = 0 /\ 1 .. 0 = {}
  BY DEF IsSeq
<1>2. IsSeq(U[c]) /\ \A i \in 1 .. Len(U[c]) :
        \/ \E k \in 1 .. Len(T[a]) : U[c][i] = T[a][k] /\ \A j \in 1 .. Len(U[c]) : U[c][j] = T[a][k] => j = i
        \/ c \in P /\ i \in 1 .. Len(T[c]) /\ U[c][i] = T[c][i] /\ \A j \in 1 .. Len(U[c]) : U[c][j] = T[c][i] => j = i
  <2>1. CASE U[c] = T[a]
    <3>1. IsSeq(T[a]) /\ \A i, j \in 1 .. Len(T[a]) : T[a][i] = T[a][j] => i = j
      BY <1>0 DEF Held
    <3> QED
      BY <2>1, <3>1
  <2>2. CASE c \in P /\ U[c] = T[c] \o T[a]
    <3> DEFINE s == T[c]
               t == T[a]
               u == U[c]
    <3>1. IsSeq(s) /\ IsSeq(t) /\ u = s \o t
      BY <1>0, <2>2 DEF Held
    <3>2. /\ \A i, j \in 1 .. Len(s) : s[i] = s[j] => i = j
          /\ \A i, j \in 1 .. Len(t) : t[i] = t[j] => i = j
          /\ \A i \in 1 .. Len(s), j \in 1 .. Len(t) : s[i] # t[j]
      BY <1>0, <2>2 DEF Held
    <3> HIDE DEF s, t, u
    <3>3. /\ IsSeq(u) /\ Len(u) = Len(s) + Len(t) /\ Len(s) \in Nat /\ Len(t) \in Nat
          /\ \A i \in 1 .. Len(s) : u[i] = s[i]
          /\ \A i \in 1 .. Len(t) : u[Len(s) + i] = t[i]
      BY <3>1, Joined
    <3>4. \A i \in 1 .. Len(u) : i \in 1 .. Len(s) \/ \E k \in 1 .. Len(t) : i = Len(s) + k
      <4>1. SUFFICES ASSUME NEW i \in 1 .. Len(u), i \notin 1 .. Len(s) PROVE \E k \in 1 .. Len(t) : i = Len(s) + k
        OBVIOUS
      <4>2. i - Len(s) \in 1 .. Len(t) /\ i = Len(s) + (i - Len(s))
        BY <3>3, <4>1
      <4> QED
        BY <4>2
    <3>5. \A i \in 1 .. Len(u) :
        \/ \E k \in 1 .. Len(t) : u[i] = t[k] /\ \A j \in 1 .. Len(u) : u[j] = t[k] => j = i
        \/ i \in 1 .. Len(s) /\ u[i] = s[i] /\ \A j \in 1 .. Len(u) : u[j] = s[i] => j = i
      <4>1. SUFFICES ASSUME NEW i \in 1 .. Len(u)
                     PROVE  \/ \E k \in 1 .. Len(t) : u[i] = t[k] /\ \A j \in 1 .. Len(u) : u[j] = t[k] => j = i
                            \/ i \in 1 .. Len(s) /\ u[i] = s[i] /\ \A j \in 1 .. Len(u) : u[j] = s[i] => j = i
        OBVIOUS
      <4>2. CASE i \in 1 .. Len(s)
        BY <3>2, <3>3, <3>4, <4>2
      <4>3. CASE \E k \in 1 .. Len(t) : i = Len(s) + k
        <5>1. PICK k \in 1 .. Len(t) : i = Len(s) + k
          BY <4>3
        <5>2. u[i] = t[k]
          BY <3>3, <5>1
        <5>3. ASSUME NEW j \in 1 .. Len(u), u[j] = t[k] PROVE j = i
          <6>1. CASE j \in 1 .. Len(s)
            BY <3>2, <3>3, <5>3, <6>1
          <6>2. CASE \E l \in 1 .. Len(t) : j = Len(s) + l
            BY <3>2, <3>3, <5>1, <5>3, <6>2
          <6> QED
            BY <3>4, <6>1, <6>2
        <5> QED
          BY <5>2, <5>3
      <4> QED
        BY <3>4, <4>2, <4>3
    <3> QED
      BY <2>2, <3>3, <3>5 DEF s, t, u
  <2> QED
    BY <1>0, <2>1, <2>2
<1>3. \A x \in Q : x # c => IsSeq(U[x]) /\ \A i \in 1 .. Len(U[x]) : x # a /\ x \in P /\ U[x] = T[x]
  BY <1>1 DEF Held, Moved
<1>4. ASSUME NEW x \in Q PROVE IsSeq(U[x]) /\ \A i \in 1 .. Len(U[x]) : U[x][i] \in Nat /\ U[x][i] < b
  <2>1. CASE x = c
    <3>1. /\ \A k \in 1 .. Len(T[a]) : T[a][k] \in Nat /\ T[a][k] < b
          /\ c \in P => \A k \in 1 .. Len(T[c]) : T[c][k] \in Nat /\ T[c][k] < b
      BY <1>0 DEF Held
    <3> QED
      BY <1>2, <2>1, <3>1
  <2>2. CASE x # c
    BY <1>3, <2>2 DEF Held
  <2> QED
    BY <2>1, <2>2
<1>5. ASSUME NEW x \in Q, NEW y \in Q, NEW i \in 1 .. Len(U[x]), NEW j \in 1 .. Len(U[y]), U[x][i] = U[y][j]
      PROVE  x = y /\ i = j
  <2>1. CASE x # c /\ y # c
    <3>1. x \in P /\ U[x] = T[x] /\ y \in P /\ U[y] = T[y]
      BY <1>3, <2>1
    <3> QED
      BY <1>5, <3>1 DEF Held
  <2>2. CASE x = c /\ y = c
    BY <1>2, <1>5, <2>2
  <2>3. ASSUME NEW z \in Q, z # c, NEW k \in 1 .. Len(U[c]), NEW l \in 1 .. Len(U[z]) PROVE U[c][k] # U[z][l]
    <3>1. z # a /\ z \in P /\ U[z] = T[z]
      BY <1>3, <2>3
    <3>2. CASE \E m \in 1 .. Len(T[a]) : U[c][k] = T[a][m]
      BY <1>0, <2>3, <3>1, <3>2 DEF Held
    <3>3. CASE c \in P /\ k \in 1 .. Len(T[c]) /\ U[c][k] = T[c][k]
      BY <2>3, <3>1, <3>3 DEF Held
    <3> QED
      BY <1>2, <3>2, <3>3
  <2>4. CASE (x = c /\ y # c) \/ (x # c /\ y = c)
    BY <1>5, <2>3, <2>4
  <2> QED
    BY <2>1, <2>2, <2>4
<1> QED
  BY <1>4, <1>5 DEF Held

\* The places of output while n frames are executed, and what a command that ends
\* has written to its two streams
Terminal == <<"terminal", 0>>
FileAt(p) == <<"file", p>>
FrameAt(k) == <<"frame", k>>
OutAt == <<"out", 0>>
ErrAt == <<"err", 0>>
PlacesOf(n) == {Terminal} \union ({"file"} \X Paths) \union ({"frame"} \X (1 .. n))
AllPlaces(n) == PlacesOf(n) \union {OutAt, ErrAt}
TextAt(fs, sh, st, out, err, x) ==
  CASE x[1] = "terminal" -> sh
    [] x[1] = "file"     -> fs[x[2]]
    [] x[1] = "frame"    -> st[x[2]].out
    [] x[1] = "out"      -> out
    [] x[1] = "err"      -> err
Texts(fs, sh, st, out, err, n) == [x \in AllPlaces(n) |-> TextAt(fs, sh, st, out, err, x)]

\* Each place is one of these, and they are different.
LEMMA PlacesDiffer ==
  ASSUME NEW n \in Nat
  PROVE  /\ \A x \in AllPlaces(n) : \/ x = Terminal \/ x = OutAt \/ x = ErrAt
                                    \/ \E p \in Paths : x = FileAt(p)
                                    \/ \E k \in 1 .. n : x = FrameAt(k)
         /\ Terminal \in PlacesOf(n) /\ (\A p \in Paths : FileAt(p) \in PlacesOf(n)) /\ \A k \in 1 .. n : FrameAt(k) \in PlacesOf(n)
         /\ OutAt # Terminal /\ ErrAt # Terminal /\ OutAt # ErrAt
         /\ \A p, q : FileAt(p) # Terminal /\ FileAt(p) # OutAt /\ FileAt(p) # ErrAt /\ FileAt(p) # FrameAt(q)
                      /\ (FileAt(p) = FileAt(q) => p = q)
         /\ \A k, l : FrameAt(k) # Terminal /\ FrameAt(k) # OutAt /\ FrameAt(k) # ErrAt /\ (FrameAt(k) = FrameAt(l) => k = l)
<1>1. \A x \in AllPlaces(n) : \/ x = Terminal \/ x = OutAt \/ x = ErrAt
                              \/ \E p \in Paths : x = FileAt(p)
                              \/ \E k \in 1 .. n : x = FrameAt(k)
  BY DEF AllPlaces, PlacesOf, FileAt, FrameAt
<1>2. /\ Terminal \in PlacesOf(n) /\ (\A p \in Paths : FileAt(p) \in PlacesOf(n)) /\ \A k \in 1 .. n : FrameAt(k) \in PlacesOf(n)
  BY DEF PlacesOf, FileAt, FrameAt
<1>3. /\ OutAt # Terminal /\ ErrAt # Terminal /\ OutAt # ErrAt
      /\ \A p, q : FileAt(p) # Terminal /\ FileAt(p) # OutAt /\ FileAt(p) # ErrAt /\ FileAt(p) # FrameAt(q)
                   /\ (FileAt(p) = FileAt(q) => p = q)
      /\ \A k, l : FrameAt(k) # Terminal /\ FrameAt(k) # OutAt /\ FrameAt(k) # ErrAt /\ (FrameAt(k) = FrameAt(l) => k = l)
  BY DEF Terminal, FileAt, FrameAt, OutAt, ErrAt
<1> QED
  BY <1>1, <1>2, <1>3

\* The text at each place
LEMMA TextsAt ==
  ASSUME NEW n \in Nat, NEW fs, NEW sh, NEW st, NEW out, NEW err, NEW T, T = Texts(fs, sh, st, out, err, n)
  PROVE  /\ T[Terminal] = sh /\ T[OutAt] = out /\ T[ErrAt] = err
         /\ \A p \in Paths : T[FileAt(p)] = fs[p]
         /\ \A k \in 1 .. n : T[FrameAt(k)] = st[k].out
<1>1. \A x \in AllPlaces(n) : T[x] = TextAt(fs, sh, st, out, err, x)
  BY DEF Texts
<1>2. /\ Terminal \in AllPlaces(n) /\ OutAt \in AllPlaces(n) /\ ErrAt \in AllPlaces(n)
      /\ \A p \in Paths : FileAt(p) \in AllPlaces(n)
      /\ \A k \in 1 .. n : FrameAt(k) \in AllPlaces(n)
  BY PlacesDiffer DEF AllPlaces
<1>3. /\ TextAt(fs, sh, st, out, err, Terminal) = sh
      /\ TextAt(fs, sh, st, out, err, OutAt) = out
      /\ TextAt(fs, sh, st, out, err, ErrAt) = err
      /\ \A p : TextAt(fs, sh, st, out, err, FileAt(p)) = fs[p]
      /\ \A k : TextAt(fs, sh, st, out, err, FrameAt(k)) = st[k].out
  BY DEF TextAt, Terminal, OutAt, ErrAt, FileAt, FrameAt
<1>4. T[Terminal] = sh /\ T[OutAt] = out /\ T[ErrAt] = err
  BY <1>1, <1>2, <1>3
<1>5. ASSUME NEW p \in Paths PROVE T[FileAt(p)] = fs[p]
  BY <1>1, <1>2, <1>3
<1>6. ASSUME NEW k \in 1 .. n PROVE T[FrameAt(k)] = st[k].out
  BY <1>1, <1>2, <1>3
<1> QED
  BY <1>4, <1>5, <1>6

\* The streams of a command and the files, when its output is being written
Sheet(st) ==
  /\ st = [files |-> st.files, out |-> st.out, err |-> st.err, bad |-> st.bad]
  /\ st.files = [p \in Paths |-> st.files[p]]
SheetTexts(st, n) == Texts(st.files, shown, stack, st.out, st.err, n)
SheetHeld(st, n, b) == Sheet(st) /\ Held(SheetTexts(st, n), AllPlaces(n), b)

\* A change of one part of a sheet
LEMMA SheetChanged ==
  ASSUME NEW st, Sheet(st), NEW w
  PROVE  /\ w = [st EXCEPT !.bad = TRUE] => w = [files |-> st.files, out |-> st.out, err |-> st.err, bad |-> TRUE]
         /\ w = [st EXCEPT !.out = @ \o st.err, !.err = <<>>] =>
              w = [files |-> st.files, out |-> st.out \o st.err, err |-> <<>>, bad |-> st.bad]
<1> DEFINE f == st.files
           x == st.out
           y == st.err
           z == st.bad
           v == x \o y
<1>1. st = [files |-> f, out |-> x, err |-> y, bad |-> z]
  BY DEF Sheet
<1>2. w = [st EXCEPT !.out = @ \o st.err, !.err = <<>>] => w = [st EXCEPT !.out = v, !.err = <<>>]
  OBVIOUS
<1> HIDE DEF f, x, y, z, v
<1>3. w = [st EXCEPT !.bad = TRUE] => w = [files |-> f, out |-> x, err |-> y, bad |-> TRUE]
  BY <1>1
<1>4. w = [st EXCEPT !.out = v, !.err = <<>>] => w = [files |-> f, out |-> v, err |-> <<>>, bad |-> z]
  BY <1>1
<1> QED
  BY <1>2, <1>3, <1>4 DEF f, x, y, z, v

\* The text went to the file of r, after what it holds or instead of it.
Wrote(w, st, r, text, keep) ==
  /\ Sheet(w) /\ w.files[r.path] = (IF keep THEN st.files[r.path] ELSE <<>>) \o text
  /\ \A p \in Paths : p # r.path => w.files[p] = st.files[p]

\* What Write does to a file and to the stream that it takes
LEMMA WriteAt ==
  ASSUME NEW st, Sheet(st), NEW r, CanOpen(r), NEW keep \in BOOLEAN, NEW w
  PROVE  /\ w = Write(st, r, "out", keep) => Wrote(w, st, r, st.out, keep) /\ w.out = <<>> /\ w.err = st.err
         /\ w = Write(st, r, "err", keep) => Wrote(w, st, r, st.err, keep) /\ w.err = <<>> /\ w.out = st.out
<1> DEFINE F == st.files
           O == st.out
           E == st.err
           B == st.bad
           x == (IF keep THEN F[r.path] ELSE <<>>) \o O
           y == (IF keep THEN F[r.path] ELSE <<>>) \o E
           f == [F EXCEPT ![r.path] = x]
           g == [F EXCEPT ![r.path] = y]
<1>1. r.path \in Paths /\ F = [p \in Paths |-> F[p]] /\ st = [files |-> F, out |-> O, err |-> E, bad |-> B]
  BY DEF CanOpen, Sheet
<1>2. w = Write(st, r, "out", keep) => w = [st EXCEPT !.files = f, !.out = <<>>]
  BY DEF Write
<1>3. w = Write(st, r, "err", keep) => w = [st EXCEPT !.files = g, !.err = <<>>]
  BY DEF Write
<1>4. f[r.path] = x /\ (\A p \in Paths : p # r.path => f[p] = F[p]) /\ f = [p \in Paths |-> f[p]]
  <2> HIDE DEF x, F
  <2> QED
    BY <1>1
<1>5. g[r.path] = y /\ (\A p \in Paths : p # r.path => g[p] = F[p]) /\ g = [p \in Paths |-> g[p]]
  <2> HIDE DEF y, F
  <2> QED
    BY <1>1
<1> HIDE DEF f, g, F, O, E, B, x, y
<1>6. ASSUME w = Write(st, r, "out", keep)
      PROVE  Sheet(w) /\ w.files = f /\ w.out = <<>> /\ w.err = E
  <2>1. w = [files |-> f, out |-> <<>>, err |-> E, bad |-> B]
    BY <1>1, <1>2, <1>6
  <2>2. w.files = f /\ w.out = <<>> /\ w.err = E /\ w.bad = B
    BY <2>1
  <2> QED
    BY <1>4, <2>1, <2>2 DEF Sheet
<1>7. ASSUME w = Write(st, r, "err", keep)
      PROVE  Sheet(w) /\ w.files = g /\ w.err = <<>> /\ w.out = O
  <2>1. w = [files |-> g, out |-> O, err |-> <<>>, bad |-> B]
    BY <1>1, <1>3, <1>7
  <2>2. w.files = g /\ w.out = O /\ w.err = <<>> /\ w.bad = B
    BY <2>1
  <2> QED
    BY <1>5, <2>1, <2>2 DEF Sheet
<1> QED
  BY <1>4, <1>5, <1>6, <1>7 DEF Wrote, F, O, E, x, y

\* A text goes to a file.
LEMMA WriteHolds ==
  ASSUME NEW n \in Nat, NEW b \in Nat, NEW st, SheetHeld(st, n, b), NEW r, NEW keep \in BOOLEAN
  PROVE  SheetHeld(Write(st, r, "out", keep), n, b) /\ SheetHeld(Write(st, r, "err", keep), n, b)
<1> DEFINE o == Write(st, r, "out", keep)
           e == Write(st, r, "err", keep)
           P == AllPlaces(n)
           T == SheetTexts(st, n)
           U == SheetTexts(o, n)
           V == SheetTexts(e, n)
           c == FileAt(r.path)
<1>1. Sheet(st) /\ Held(T, P, b)
  BY DEF SheetHeld
<1>2. CASE ~ CanOpen(r)
  <2> DEFINE w == [st EXCEPT !.bad = TRUE]
  <2>1. o = w /\ e = w
    BY <1>2 DEF Write
  <2>a. w = [st EXCEPT !.bad = TRUE]
    OBVIOUS
  <2> HIDE DEF w, o, e
  <2>2. w = [files |-> st.files, out |-> st.out, err |-> st.err, bad |-> TRUE]
    BY <2>a, <1>1, SheetChanged
  <2>3. w.files = st.files /\ w.out = st.out /\ w.err = st.err /\ w.bad = TRUE
    BY <2>2
  <2>4. SheetHeld(w, n, b)
    BY <1>1, <2>2, <2>3 DEF SheetHeld, Sheet, SheetTexts
  <2> QED
    BY <2>1, <2>4 DEF o, e
<1>3. CASE CanOpen(r)
  <2>0. /\ Wrote(o, st, r, st.out, keep) /\ o.out = <<>> /\ o.err = st.err
        /\ Wrote(e, st, r, st.err, keep) /\ e.err = <<>> /\ e.out = st.out
    BY <1>1, <1>3, WriteAt
  <2> HIDE DEF o, e
  <2>1. /\ Sheet(o) /\ o.out = <<>> /\ o.err = st.err
        /\ o.files[r.path] = (IF keep THEN st.files[r.path] ELSE <<>>) \o st.out
        /\ \A p \in Paths : p # r.path => o.files[p] = st.files[p]
        /\ Sheet(e) /\ e.err = <<>> /\ e.out = st.out
        /\ e.files[r.path] = (IF keep THEN st.files[r.path] ELSE <<>>) \o st.err
        /\ \A p \in Paths : p # r.path => e.files[p] = st.files[p]
    BY <2>0 DEF Wrote
  <2>2. /\ T[Terminal] = shown /\ T[OutAt] = st.out /\ T[ErrAt] = st.err
        /\ \A p \in Paths : T[FileAt(p)] = st.files[p]
        /\ \A k \in 1 .. n : T[FrameAt(k)] = stack[k].out
    BY TextsAt DEF SheetTexts
  <2>3. /\ U[Terminal] = shown /\ U[OutAt] = o.out /\ U[ErrAt] = o.err
        /\ \A p \in Paths : U[FileAt(p)] = o.files[p]
        /\ \A k \in 1 .. n : U[FrameAt(k)] = stack[k].out
    BY TextsAt DEF SheetTexts
  <2>4. /\ V[Terminal] = shown /\ V[OutAt] = e.out /\ V[ErrAt] = e.err
        /\ \A p \in Paths : V[FileAt(p)] = e.files[p]
        /\ \A k \in 1 .. n : V[FrameAt(k)] = stack[k].out
    BY TextsAt DEF SheetTexts
  <2> HIDE DEF T, U, V
  <2>5. r.path \in Paths /\ c \in P /\ OutAt \in P /\ ErrAt \in P /\ c # OutAt /\ c # ErrAt
    BY <1>3, PlacesDiffer DEF CanOpen, AllPlaces
  <2>6. IsSeq(T[OutAt]) /\ IsSeq(T[ErrAt])
    BY <1>1, <2>5 DEF Held
  <2>7. <<>> \o T[OutAt] = T[OutAt] /\ <<>> \o T[ErrAt] = T[ErrAt]
    BY <2>6, Joined
  <2>8. U[c] = T[OutAt] \/ (c \in P /\ U[c] = T[c] \o T[OutAt])
    BY <2>1, <2>2, <2>3, <2>5, <2>7
  <2>9. V[c] = T[ErrAt] \/ (c \in P /\ V[c] = T[c] \o T[ErrAt])
    BY <2>1, <2>2, <2>4, <2>5, <2>7
  <2>10. ASSUME NEW x \in P, x # c PROVE U[x] = <<>> \/ (x # OutAt /\ x \in P /\ U[x] = T[x])
    BY <2>1, <2>2, <2>3, <2>10, PlacesDiffer
  <2>11. ASSUME NEW x \in P, x # c PROVE V[x] = <<>> \/ (x # ErrAt /\ x \in P /\ V[x] = T[x])
    BY <2>1, <2>2, <2>4, <2>11, PlacesDiffer
  <2>14. Moved(T, P, U, P, OutAt, c) /\ Moved(T, P, V, P, ErrAt, c)
    BY <2>5, <2>8, <2>9, <2>10, <2>11 DEF Moved
  <2>12. Held(U, P, b) /\ Held(V, P, b)
    BY <1>1, <2>14, HeldMoved
  <2> QED
    BY <2>1, <2>12 DEF SheetHeld, U, V, o, e
<1> QED
  BY <1>2, <1>3

\* One redirection of a built-in or of a group
LEMMA WritesHold ==
  ASSUME NEW n \in Nat, NEW b \in Nat, NEW st, SheetHeld(st, n, b), NEW r
  PROVE  SheetHeld(BuiltinWrites(st, r), n, b) /\ SheetHeld(GroupWrites(st, r), n, b)
<1>1. \A keep \in BOOLEAN : SheetHeld(Write(st, r, "out", keep), n, b) /\ SheetHeld(Write(st, r, "err", keep), n, b)
  BY WriteHolds
<1>2. SheetHeld(BuiltinWrites(st, r), n, b)
  BY <1>1 DEF BuiltinWrites
<1>3. SheetHeld([st EXCEPT !.out = @ \o st.err, !.err = <<>>], n, b)
  <2> DEFINE y == st.out \o st.err
             w == [st EXCEPT !.out = @ \o st.err, !.err = <<>>]
             P == AllPlaces(n)
             T == SheetTexts(st, n)
             U == SheetTexts(w, n)
  <2>1. Sheet(st) /\ Held(T, P, b)
    BY DEF SheetHeld
  <2>a. w = [st EXCEPT !.out = @ \o st.err, !.err = <<>>]
    OBVIOUS
  <2> HIDE DEF w
  <2>2. w = [files |-> st.files, out |-> y, err |-> <<>>, bad |-> st.bad]
    BY <2>a, <2>1, SheetChanged
  <2>3. w.files = st.files /\ w.out = y /\ w.err = <<>> /\ w.bad = st.bad
    BY <2>2
  <2>4. Sheet(w)
    BY <2>1, <2>2, <2>3 DEF Sheet
  <2>5. /\ T[Terminal] = shown /\ T[OutAt] = st.out /\ T[ErrAt] = st.err
        /\ \A p \in Paths : T[FileAt(p)] = st.files[p]
        /\ \A k \in 1 .. n : T[FrameAt(k)] = stack[k].out
    BY TextsAt DEF SheetTexts
  <2>6. /\ U[Terminal] = shown /\ U[OutAt] = w.out /\ U[ErrAt] = w.err
        /\ \A p \in Paths : U[FileAt(p)] = w.files[p]
        /\ \A k \in 1 .. n : U[FrameAt(k)] = stack[k].out
    BY TextsAt DEF SheetTexts
  <2> HIDE DEF T, U
  <2>7. OutAt \in P /\ ErrAt \in P /\ OutAt # ErrAt
    BY PlacesDiffer DEF AllPlaces
  <2>8. U[OutAt] = T[OutAt] \o T[ErrAt]
    BY <2>3, <2>5, <2>6
  <2>9. ASSUME NEW x \in P, x # OutAt PROVE U[x] = <<>> \/ (x # ErrAt /\ x \in P /\ U[x] = T[x])
    BY <2>3, <2>5, <2>6, <2>9, PlacesDiffer
  <2>11. Moved(T, P, U, P, ErrAt, OutAt)
    BY <2>7, <2>8, <2>9 DEF Moved
  <2>10. Held(U, P, b)
    BY <2>1, <2>11, HeldMoved
  <2> QED
    BY <2>4, <2>10 DEF SheetHeld, U, w
<1>4. SheetHeld([st EXCEPT !.bad = TRUE], n, b)
  <2> DEFINE w == [st EXCEPT !.bad = TRUE]
  <2>a. w = [st EXCEPT !.bad = TRUE]
    OBVIOUS
  <2> HIDE DEF w
  <2>1. w = [files |-> st.files, out |-> st.out, err |-> st.err, bad |-> TRUE]
    BY <2>a, SheetChanged DEF SheetHeld
  <2>2. w.files = st.files /\ w.out = st.out /\ w.err = st.err /\ w.bad = TRUE
    BY <2>1
  <2>3. SheetHeld(w, n, b)
    BY <2>1, <2>2 DEF SheetHeld, Sheet, SheetTexts
  <2> QED
    BY <2>3 DEF w
<1>5. SheetHeld(GroupWrites(st, r), n, b)
  BY <1>1, <1>3, <1>4 DEF GroupWrites
<1> QED
  BY <1>2, <1>5

\* The output that is somewhere between two steps
StateTexts == Texts(files, shown, stack, <<>>, <<>>, Len(stack))
WrittenInv == files = [p \in Paths |-> files[p]] /\ Held(StateTexts, PlacesOf(Len(stack)), produced)

LEMMA StateTextsAt ==
  /\ Len(stack) \in Nat =>
       /\ StateTexts[Terminal] = shown /\ \A p \in Paths : StateTexts[FileAt(p)] = files[p]
       /\ \A k \in 1 .. Len(stack) : StateTexts[FrameAt(k)] = stack[k].out
  /\ Len(stack') \in Nat =>
       /\ StateTexts'[Terminal] = shown' /\ \A p \in Paths : StateTexts'[FileAt(p)] = files'[p]
       /\ \A k \in 1 .. Len(stack') : StateTexts'[FrameAt(k)] = stack'[k].out
  BY TextsAt DEF StateTexts

\* Steps that write nothing
LEMMA QuietHolds ==
  ASSUME RedirectInv, WrittenInv, produced' \in Nat, produced <= produced', UNCHANGED <<files, shown, stack>>
  PROVE  WrittenInv'
<1>1. produced \in Nat /\ StateTexts' = StateTexts
  BY DEF RedirectInv, StateTexts
<1>2. Held(StateTexts, PlacesOf(Len(stack)), produced')
  BY <1>1, HeldStill DEF WrittenInv
<1> QED
  BY <1>1, <1>2 DEF WrittenInv

\* A new frame has written nothing.
LEMMA PushHolds ==
  ASSUME RedirectInv, WrittenInv, NEW f, f.out = <<>>, stack' = Append(stack, f),
         produced' = produced + 1, UNCHANGED <<files, shown>>
  PROVE  WrittenInv'
<1> DEFINE n == Len(stack)
           T == StateTexts
           U == StateTexts'
           Q == PlacesOf(n + 1)
<1>1. produced \in Nat /\ n \in Nat /\ n + 1 \in Nat /\ Len(stack') = n + 1
      /\ stack'[n + 1] = f /\ \A k \in 1 .. n : stack'[k] = stack[k]
  BY AppendAny, SeqFacts DEF RedirectInv, InputInv, Shaped
<1> HIDE DEF n
<1>2. /\ T[Terminal] = shown
      /\ \A p \in Paths : T[FileAt(p)] = files[p]
      /\ \A k \in 1 .. n : T[FrameAt(k)] = stack[k].out
  BY <1>1, StateTextsAt DEF n
<1>3. /\ U[Terminal] = shown'
      /\ \A p \in Paths : U[FileAt(p)] = files'[p]
      /\ \A k \in 1 .. Len(stack') : U[FrameAt(k)] = stack'[k].out
  BY <1>1, StateTextsAt
<1> HIDE DEF T, U
<1>4. /\ U[Terminal] = shown
      /\ \A p \in Paths : U[FileAt(p)] = files[p]
      /\ \A k \in 1 .. n + 1 : U[FrameAt(k)] = stack'[k].out
  BY <1>1, <1>3
<1>5. ASSUME NEW x \in Q PROVE U[x] = <<>> \/ (x \in PlacesOf(n) /\ U[x] = T[x])
  <2>1. \/ x = Terminal \/ \E p \in Paths : x = FileAt(p)
        \/ \E k \in 1 .. n + 1 : x = FrameAt(k)
    BY <1>5 DEF PlacesOf, FileAt, FrameAt
  <2>2. ASSUME NEW k \in 1 .. n + 1 PROVE k = n + 1 \/ k \in 1 .. n
    BY <1>1
  <2>3. CASE x = Terminal
    BY <1>1, <1>2, <1>4, <2>3, PlacesDiffer
  <2>4. CASE \E p \in Paths : x = FileAt(p)
    BY <1>1, <1>2, <1>4, <2>4, PlacesDiffer
  <2>5. CASE \E k \in 1 .. n + 1 : x = FrameAt(k)
    BY <1>1, <1>2, <1>4, <2>2, <2>5, PlacesDiffer
  <2> QED
    BY <2>1, <2>3, <2>4, <2>5
<1>6. Held(T, PlacesOf(n), produced)
  BY DEF WrittenInv, T, n
<1>7. produced + 1 \in Nat /\ produced <= produced + 1
  BY <1>1
<1>8. Held(U, Q, produced + 1)
  BY <1>1, <1>5, <1>6, <1>7, HeldStill
<1> QED
  BY <1>1, <1>8 DEF WrittenInv, U

\* What the innermost frame passed on goes to the next one or to the terminal.
LEMMA EmitHolds ==
  ASSUME RedirectInv, stack # <<>>, NEW st, NEW b \in Nat, SheetHeld(st, Len(stack) - 1, b),
         NEW text, text \in {<<>>, st.out, st.err}, Emit(Front(stack), text), files' = st.files, produced' = b
  PROVE  WrittenInv'
<1> DEFINE frames == Front(stack)
           n == Len(stack) - 1
           P == AllPlaces(n)
           Q == PlacesOf(n)
           T == SheetTexts(st, n)
           U == StateTexts'
           c == IF frames = <<>> THEN Terminal ELSE FrameAt(n)
<1>1. Shaped(stack)
  BY DEF RedirectInv, InputInv
<1>2. n \in Nat /\ IsSeq(frames) /\ Len(frames) = n /\ (\A k \in 1 .. n : frames[k] = stack[k] /\ IsFrame(frames[k]))
  <2>1. frames = Shorter(stack)
    BY DEF Front, Shorter
  <2>2. IsSeq(frames) /\ Len(stack) \in Nat \ {0} /\ Len(frames) = n /\ \A k \in 1 .. n : frames[k] = stack[k]
    BY <1>1, <2>1, ShorterAny DEF Shaped
  <2>3. \A k \in 1 .. Len(stack) : IsFrame(stack[k])
    BY <1>1 DEF Shaped
  <2> HIDE DEF frames
  <2> QED
    BY <2>2, <2>3
<1>3. SameFrames(frames, stack') /\ Grew(frames, text)
  <2>1. Shaped(frames)
    BY <1>2 DEF Shaped
  <2> HIDE DEF frames
  <2> QED
    BY <2>1, EmitSame DEF frames
<1>4. Len(stack') = n /\ (frames = <<>> => n = 0) /\ (frames # <<>> => n # 0)
  <2>1. Len(stack') = Len(frames)
    BY <1>3 DEF SameFrames
  <2> HIDE DEF frames
  <2>2. frames = <<>> => Len(frames) = 0
    OBVIOUS
  <2> QED
    BY <1>2, <2>1, <2>2, SeqFacts
<1> HIDE DEF n
<1>5. /\ T[Terminal] = shown /\ T[OutAt] = st.out /\ T[ErrAt] = st.err
      /\ \A p \in Paths : T[FileAt(p)] = st.files[p]
      /\ \A k \in 1 .. n : T[FrameAt(k)] = stack[k].out
  BY <1>2, TextsAt DEF SheetTexts
<1>6. U = Texts(st.files, shown', stack', <<>>, <<>>, n)
  BY <1>4 DEF StateTexts
<1>7. /\ U[Terminal] = shown'
      /\ \A p \in Paths : U[FileAt(p)] = st.files[p]
      /\ \A k \in 1 .. n : U[FrameAt(k)] = stack'[k].out
  BY <1>2, <1>6, TextsAt
<1> HIDE DEF T, U
<1>8. Sheet(st) /\ Held(T, P, b)
  BY DEF SheetHeld, T, n
<1>9. c \in P /\ Q \subseteq P /\ c # OutAt /\ c # ErrAt /\ OutAt \in P /\ ErrAt \in P
  <2>1. frames # <<>> => n \in 1 .. n
    BY <1>2, <1>4
  <2> HIDE DEF frames
  <2> QED
    BY <1>2, <2>1, PlacesDiffer DEF AllPlaces
<1>10. U[c] = T[c] \o text /\ \A x \in Q : x # c => x # OutAt /\ x # ErrAt /\ U[x] = T[x]
  <2>1. ASSUME NEW x \in Q PROVE \/ x = Terminal \/ \E p \in Paths : x = FileAt(p)
                                \/ \E k \in 1 .. n : x = FrameAt(k)
    BY <2>1 DEF PlacesOf, FileAt, FrameAt
  <2>2. CASE frames = <<>>
    <3>1. shown' = shown \o text /\ n = 0 /\ c = Terminal
      BY <1>3, <1>4, <2>2 DEF Grew
    <3> HIDE DEF frames, c
    <3>2. ASSUME NEW x \in Q, x # c PROVE x # OutAt /\ x # ErrAt /\ U[x] = T[x]
      <4>1. \E p \in Paths : x = FileAt(p)
        BY <2>1, <3>1, <3>2
      <4> QED
        BY <1>2, <1>5, <1>7, <4>1, PlacesDiffer
    <3> QED
      BY <1>5, <1>7, <3>1, <3>2
  <2>3. CASE frames # <<>>
    <3>1. /\ shown' = shown /\ stack'[n].out = stack[n].out \o text /\ c = FrameAt(n) /\ n \in 1 .. n
          /\ \A k \in 1 .. n : k # n => stack'[k].out = stack[k].out
      <4>1. n \in 1 .. n /\ c = FrameAt(n)
        BY <1>2, <1>4, <2>3
      <4>2. /\ shown' = shown /\ stack'[n].out = frames[n].out \o text
            /\ \A k \in 1 .. n : k # n => stack'[k].out = frames[k].out
        BY <1>2, <1>3, <2>3 DEF Grew
      <4> HIDE DEF frames, c
      <4> QED
        BY <1>2, <4>1, <4>2
    <3> HIDE DEF frames, c
    <3>2. ASSUME NEW x \in Q, x # c PROVE x # OutAt /\ x # ErrAt /\ U[x] = T[x]
      <4>1. CASE x = Terminal
        BY <1>2, <1>5, <1>7, <3>1, <4>1, PlacesDiffer
      <4>2. CASE \E p \in Paths : x = FileAt(p)
        BY <1>2, <1>5, <1>7, <3>1, <4>2, PlacesDiffer
      <4>3. CASE \E k \in 1 .. n : x = FrameAt(k)
        BY <1>2, <1>5, <1>7, <3>1, <3>2, <4>3, PlacesDiffer
      <4> QED
        BY <2>1, <4>1, <4>2, <4>3
    <3> QED
      BY <1>5, <1>7, <3>1, <3>2
  <2> QED
    BY <2>2, <2>3
<1> HIDE DEF c, P, Q
<1>11. Held(U, Q, b)
  <2>1. CASE text = <<>>
    <3>1. IsSeq(T[c])
      BY <1>8, <1>9 DEF Held
    <3>2. IsSeq(<<>>)
      BY DEF IsSeq
    <3>3. U[c] = T[c]
      BY <1>10, <2>1, <3>1, <3>2, Joined
    <3>4. \A x \in Q : x \in P /\ U[x] = T[x]
      BY <1>9, <1>10, <3>3
    <3>5. b <= b
      OBVIOUS
    <3> QED
      BY <1>8, <3>4, <3>5, HeldStill
  <2>2. CASE text = st.out
    <3>1. c \in P /\ U[c] = T[c] \o T[OutAt]
      BY <1>5, <1>9, <1>10, <2>2
    <3>a. OutAt \in P /\ c # OutAt /\ (U[c] = T[OutAt] \/ (c \in P /\ U[c] = T[c] \o T[OutAt]))
      BY <1>9, <3>1
    <3>2. \A x \in Q : x # c => U[x] = <<>> \/ (x # OutAt /\ x \in P /\ U[x] = T[x])
      BY <1>9, <1>10
    <3>3. Moved(T, P, U, Q, OutAt, c)
      BY <3>a, <3>2 DEF Moved
    <3> QED
      BY <1>8, <3>3, HeldMoved
  <2>3. CASE text = st.err
    <3>1. c \in P /\ U[c] = T[c] \o T[ErrAt]
      BY <1>5, <1>9, <1>10, <2>3
    <3>a. ErrAt \in P /\ c # ErrAt /\ (U[c] = T[ErrAt] \/ (c \in P /\ U[c] = T[c] \o T[ErrAt]))
      BY <1>9, <3>1
    <3>2. \A x \in Q : x # c => U[x] = <<>> \/ (x # ErrAt /\ x \in P /\ U[x] = T[x])
      BY <1>9, <1>10
    <3>3. Moved(T, P, U, Q, ErrAt, c)
      BY <3>a, <3>2 DEF Moved
    <3> QED
      BY <1>8, <3>3, HeldMoved
  <2> QED
    BY <2>1, <2>2, <2>3
<1> QED
  BY <1>4, <1>8, <1>11 DEF WrittenInv, Sheet, U, Q


\* A whole list of redirections
LEMMA WritesRun ==
  ASSUME NEW n \in Nat, NEW b \in Nat, NEW base, SheetHeld(base, n, b),
         NEW rs, NEW m \in Nat, DOMAIN rs = 1 .. m
  PROVE  SheetHeld(FoldLeft(BuiltinWrites, base, rs), n, b) /\ SheetHeld(FoldLeft(GroupWrites, base, rs), n, b)
<1>1. PICK f : Results("builtin", f, base, rs, m) /\ f[m] = FoldLeft(BuiltinWrites, base, rs)
  BY BuiltinFold
<1>2. PICK g : Results("group", g, base, rs, m) /\ g[m] = FoldLeft(GroupWrites, base, rs)
  BY GroupFold
<1>3. /\ f[0] = base /\ g[0] = base
      /\ \A k \in 1 .. m : f[k] = BuiltinWrites(f[k - 1], rs[k]) /\ g[k] = GroupWrites(g[k - 1], rs[k])
  <2>1. \A s, r : Apply("builtin", s, r) = BuiltinWrites(s, r) /\ Apply("group", s, r) = GroupWrites(s, r)
    BY DEF Apply
  <2> QED
    BY <1>1, <1>2, <2>1 DEF Results
<1> DEFINE T == {k \in 0 .. m : SheetHeld(f[k], n, b) /\ SheetHeld(g[k], n, b)}
<1>4. 0 \in T
  BY <1>3
<1>5. ASSUME NEW k \in 0 .. m - 1, k \in T PROVE k + 1 \in T
  <2>1. k + 1 \in 1 .. m /\ k + 1 \in 0 .. m /\ (k + 1) - 1 = k /\ SheetHeld(f[k], n, b) /\ SheetHeld(g[k], n, b)
    BY <1>5
  <2>2. f[k + 1] = BuiltinWrites(f[k], rs[k + 1]) /\ g[k + 1] = GroupWrites(g[k], rs[k + 1])
    BY <1>3, <2>1
  <2>3. SheetHeld(BuiltinWrites(f[k], rs[k + 1]), n, b)
    BY <2>1, WritesHold
  <2>4. SheetHeld(GroupWrites(g[k], rs[k + 1]), n, b)
    BY <2>1, WritesHold
  <2> QED
    BY <2>1, <2>2, <2>3, <2>4
<1> HIDE DEF T
<1>6. 0 .. m \subseteq T
  BY <1>4, <1>5, Induction
<1>7. m \in T
  BY <1>6
<1> QED
  BY <1>1, <1>2, <1>7 DEF T

\* The text of the innermost frame, with the number of a built-in that ends, is
\* what its redirections start from.
LEMMA SheetStarts ==
  ASSUME RedirectInv, WrittenInv, stack # <<>>, NEW v, NEW b,
         (v = stack[Len(stack)].out /\ b = produced) \/ (v = Append(stack[Len(stack)].out, produced) /\ b = produced + 1),
         NEW x, NEW y, (x = v /\ y = <<>>) \/ (x = <<>> /\ y = v),
         NEW base, base = [files |-> files, out |-> x, err |-> y, bad |-> FALSE]
  PROVE  b \in Nat /\ Len(stack) - 1 \in Nat /\ SheetHeld(base, Len(stack) - 1, b)
<1> DEFINE n == Len(stack)
           m == n - 1
           a == FrameAt(n)
           P == PlacesOf(n)
           T == StateTexts
           V == [z \in P |-> IF z = a THEN v ELSE T[z]]
           Q == AllPlaces(m)
           U == SheetTexts(base, m)
<1>1. n \in Nat /\ n # 0 /\ m \in Nat /\ n \in 1 .. n /\ n \notin 1 .. m /\ (\A k \in 1 .. m : k \in 1 .. n) /\ produced \in Nat
  BY SeqFacts DEF RedirectInv, InputInv, Shaped
<1> HIDE DEF m
<1>2. /\ T[Terminal] = shown
      /\ \A p \in Paths : T[FileAt(p)] = files[p]
      /\ \A k \in 1 .. n : T[FrameAt(k)] = stack[k].out
  BY <1>1, StateTextsAt
<1>3. files = [p \in Paths |-> files[p]] /\ Held(T, P, produced)
  BY DEF WrittenInv
<1>4. base.files = files /\ base.out = x /\ base.err = y /\ base.bad = FALSE
  OBVIOUS
<1>5. Sheet(base)
  BY <1>3, <1>4 DEF Sheet
<1>6. /\ U[Terminal] = shown /\ U[OutAt] = x /\ U[ErrAt] = y
      /\ \A p \in Paths : U[FileAt(p)] = files[p]
      /\ \A k \in 1 .. m : U[FrameAt(k)] = stack[k].out
  BY <1>1, <1>4, TextsAt DEF SheetTexts
<1> HIDE DEF n, T, U
<1>7. a \in P /\ V[a] = v /\ \A z \in P : z # a => V[z] = T[z]
  <2>1. a \in P
    BY <1>1, PlacesDiffer
  <2> HIDE DEF P, a
  <2> QED
    BY <2>1
<1> HIDE DEF V
<1>8. b \in Nat /\ Held(V, P, b)
  <2>1. T[a] = stack[n].out
    BY <1>1, <1>2
  <2> HIDE DEF a, P
  <2>2. CASE v = stack[n].out /\ b = produced
    <3>1. \A z \in P : V[z] = <<>> \/ (z \in P /\ V[z] = T[z])
      BY <1>7, <2>1, <2>2
    <3>2. produced <= produced
      BY <1>1
    <3> QED
      BY <1>1, <1>3, <2>2, <3>1, <3>2, HeldStill
  <2>3. CASE v = Append(stack[n].out, produced) /\ b = produced + 1
    <3>1. V[a] = Append(T[a], produced)
      BY <1>7, <2>1, <2>3
    <3>2. Held(V, P, produced + 1)
      BY <1>1, <1>3, <1>7, <3>1, HeldGrown
    <3> QED
      BY <1>1, <2>3, <3>2
  <2> QED
    BY <2>2, <2>3 DEF n
<1>9. OutAt # ErrAt /\ OutAt # a /\ ErrAt # a
      /\ \A z \in Q : z # OutAt /\ z # ErrAt => z # a /\ z \in P /\ U[z] = V[z]
  <2>1. OutAt # ErrAt /\ OutAt # a /\ ErrAt # a
    BY <1>1, PlacesDiffer
  <2>2. ASSUME NEW z \in Q, z # OutAt, z # ErrAt PROVE z # a /\ z \in P /\ U[z] = V[z]
    <3>1. z = Terminal \/ (\E p \in Paths : z = FileAt(p)) \/ \E k \in 1 .. m : z = FrameAt(k)
      BY <1>1, <2>2, PlacesDiffer
    <3>2. z # a /\ z \in P /\ U[z] = T[z]
      <4>1. CASE z = Terminal
        BY <1>1, <1>2, <1>6, <4>1, PlacesDiffer
      <4>2. CASE \E p \in Paths : z = FileAt(p)
        BY <1>1, <1>2, <1>6, <4>2, PlacesDiffer
      <4>3. CASE \E k \in 1 .. m : z = FrameAt(k)
        BY <1>1, <1>2, <1>6, <4>3, PlacesDiffer
      <4> QED
        BY <3>1, <4>1, <4>2, <4>3
    <3> QED
      BY <1>7, <3>2
  <2> QED
    BY <2>1, <2>2
<1>10. Held(U, Q, b)
  <2> HIDE DEF Q, P, a
  <2>1. CASE x = v /\ y = <<>>
    <3>1. Moved(V, P, U, Q, a, OutAt)
      BY <1>6, <1>7, <1>9, <2>1 DEF Moved
    <3> QED
      BY <1>8, <3>1, HeldMoved
  <2>2. CASE x = <<>> /\ y = v
    <3>1. Moved(V, P, U, Q, a, ErrAt)
      BY <1>6, <1>7, <1>9, <2>2 DEF Moved
    <3> QED
      BY <1>8, <3>1, HeldMoved
  <2> QED
    BY <2>1, <2>2
<1> QED
  BY <1>1, <1>5, <1>8, <1>10 DEF SheetHeld, U, m, n

\* A built-in ends.
LEMMA BuiltinEndsHolds ==
  ASSUME RedirectInv, WrittenInv, NEW ok \in BOOLEAN, BuiltinEnds(ok)
  PROVE  WrittenInv'
<1> DEFINE f == stack[Len(stack)]
           text == Append(f.out, produced)
           base == [files |-> files, out |-> text, err |-> <<>>, bad |-> FALSE]
           st == FoldLeft(BuiltinWrites, base, f.rs)
<1>1. stack # <<>> /\ Len(stack) \in Nat /\ Len(stack) # 0 /\ IsFrame(f)
  BY SeqFacts DEF BuiltinEnds, RedirectInv, InputInv, Shaped
<1>2. f.out \o <<produced>> = text
  <2>1. Len(stack) \in 1 .. Len(stack) /\ FrameAt(Len(stack)) \in PlacesOf(Len(stack))
    BY <1>1, PlacesDiffer
  <2>2. StateTexts[FrameAt(Len(stack))] = f.out
    BY <1>1, <2>1, StateTextsAt
  <2>3. IsSeq(f.out)
    BY <2>1, <2>2 DEF WrittenInv, Held
  <2>4. IsSeq(<<>>)
    BY DEF IsSeq
  <2> HIDE DEF f
  <2> QED
    BY <2>3, <2>4, Joined
<1>3. /\ ok => files' = st.files /\ Emit(Front(stack), IF st.bad THEN <<>> ELSE st.out)
      /\ ~ ok => files' = files /\ Emit(Front(stack), text)
      /\ produced' = produced + 1
  <2>1. Last(stack) = f
    BY DEF Last
  <2> HIDE DEF f
  <2> QED
    BY <1>2, <2>1 DEF BuiltinEnds
<1>4. produced + 1 \in Nat /\ Len(stack) - 1 \in Nat /\ SheetHeld(base, Len(stack) - 1, produced + 1)
  BY <1>1, SheetStarts
<1>5. Len(f.rs) \in Nat /\ DOMAIN f.rs = 1 .. Len(f.rs)
  BY <1>1, ListLength DEF IsFrame
<1>6. SheetHeld(st, Len(stack) - 1, produced + 1)
  <2> HIDE DEF base, f
  <2> QED
    BY <1>4, <1>5, WritesRun
<1>7. base.files = files /\ base.out = text
  OBVIOUS
<1> HIDE DEF base, st, text
<1>8. CASE ok
  BY <1>1, <1>3, <1>4, <1>6, <1>8, EmitHolds
<1>9. CASE ~ ok
  BY <1>1, <1>3, <1>4, <1>7, <1>9, EmitHolds
<1> QED
  BY <1>8, <1>9

\* A group ends.
LEMMA GroupEndsHolds ==
  ASSUME RedirectInv, WrittenInv, NEW ok \in BOOLEAN, GroupEnds(ok)
  PROVE  WrittenInv'
<1> DEFINE f == stack[Len(stack)]
           x == IF ok THEN f.out ELSE <<>>
           y == IF ok THEN <<>> ELSE f.out
           base == [files |-> files, out |-> x, err |-> y, bad |-> FALSE]
           st == FoldLeft(GroupWrites, base, f.rs)
           text == IF st.bad THEN <<>> ELSE IF ok \/ st.err = <<>> THEN st.out ELSE st.err
<1>1. stack # <<>> /\ Len(stack) \in Nat /\ Len(stack) # 0 /\ IsFrame(f)
  BY SeqFacts DEF GroupEnds, RedirectInv, InputInv, Shaped
<1>2. files' = st.files /\ Emit(Front(stack), text) /\ produced' = produced
  <2>1. Last(stack) = f
    BY DEF Last
  <2> HIDE DEF f
  <2> QED
    BY <2>1 DEF GroupEnds
<1>3. (x = f.out /\ y = <<>>) \/ (x = <<>> /\ y = f.out)
  OBVIOUS
<1>4. produced \in Nat /\ Len(stack) - 1 \in Nat /\ SheetHeld(base, Len(stack) - 1, produced)
  <2> HIDE DEF x, y
  <2> QED
    BY <1>1, <1>3, SheetStarts
<1>5. Len(f.rs) \in Nat /\ DOMAIN f.rs = 1 .. Len(f.rs)
  BY <1>1, ListLength DEF IsFrame
<1>6. SheetHeld(st, Len(stack) - 1, produced)
  <2> HIDE DEF base, f
  <2> QED
    BY <1>4, <1>5, WritesRun
<1>7. text \in {<<>>, st.out, st.err}
  <2> HIDE DEF st
  <2> QED
    OBVIOUS
<1> HIDE DEF st, text
<1> QED
  BY <1>1, <1>2, <1>4, <1>6, <1>7, EmitHolds

\* Every step
LEMMA WrittenStep ==
  ASSUME RedirectInv, WrittenInv, Next
  PROVE  WrittenInv'
<1>0. produced \in Nat
  BY DEF RedirectInv
<1>1. ASSUME produced' = produced \/ produced' = produced + 1, UNCHANGED <<files, shown, stack>>
      PROVE  WrittenInv'
  <2>1. produced' \in Nat /\ produced <= produced'
    BY <1>0, <1>1
  <2> QED
    BY <1>1, <2>1, QuietHolds
<1>2. ASSUME NEW kind, NEW rs, NEW saved, NEW file, NEW was,
             stack' = Append(stack, Frame(kind, rs, saved, file, was)),
             produced' = produced + 1, UNCHANGED <<files, shown>>
      PROVE  WrittenInv'
  <2>1. Frame(kind, rs, saved, file, was).out = <<>>
    BY DEF Frame
  <2> QED
    BY <1>2, <2>1, PushHolds
<1>3. ASSUME NEW rs \in Lists(MaxRedirections), Exec(rs) PROVE WrittenInv'
  BY <1>1, <1>3 DEF Exec
<1>4. CASE ExecRedirects \/ ExecSucceeds \/ ExecUnwinds
  BY <1>1, <1>4 DEF ExecRedirects, ExecSucceeds, ExecUnwinds
<1>5. ASSUME NEW rs \in Lists(MaxRedirections), Builtin(rs) PROVE WrittenInv'
  <2>1. \E saved, file : stack' = Append(stack, Frame("builtin", rs, saved, file, intended))
    BY <1>5 DEF Builtin
  <2>2. produced' = produced + 1 /\ UNCHANGED <<files, shown>>
    BY <1>5 DEF Builtin
  <2> QED
    BY <1>2, <2>1, <2>2
<1>6. ASSUME NEW rs \in Lists(MaxRedirections), BuiltinUnredirected(rs) PROVE WrittenInv'
  BY <1>1, <1>6 DEF BuiltinUnredirected
<1>7. ASSUME NEW rs \in GroupTails(MaxRedirections), Group(rs) PROVE WrittenInv'
  BY <1>2, <1>7 DEF Group
<1>8. ASSUME NEW specs, NEW capture, Launch(specs, capture) PROVE WrittenInv'
  BY <1>1, <1>8 DEF Launch
<1>9. ASSUME NEW specs, NEW capture, Pipeline(specs, capture) PROVE WrittenInv'
  BY <1>8, <1>9 DEF Pipeline
<1>10. ASSUME NEW specs, NEW capture, NEW text, PipelineFromBuiltin(specs, capture, text) PROVE WrittenInv'
  BY <1>8, <1>10 DEF PipelineFromBuiltin
<1>11. ASSUME NEW rs, NEW capture, ExecCommand(rs, capture) PROVE WrittenInv'
  BY <1>8, <1>11 DEF ExecCommand
<1>12. CASE Fork \/ ForkFails \/ PipelineEnds
  BY <1>1, <1>12 DEF Fork, ForkFails, PipelineEnds
<1> QED
  BY <1>3, <1>4, <1>5, <1>6, <1>7, <1>9, <1>10, <1>11, <1>12, BuiltinEndsHolds, GroupEndsHolds DEF Next

\* The output of a command is in one place: it waits in one frame, or is in one file
\* or on the terminal, wherever the redirections of the built-ins and groups around
\* it send it, for any bound of commands, redirections and nesting.
THEOREM OutputWrittenOnce == Spec => []WrittenOnce
<1>1. Init => WrittenInv
  <2>1. SUFFICES ASSUME Init PROVE WrittenInv
    OBVIOUS
  <2>2. /\ files = [p \in Paths |-> <<>>] /\ shown = <<>> /\ stack = <<>> /\ produced = 0 /\ Len(stack) = 0
        /\ IsSeq(<<>>) /\ Len(<<>>) = 0 /\ 1 .. 0 = {} /\ 0 \in Nat
    BY <2>1 DEF Init, IsSeq
  <2>3. \A x \in PlacesOf(0) : StateTexts[x] = <<>>
    <3>1. ASSUME NEW x \in PlacesOf(0) PROVE x = Terminal \/ \E p \in Paths : x = FileAt(p)
      BY <3>1, <2>2 DEF PlacesOf, FileAt
    <3>2. StateTexts[Terminal] = shown /\ \A p \in Paths : StateTexts[FileAt(p)] = files[p]
      BY <2>2, StateTextsAt
    <3> QED
      BY <2>2, <3>1, <3>2
  <2>4. Held(StateTexts, PlacesOf(0), 0)
    BY <2>2, <2>3 DEF Held
  <2>5. files = [p \in Paths |-> files[p]]
    BY <2>2
  <2> QED
    BY <2>2, <2>4, <2>5 DEF WrittenInv
<1>2. RedirectInv /\ WrittenInv /\ [Next]_vars => WrittenInv'
  <2>1. SUFFICES ASSUME RedirectInv, WrittenInv, [Next]_vars PROVE WrittenInv'
    OBVIOUS
  <2>2. CASE UNCHANGED vars
    <3>1. produced \in Nat /\ produced' = produced /\ produced <= produced'
      BY <2>1, <2>2 DEF vars, RedirectInv
    <3> QED
      BY <2>1, <2>2, <3>1, QuietHolds DEF vars
  <2> QED
    BY <2>1, <2>2, WrittenStep
<1>3. RedirectInv /\ WrittenInv => WrittenOnce
  <2>1. SUFFICES ASSUME RedirectInv, WrittenInv PROVE WrittenOnce
    OBVIOUS
  <2>2. Len(stack) \in Nat
    BY <2>1, SeqFacts DEF RedirectInv, InputInv, Shaped
  <2>3. Places = PlacesOf(Len(stack))
    BY DEF Places, PlacesOf, Terminal
  <2>4. ASSUME NEW x \in Places PROVE Text(x) = StateTexts[x]
    <3>1. x \in AllPlaces(Len(stack))
      BY <2>3, <2>4 DEF AllPlaces
    <3>2. StateTexts[x] = TextAt(files, shown, stack, <<>>, <<>>, x)
      BY <3>1 DEF StateTexts, Texts
    <3>3. x[1] \in {"terminal", "file", "frame"}
      BY <2>4 DEF Places
    <3>4. Text(x) = TextAt(files, shown, stack, <<>>, <<>>, x)
      BY <3>3 DEF Text, TextAt
    <3> QED
      BY <3>2, <3>4
  <2>5. \A x, y \in Places : \A i \in 1 .. Len(StateTexts[x]), j \in 1 .. Len(StateTexts[y]) :
          StateTexts[x][i] = StateTexts[y][j] => x = y /\ i = j
    BY <2>1, <2>3 DEF WrittenInv, Held
  <2> QED
    BY <2>4, <2>5 DEF WrittenOnce
<1> QED
  BY <1>1, <1>2, <1>3, TablesKept, PTL DEF Spec

=============================================================================
